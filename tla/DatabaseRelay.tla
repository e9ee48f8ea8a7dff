---------------------------- MODULE DatabaseRelay ---------------------------
(***************************************************************************)
(* The relay beside a MySQL client (src/internal/gateway/mysqlrelay): it   *)
(* signs in to the database with the vaulted credential, lets the client   *)
(* in as the session's user without a password, and then copies packets,   *)
(* answering a re-authentication itself.                                   *)
(*                                                                         *)
(* One connection of the client: each has an upstream of its own.  A       *)
(* packet is its sequence number, 0 for the first of a command, and        *)
(* whether its first byte is COM_CHANGE_USER, which in a later packet of a *)
(* command is data.  What comes back from the database is copied as it is  *)
(* and left out.                                                           *)
(***************************************************************************)
EXTENDS Naturals, Sequences

CONSTANTS
    Requested,      \* framing flags the relay offers and asks for
    Framing,        \* framingMask
    MaxPackets      \* bound: packets the client sends

ASSUME DatabaseAssumption == Requested \subseteq Framing /\ MaxPackets \in Nat

VARIABLES
    tlsMode,    \* Upstream.TLS
    database,   \* external: the server as it is found
    hop,        \* handle: where the connection is, its upstream link and the flags in force on each side
    packets,    \* what the client has sent after its handshake
    taken,      \* how many of them relayCommands has read
    relayed,    \* what went upstream
    answeredHere,   \* re-authentications answered with an error
    exposed     \* history: links the credential was sent over
databaseVars == <<tlsMode, database, hop, packets, taken, relayed, answeredHere, exposed>>

TLSModes == {"prefer", "require", "disable", "verify-full"}
Packet == [seq : {0, 1}, change : BOOLEAN]
\* offers: it speaks TLS; certified: its certificate is the target's; accepts: the
\* credential; flags: what it offers.
Databases == [offers : BOOLEAN, certified : BOOLEAN, accepts : BOOLEAN, flags : SUBSET Framing]
HopRec == [pc : {"accepted", "again", "dialled", "refused", "failed", "relaying", "closing", "closed"},
           link : {"none", "plain", "tls", "verified"}, flags : SUBSET Framing, client : SUBSET Framing]
HungUp == [pc |-> "closed", link |-> "none", flags |-> {}, client |-> {}]

DatabaseTypeOK ==
    /\ tlsMode \in TLSModes /\ database \in Databases
    /\ hop \in HopRec
    /\ packets \in Seq(Packet) /\ taken \in 0..Len(packets) /\ relayed \in Seq(Packet) /\ answeredHere \in Nat
    /\ exposed \subseteq {"plain", "tls", "verified"}

DatabaseInit ==
    /\ tlsMode \in TLSModes /\ database \in Databases
    /\ hop = [HungUp EXCEPT !.pc = "accepted"]
    /\ packets = <<>> /\ taken = 0 /\ relayed = <<>> /\ answeredHere = 0 /\ exposed = {}

-----------------------------------------------------------------------------
\* connect: the link it makes; a server without TLS, or without the certificate
\* verify-full asks for, never sees the credential.
linkOf(useTLS) == IF ~useTLS THEN "plain" ELSE IF tlsMode = "verify-full" THEN "verified" ELSE "tls"
admits(useTLS) == useTLS => database.offers /\ (tlsMode = "verify-full" => database.certified)
\* negotiated: what was asked for, of what is offered.
negotiated == Requested \cap database.flags

\* The network, or the ping after the sign-in, may fail at any time; then pc says
\* where handle goes on.
connect(useTLS, otherwise) ==
    \/ /\ admits(useTLS) /\ exposed' = exposed \cup {linkOf(useTLS)}
       /\ hop' = IF database.accepts THEN [HungUp EXCEPT !.pc = "dialled", !.link = linkOf(useTLS), !.flags = negotiated]
                 ELSE [HungUp EXCEPT !.pc = "refused"]
    \/ /\ exposed' \in {exposed} \cup (IF admits(useTLS) THEN {exposed \cup {linkOf(useTLS)}} ELSE {})
       /\ hop' = [HungUp EXCEPT !.pc = otherwise]

\* dial: prefer tries again in plain, unless the server itself refused; dialUpMut
\* tries again in every mode that does not verify.
dialUpMut ==
    \/ hop.pc = "accepted" /\ connect(tlsMode # "disable", IF tlsMode \in {"prefer", "require"} THEN "again" ELSE "failed")
    \/ hop.pc = "again" /\ connect(FALSE, "failed")
dialUp ==
    \/ hop.pc = "accepted" /\ connect(tlsMode # "disable", IF tlsMode = "prefer" THEN "again" ELSE "failed")
    \/ hop.pc = "again" /\ connect(FALSE, "failed")
DialUp == dialUp /\ UNCHANGED <<tlsMode, database, packets, taken, relayed, answeredHere>>

\* The client's sign-in: the upstream's outcome first (GetCredential), then the
\* session's user and no other, then flags that frame alike (OnAuthSuccess).
\* framingMismatch: a client can use only what the relay offered.
\* ClientSignsInMut reads through a buffer that takes what is behind the handshake.
ClientSignsInMut(sessionUser, flags) ==
    /\ hop.pc \in {"dialled", "refused", "failed"}
    /\ hop' = IF hop.pc = "dialled" /\ sessionUser /\ flags \cap Requested = hop.flags
              THEN [hop EXCEPT !.pc = "relaying", !.client = flags \cap Requested] ELSE HungUp
    /\ taken' = Len(packets)
    /\ UNCHANGED <<tlsMode, database, packets, relayed, answeredHere, exposed>>
ClientSignsIn(sessionUser, flags) ==
    /\ hop.pc \in {"dialled", "refused", "failed"}
    /\ hop' = IF hop.pc = "dialled" /\ sessionUser /\ flags \cap Requested = hop.flags
              THEN [hop EXCEPT !.pc = "relaying", !.client = flags \cap Requested] ELSE HungUp
    /\ UNCHANGED <<tlsMode, database, packets, taken, relayed, answeredHere, exposed>>

\* External: the client.  It may send behind its handshake: the paced reader
\* (Read) leaves every packet after it in the socket.
ClientSends(p) ==
    /\ hop.pc \in {"accepted", "again", "dialled", "relaying"} /\ Len(packets) < MaxPackets
    /\ p.seq = 1 => packets # <<>>
    /\ packets' = Append(packets, p)
    /\ UNCHANGED <<tlsMode, database, hop, taken, relayed, answeredHere, exposed>>

\* relayCommands: the first packet of a re-authentication is answered (writeErr),
\* every other goes upstream.
isChange(p) == p.seq = 0 /\ p.change
RelayPacket ==
    /\ hop.pc = "relaying" /\ taken < Len(packets)
    /\ taken' = taken + 1
    /\ IF isChange(packets[taken + 1]) THEN answeredHere' = answeredHere + 1 /\ UNCHANGED relayed
       ELSE relayed' = Append(relayed, packets[taken + 1]) /\ UNCHANGED answeredHere
    /\ UNCHANGED <<tlsMode, database, hop, packets, exposed>>

\* Either copy ends, in the middle of a packet or between two, or the session
\* does; both sockets are closed and the other copy is waited for.  A client that
\* goes while the upstream is dialled is noticed after.
HangUp ==
    /\ \/ hop.pc = "relaying" /\ hop' = [hop EXCEPT !.pc = "closing"]
       \/ hop.pc \in {"closing", "dialled", "refused", "failed"} /\ hop' = HungUp
    /\ UNCHANGED <<tlsMode, database, packets, taken, relayed, answeredHere, exposed>>

DatabaseNext ==
    \/ DialUp \/ RelayPacket \/ HangUp
    \/ \E u \in BOOLEAN, f \in SUBSET Framing : ClientSignsIn(u, f)
    \/ \E p \in Packet : ClientSends(p)

DatabaseSpec == DatabaseInit /\ [][DatabaseNext]_databaseVars

-----------------------------------------------------------------------------
\* The credential crosses the network as the target's TLS mode says (dial, connect,
\* tlsConfig): never in plain under require or verify-full, never to a server whose
\* certificate verify-full has not verified.
CredentialGuarded ==
    /\ tlsMode = "verify-full" => exposed \subseteq {"verified"} /\ (exposed # {} => database.certified)
    /\ tlsMode = "require" => exposed \subseteq {"tls"}
    /\ "plain" \in exposed /\ "tls" \in exposed => tlsMode = "prefer"

\* at says which of the first n packets sent each packet passed on was.
Follows(at, passed, sent, n) ==
    /\ \A i, j \in DOMAIN at : i < j => at[i] < at[j]
    /\ {at[i] : i \in DOMAIN at} = {i \in 1..n : ~isChange(sent[i])}
    /\ \A i \in DOMAIN at : passed[i] = sent[at[i]]
InOrder == \E at \in [1..Len(relayed) -> 1..taken] : Follows(at, relayed, packets, taken)

\* Past the handshakes the client and the database frame packets alike (handle,
\* framingMismatch), and the database has received what the client sent, whole and
\* in order (relayCommands, paced), but for the re-authentications.
RelayedFaithfully ==
    /\ hop.pc \in {"relaying", "closing"} => hop.client = hop.flags
    /\ InOrder
    /\ Len(relayed) + answeredHere = taken
=============================================================================
