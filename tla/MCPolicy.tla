------------------------------ MODULE MCPolicy ------------------------------
(* Policy with days of three minutes and a handful of grants, for TLC. *)
EXTENDS Policy, TLC

MCWindows == {[days |-> d, from |-> f, to |-> t, tz |-> z] :
                  d \in {{0}, {2, 6}}, f, t \in Clock, z \in {0, 1}}

\* Tuesday and Saturday from the last minute into the next day; and Sunday, all day.
Night == [days |-> {2, 6}, from |-> 2, to |-> 1, tz |-> 0]
Sunday == [days |-> {0}, from |-> 0, to |-> 0, tz |-> 1]

Base == [by |-> "name", windows |-> {}, access |-> "standing", clip |-> TRUE,
         mfa |-> FALSE, idle |-> 2, max |-> 0]

MCGrants == {Base,
             [Base EXCEPT !.idle = 1, !.max = 2],
             [Base EXCEPT !.clip = FALSE, !.windows = {Night}],
             [Base EXCEPT !.by = "tags", !.mfa = TRUE, !.max = 1],
             [Base EXCEPT !.access = "approval", !.clip = FALSE, !.windows = {Sunday}]}
MCGrantSets == {{g} : g \in MCGrants}

Symmetry == Permutations(Policies)
=============================================================================
