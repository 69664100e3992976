----------------------------- MODULE AtomicFile -----------------------------
(***************************************************************************)
(* What saving by tmp and rename is meant to give: a file that is absent or*)
(* holds one whole body, changed at one instant, to a body some command is *)
(* asking for at that time, or removed by one.  A command that fails or is *)
(* killed leaves it as it was.  UserCommands implements this for the       *)
(* credentials and for the project's configuration, until two saves of the *)
(* file are under way at once: then the shared .tmp promises nothing.      *)
(***************************************************************************)
CONSTANTS Clients, Bodies,
          Absent, Idle   \* neither of them a body

VARIABLES file,       \* the body under the final name, or Absent
          asked,      \* asked[c]: what c wants there, or Idle
          contended   \* two clients have saved at once

Init == /\ file \in Bodies \cup {Absent}
        /\ asked = [c \in Clients |-> Idle]
        /\ contended = FALSE

Ask(c) ==
    /\ asked[c] = Idle
    /\ asked'[c] \in Bodies \cup {Absent}
    /\ UNCHANGED <<file, contended>>

Commit(c) ==
    /\ asked[c] # Idle
    /\ file' = asked[c] /\ asked'[c] = Idle
    /\ UNCHANGED contended

Abandon(c) ==
    /\ asked[c] # Idle /\ asked'[c] = Idle
    /\ UNCHANGED <<file, contended>>

Contend(c, d) ==
    /\ contended'
    /\ c # d /\ asked[c] \in Bodies /\ asked[d] \in Bodies
    /\ UNCHANGED <<file, asked>>

Next ==
    \/ /\ ~contended
       /\ \/ \E c \in Clients : /\ Ask(c) \/ Commit(c) \/ Abandon(c)
                                /\ asked' = [asked EXCEPT ![c] = asked'[c]]
          \/ \E c, d \in Clients : Contend(c, d)
    \/ contended /\ contended'

Spec == Init /\ [][Next]_<<file, asked, contended>>
=============================================================================
