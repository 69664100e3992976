----------------------------- MODULE HookLedger -----------------------------
(***************************************************************************)
(* What the hook guards say once per session.  Every tool call of an agent *)
(* starts a process of its own, so each guard remembers in a sentinel file,*)
(* created with O_CREATE|O_EXCL, that it has spoken.                       *)
(***************************************************************************)
EXTENDS Naturals, Sequences

\* One call of a guard: "banner" (suggest-grep and the other banners),
\* "reminder" (prompt-guard) or "contract"; the session, 0 when the envelope
\* has none; the state of the disk; and whether the process is killed between
\* the sentinel and its answer.
Key(c) == <<c.guard, c.session>>

\* Slip: a session without a name keeps a sentinel like the others.
ClaimUnnamed(c, seen) ==
    [again |-> c.disk /\ Key(c) \in seen, seen |-> IF c.disk THEN seen \cup {Key(c)} ELSE seen]

\* SessionBannerEmittedOnce, dedupSessionReminder and contractOffenseSeen: an
\* error other than EEXIST is a first time.  A banner names a session itself.
Claim(c, seen) ==
    IF c.disk /\ (c.session # 0 \/ c.guard = "banner")
    THEN [again |-> Key(c) \in seen, seen |-> seen \cup {Key(c)}]
    ELSE [again |-> FALSE, seen |-> seen]

Decision(c, again) ==
    CASE c.killed -> "none"
      [] c.guard = "contract" -> IF c.strict THEN "deny" ELSE IF again THEN "allow" ELSE "ask"
      [] OTHER -> IF again THEN "silent" ELSE "speak"

\* A strict contract asks the ledger nothing.
Asks(c, seen) ==
    IF c.guard = "contract" /\ c.strict THEN [again |-> FALSE, seen |-> seen] ELSE Claim(c, seen)

\* The sentinels on disk after the first n calls, and what each call says.
Sentinels(calls) ==
    LET seen[n \in Nat] == IF n = 0 THEN {} ELSE Asks(calls[n], seen[n - 1]).seen IN seen
Answered(calls) ==
    [j \in DOMAIN calls |-> Decision(calls[j], Asks(calls[j], Sentinels(calls)[j - 1]).again)]

-----------------------------------------------------------------------------
(* Over a session of calls in any order: what is suppressed or let through   *)
(* was said to the same session before, or by a process that was killed      *)
(* saying it; a breach without a session is never let through; and nothing is*)
(* said twice unless the disk failed or nobody knows the session.            *)
SaysOnce(calls) ==
    LET said == Answered(calls)
        same(i, j) == i < j /\ Key(calls[i]) = Key(calls[j]) /\ calls[i].disk
                      /\ ~(calls[i].strict /\ calls[i].guard = "contract")
    IN \A j \in DOMAIN calls :
        /\ said[j] \in {"silent", "allow"} =>
              \E i \in DOMAIN calls : same(i, j) /\ said[i] \in {"speak", "ask", "none"}
        /\ said[j] = "allow" => calls[j].session # 0
        /\ said[j] \in {"speak", "ask"} =>
              \/ ~calls[j].disk \/ (calls[j].session = 0 /\ calls[j].guard # "banner")
              \/ \A i \in DOMAIN calls : ~same(i, j)
=============================================================================
