--------------------------- MODULE QueueContract ---------------------------
(***************************************************************************)
(* What the persistent queue promises the code that registers a sender     *)
(* with it (register_sender's on_terminal, gateway/message_queue.py): the  *)
(* life of a row, and which steps of it call the terminal hook.  Threads,  *)
(* batches, budgets, clocks and the table are not visible here.            *)
(***************************************************************************)
EXTENDS Integers

CONSTANT Rows

VARIABLES
    state,      \* of each row
    hooks       \* how often its hook was called, by outcome

vars == <<state, hooks>>

States  == {"none", "waiting", "taken", "done", "dead", "gone"}
Reports == {"delivered", "dropped"}

\* The steps of a row: from, to, and the outcome its hook is told.
Accepts  == {<<"none", "waiting", "quiet">>}
Takes    == {<<"waiting", "taken", "quiet">>}
\* failed with attempts left, deferred, or found stale
PutsBack == {<<"taken", "waiting", "quiet">>}
\* A send that outlived STALE_TIMEOUT may end after the row was put back or
\* dead-lettered.
Delivers == {<<s, "done", "delivered">> : s \in {"taken", "waiting", "dead"}}
\* out of attempts, refused, expired, shed or found stale too often
Drops    == {<<"waiting", "dead", "dropped">>, <<"taken", "dead", "dropped">>,
             <<"waiting", "gone", "dropped">>}
\* shed after it had left 'waiting': reported dropped whatever it became
ShedsLate == {<<s, "gone", "dropped">> : s \in {"taken", "done", "dead", "gone"}}
\* retry_dead_letter, and the purge of old rows
Revives  == {<<"dead", "waiting", "quiet">>}
Purges   == {<<s, "gone", "quiet">> : s \in {"done", "dead"}}

Steps == Accepts \cup Takes \cup PutsBack \cup Delivers \cup Drops \cup ShedsLate
         \cup Revives \cup Purges

Told(h, report) == IF report = "quiet" THEN h ELSE [h EXCEPT ![report] = @ + 1]

Moves(r) ==
    \E s \in Steps : /\ state[r] = s[1] /\ state'[r] = s[2]
                     /\ hooks'[r] = Told(hooks[r], s[3])
Rests(r) == state'[r] = state[r] /\ hooks'[r] = hooks[r]

\* Rows move together when one statement matches several of them.
RowsMove == \A r \in Rows : Moves(r) \/ Rests(r)

\* clear_all asks nobody.
Cleared ==
    \A r \in Rows : /\ state'[r] = (IF state[r] = "none" THEN "none" ELSE "gone")
                    /\ hooks'[r] = hooks[r]

Init ==
    /\ state = [r \in Rows |-> "none"]
    /\ hooks = [r \in Rows |-> [o \in Reports |-> 0]]

Next == RowsMove \/ Cleared

Spec == Init /\ [][Next]_vars
=============================================================================
