----------------------------- MODULE FreshReads -----------------------------
(***************************************************************************)
(* What a client-side cache of one piece of server data promises.  Every   *)
(* version it shows is the answer of a read that began when that version   *)
(* was not yet outdated, or the answer of a write; it never shows what the *)
(* server did not hold.  Fetches, retries, cancellation, invalidation and  *)
(* the pages are not visible here.                                         *)
(***************************************************************************)
EXTENDS Naturals

VARIABLES
    latest,   \* version the server holds
    shown,    \* version the cache holds, 0 for none
    asked,    \* version the server held when the read under way began, or 0
    answers   \* versions in the answers of writes that are under way

freshVars == <<latest, shown, asked, answers>>

FreshInit ==
    /\ latest = 1
    /\ shown = 0
    /\ asked \in {0, 1}
    /\ answers = {}

(* A write raises the version, and its answer may carry the new one. *)
Commit ==
    /\ latest' = latest + 1
    /\ answers' \in {answers, answers \cup {latest'}}
    /\ UNCHANGED <<shown, asked>>

(* A read begins, or begins again. *)
Begins == asked' = latest /\ UNCHANGED <<latest, shown, answers>>

(* It ends with a version at least as new as the one it began at. *)
Ends ==
    /\ asked # 0 /\ asked' = 0
    /\ shown' \in asked .. latest
    /\ UNCHANGED <<latest, answers>>

GivesUp == asked' = 0 /\ UNCHANGED <<latest, shown, answers>>

(* The answer of a write is taken over, dropped, or makes a read begin. *)
Answers ==
    /\ answers' \subseteq answers
    /\ shown' \in {shown} \cup answers
    /\ asked' \in {asked, latest}
    /\ UNCHANGED latest

FreshNext == Commit \/ Begins \/ Ends \/ GivesUp \/ Answers

FreshSpec == FreshInit /\ [][FreshNext]_freshVars
=============================================================================
