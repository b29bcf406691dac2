------------------------------- MODULE Paging -------------------------------
(* Lists that are read page by page while they change: the activity of the   *)
(* dashboard API, newest first, to which rows are added while a client reads *)
(* it; and the repositories at GitHub, last updated first, which Connect's    *)
(* dialog reads whole, and in which repositories move, come and go.           *)
EXTENDS Integers, Sequences, SequencesExt

CONSTANTS
    Limits,         \* what a client asks for; 0 stands for no limit given
    DefaultLimit,
    Cap,            \* the most rows of one answer; also GitHub's page size
    MaxPages,       \* the most pages ListRepositories asks for
    MaxRows         \* bound on the rows there ever are

ASSUME LimitsAssumption == Limits \subseteq Nat /\ DefaultLimit \in Nat \ {0} /\ Cap \in Nat \ {0}
ASSUME BoundsAssumption == MaxPages \in Nat \ {0} /\ MaxRows \in Nat

VARIABLES
    list,       \* the rows its query selects, in the order they are listed in
    reader,     \* the client, or the request that runs ListRepositories
    newest,     \* ids are given in order
    gone        \* history: has a row left the list since the reader began?
vars == <<list, reader, newest, gone>>

Ids == 1..MaxRows

(* "query": what is read and how; page: the next one to ask for; seen: what  *)
(* was answered so far; present: history, the rows since the reader began    *)
(* that it should see.                                                       *)
Queries ==
    [source: {"activity"}, by: {"page", "offset"}, limit: Limits]
    \cup [source: {"repositories"}, by: {"page"}, limit: {Cap}]

Init ==
    /\ newest \in 0..MaxRows
    /\ list = [i \in 1..newest |-> newest + 1 - i]
    /\ \E q \in Queries:
         reader = [query |-> q, page |-> 1, seen |-> <<>>, present |-> ToSet(list), done |-> FALSE]
    /\ gone = FALSE

------------------------------------------------------------------------------
(* parsePageLimit.                                                         *)
Limit(q) == IF q.limit > 0 THEN q.limit ELSE DefaultLimit

\* Fault variant: the offset of the page after it.
NextOffset(q, page, seen) == IF q.by = "offset" THEN Len(seen) ELSE page * Limit(q)
Offset(q, page, seen) == IF q.by = "offset" THEN Len(seen) ELSE (page - 1) * Limit(q)

\* Fault variant: the limit is taken as it comes.
Uncapped(limit) == limit
(* The store, again, and GitHub.                                           *)
Capped(limit) == IF limit > Cap THEN Cap ELSE limit

Answer(q, page, seen) ==
    LET offset == Offset(q, page, seen)
        end == offset + Capped(Limit(q))
    IN  SubSeq(list, offset + 1, IF end < Len(list) THEN end ELSE Len(list))

(* ListEvents, ListActions: a client asks for one page after the other,      *)
(* until one is empty.  By "offset" it asks for what follows the rows it has. *)
ListActivity ==
    /\ reader.query.source = "activity" /\ ~reader.done
    /\ LET answer == Answer(reader.query, reader.page, reader.seen)
       IN  reader' = [reader EXCEPT !.seen = @ \o answer, !.page = @ + 1, !.done = (answer = <<>>)]
    /\ UNCHANGED <<list, newest, gone>>

(* ListRepositories: a round of its loop, which a page that is not full ends, *)
(* or the bound on the pages.                                                 *)
ListRepositories ==
    /\ reader.query.source = "repositories" /\ ~reader.done
    /\ LET answer == Answer(reader.query, reader.page, reader.seen)
       IN  reader' = [reader EXCEPT !.seen = @ \o answer, !.page = @ + 1,
                                    !.done = (Len(answer) < Cap \/ reader.page = MaxPages)]
    /\ UNCHANGED <<list, newest, gone>>

------------------------------------------------------------------------------
(* A row of webhook_events or actions is committed: received_at and created_at *)
(* were set before, so that it may come to lie behind others.  At GitHub a      *)
(* repository is created.                                                       *)
Insert ==
    /\ newest < MaxRows /\ newest' = newest + 1
    /\ \E i \in 1..(Len(list) + 1):
         /\ reader.query.source = "repositories" => i = 1
         /\ list' = InsertAt(list, i, newest + 1)
    /\ UNCHANGED <<reader, gone>>

(* A repository is updated and moves to the front; the reader may miss it.  *)
Update(i) ==
    /\ reader.query.source = "repositories"
    /\ list' = <<list[i]>> \o RemoveAt(list, i)
    /\ reader' = [reader EXCEPT !.present = @ \ {list[i]}]
    /\ UNCHANGED <<newest, gone>>

(* A repository is deleted, or access to it withdrawn.                     *)
Withdraw(i) ==
    /\ reader.query.source = "repositories"
    /\ list' = RemoveAt(list, i)
    /\ reader' = [reader EXCEPT !.present = @ \ {list[i]}]
    /\ gone' = TRUE
    /\ UNCHANGED newest

(* The list is followed until the reader has come to the end.              *)
Changes ==
    /\ ~reader.done
    /\ \/ Insert
       \/ \E i \in DOMAIN list: Update(i) \/ Withdraw(i)

Next == ListActivity \/ ListRepositories \/ Changes
Spec == Init /\ [][Next]_vars

------------------------------------------------------------------------------
(* Types; no answer is longer than the cap.                                *)
TypeOK ==
    /\ newest \in Ids \cup {0}
    /\ list \in Seq(Ids) /\ IsInjective(list)
    /\ reader.query \in Queries /\ reader.page \in Nat \ {0}
    /\ reader.seen \in Seq(Ids) /\ Len(reader.seen) <= (reader.page - 1) * Cap
    /\ reader.present \subseteq ToSet(list)
    /\ gone \in BOOLEAN

(* A reader that has come to the end has seen every row that was there when  *)
(* it began and stayed where it was, whatever was added or moved to the front *)
(* meanwhile.  The exceptions: a client that counts pages of more rows than   *)
(* the cap; ListRepositories after a repository went away, or when the pages  *)
(* it may ask for were all full.                                              *)
NothingSkipped ==
    reader.done =>
        \/ reader.present \subseteq ToSet(reader.seen)
        \/ reader.query.by = "page" /\ Limit(reader.query) > Cap
        \/ gone
        \/ reader.query.source = "repositories" /\ Len(reader.seen) = MaxPages * Cap
===============================================================================
