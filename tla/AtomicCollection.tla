-------------------------- MODULE AtomicCollection --------------------------
(***************************************************************************)
(* What a collection of MeDB looks like to its concurrent callers, without *)
(* locks: every call takes effect at one moment between its invocation and *)
(* its return, reads answer with the documents of that moment, and a call  *)
(* on a closed database neither sees nor changes anything.  Durability is  *)
(* the subject of DurableWrites.  Module Collection implements this.       *)
(***************************************************************************)
EXTENDS Integers, FiniteSets

CONSTANTS
  Clients,   \* goroutines that call the collection
  Ids,       \* document ids, ordered
  MaxRecs,   \* bound: changes made in a behaviour
  Nil        \* no collection, no call

\* A document is the number of the change that stored it; 0: no document.
Docs == [Ids -> 0..MaxRecs]
Empty == [i \in Ids |-> 0]

Reads == [op : {"Get", "Has"}, id : Ids] \cup [op : {"Count", "All", "Collections"}]
Writes == [op : {"Set", "Delete", "Update"}, id : Ids] \cup [op : {"Drop"}]
Calls == Reads \cup Writes

VARIABLES
  store,    \* the documents, or Nil: the collection does not exist
  changes,  \* number of changes so far
  open,     \* Close has not been called
  call,     \* the call each client is in, or Nil
  reply     \* its answer, or Nil while it has not taken effect

vars == <<store, changes, open, call, reply>>

DocsOf(s) == IF s = Nil THEN Empty ELSE s

Init ==
  /\ store = Nil /\ changes = 0 /\ open = TRUE
  /\ call = [p \in Clients |-> Nil]
  /\ reply = [p \in Clients |-> Nil]

Invoke(p) ==
  /\ call[p] = Nil
  /\ \E c \in Calls : call' = [call EXCEPT ![p] = c]
  /\ UNCHANGED <<store, changes, open, reply>>

\* What a read answers when the documents are s.
Answer(c, s) ==
  CASE c.op = "Get" -> <<"doc", DocsOf(s)[c.id]>>
    [] c.op = "Has" -> <<"has", DocsOf(s)[c.id] # 0>>
    [] c.op = "Count" -> <<"count", Cardinality({i \in Ids : DocsOf(s)[i] # 0})>>
    [] c.op = "All" -> <<"docs", DocsOf(s)>>
    [] c.op = "Collections" -> <<"exists", s # Nil>>

\* What a change numbered n makes of them.
Changed(c, s, n) ==
  CASE c.op \in {"Set", "Update"} -> [DocsOf(s) EXCEPT ![c.id] = n]
    [] c.op = "Delete" -> IF s = Nil THEN Nil ELSE [s EXCEPT ![c.id] = 0]
    [] c.op = "Drop" -> Nil

Pending(p) == call[p] # Nil /\ reply[p] = Nil

\* What a call on a closed database answers: an error, or nothing there.
ClosedAnswer(c) ==
  IF c \in Writes \/ c.op = "Get" THEN <<"closed">> ELSE Answer(c, Nil)

Refuse(p) ==
  /\ Pending(p) /\ ~open
  /\ reply' = [reply EXCEPT ![p] = ClosedAnswer(call[p])]
  /\ UNCHANGED <<store, changes, open, call>>

Read(p) ==
  /\ Pending(p) /\ open /\ call[p] \in Reads
  /\ reply' = [reply EXCEPT ![p] = Answer(call[p], store)]
  /\ UNCHANGED <<store, changes, open, call>>

\* An Update answers with the document that it replaced.
Write(p) ==
  /\ Pending(p) /\ open /\ call[p] \in Writes
  /\ call[p].op = "Update" => DocsOf(store)[call[p].id] # 0
  /\ changes' = changes + 1
  /\ store' = Changed(call[p], store, changes + 1)
  /\ reply' = [reply EXCEPT ![p] =
                 IF call[p].op = "Update" THEN <<"updated", DocsOf(store)[call[p].id]>>
                                          ELSE <<"done">>]
  /\ UNCHANGED <<open, call>>

\* An Update of a missing document, one whose function fails, and a Set of an
\* oversized document change nothing.
Decline(p) ==
  /\ Pending(p)
  /\ \/ /\ call[p].op = "Set"
        /\ reply' = [reply EXCEPT ![p] = <<"error">>]
     \/ /\ call[p].op = "Update" /\ open
        /\ reply' = [reply EXCEPT ![p] =
             IF DocsOf(store)[call[p].id] = 0 THEN <<"missing">> ELSE <<"error">>]
  /\ UNCHANGED <<store, changes, open, call>>

Return(p) ==
  /\ reply[p] # Nil
  /\ call' = [call EXCEPT ![p] = Nil]
  /\ reply' = [reply EXCEPT ![p] = Nil]
  /\ UNCHANGED <<store, changes, open>>

Close ==
  /\ open
  /\ open' = FALSE
  /\ UNCHANGED <<store, changes, call, reply>>

\* The documents of a closed database are forgotten.
Forget ==
  /\ ~open
  /\ store' = Nil
  /\ UNCHANGED <<changes, open, call, reply>>

Next ==
  \/ \E p \in Clients : \/ Invoke(p) \/ Refuse(p) \/ Read(p) \/ Write(p)
                        \/ Decline(p) \/ Return(p)
  \/ Close \/ Forget

Spec == Init /\ [][Next]_vars
=============================================================================
