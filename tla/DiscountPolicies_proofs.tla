------------------------ MODULE DiscountPolicies_proofs ------------------------
(***************************************************************************)
(* Proofs about DiscountPolicies, for any requests, buildings and times.   *)
(*                                                                         *)
(* The argument: a row that has an end was closed by a row of its line     *)
(* that starts at that end and has a higher version (Succeeded).  So a     *)
(* started row that is no longer in force is preceded by another started   *)
(* one.  That the closing row is committed in the same step, and is later, *)
(* rests on what its transaction holds: rows of its line that started      *)
(* before it, still open and closed by nobody else (Found, Held), with     *)
(* versions below its own (Numbered), which nobody else has (Inserted).    *)
(***************************************************************************)
EXTENDS DiscountPolicies, TLAPS

Succeeded ==
  \A r \in Requests : policies[r] # NULL =>
    \/ policies[r].to = NULL
    \/ \E p \in History(policies[r].building, policies[r].role) :
         /\ policies[p].from = policies[r].to
         /\ policies[p].version > policies[r].version
         /\ policies[r].from < policies[r].to

Fresh == \A p \in Requests : req[p].pc # "done" => policies[p] = NULL

Found ==
  \A p \in Requests : \A r \in req[p].todo \cup req[p].closed :
    /\ InTransaction(p)
    /\ r \in History(req[p].building, req[p].role)
    /\ policies[r].from < req[p].from

Held ==
  \A p \in Requests : \A r \in req[p].closed :
    /\ policies[r].to = NULL
    /\ \A q \in Requests \ {p} : r \notin req[q].closed

Drained == \A p \in Requests : req[p].pc \in {"insert", "commit"} => req[p].todo = {}

Numbered ==
  \A p \in Requests : req[p].pc \in {"insert", "commit"} =>
    /\ req[p].version > 0
    /\ \/ req[p].version = 1
       \/ \E q \in History(req[p].building, req[p].role) :
            policies[q].version = req[p].version - 1
    /\ \A r \in req[p].closed : policies[r].version < req[p].version

Inserted ==
  \A p \in Requests : req[p].pc = "commit" =>
    /\ InRange(req[p].max)
    /\ ~KeyTaken(p)
    /\ ~KeyHeld(p)

IInv ==
  /\ TypeOK
  /\ Succeeded
  /\ Fresh
  /\ Found
  /\ Held
  /\ Drained
  /\ Numbered
  /\ Inserted
  /\ VersionsConsecutive
--------------------------------------------------------------------------------
LEMMA InitIInv == Init => IInv
  <1>1. ASSUME Init PROVE TypeOK
    BY <1>1, SomeInputs DEF Init, TypeOK, Idle, Request, StaffRoles
  <1>2. ASSUME Init PROVE /\ Succeeded /\ Fresh /\ Found /\ Held
                          /\ Drained /\ Numbered /\ Inserted /\ VersionsConsecutive
    BY <1>2 DEF Init, Idle, Succeeded, Fresh, Found, Held, Drained,
                Numbered, Inserted, VersionsConsecutive, History
  <1>3. QED
    BY <1>1, <1>2 DEF IInv

\* The steps that write no row: they change the request of one goroutine.
LEMMA LocalStep ==
  ASSUME IInv, NEW p \in Requests, UNCHANGED policies,
         NEW new \in Request, req' = [req EXCEPT ![p] = new],
         req[p].pc # "done", new.pc # "done",
         \A r \in new.todo \cup new.closed :
           /\ new.pc \in {"close", "insert", "commit"}
           /\ r \in History(new.building, new.role)
           /\ policies[r].from < new.from,
         \A r \in new.closed :
           /\ policies[r].to = NULL
           /\ \A q \in Requests \ {p} : r \notin req[q].closed,
         new.pc \in {"insert", "commit"} =>
           /\ new.todo = {}
           /\ new.version > 0
           /\ \/ new.version = 1
              \/ \E q \in History(new.building, new.role) : policies[q].version = new.version - 1
           /\ \A r \in new.closed : policies[r].version < new.version,
         new.pc = "commit" =>
           /\ InRange(new.max)
           /\ \A q \in History(new.building, new.role) : policies[q].version # new.version
           /\ \A q \in Requests \ {p} : req[q].pc = "commit" =>
                ~(/\ req[q].building = new.building
                  /\ req[q].role = new.role
                  /\ req[q].version = new.version)
  PROVE  IInv'
  <1>0. /\ TypeOK /\ Succeeded /\ Fresh /\ Found /\ Held /\ Drained /\ Numbered
        /\ Inserted /\ VersionsConsecutive
    BY DEF IInv
  <1>1. /\ req'[p] = new
        /\ \A q \in Requests \ {p} : req'[q] = req[q]
        /\ policies' = policies
    BY <1>0 DEF TypeOK
  <1>2. \A b \in Buildings, role \in StaffRoles : History(b, role)' = History(b, role)
    BY <1>1 DEF History
  <1>3. TypeOK'
    BY <1>0, <1>1 DEF TypeOK
  <1>4. Succeeded'
    BY <1>0, <1>1 DEF Succeeded, History
  <1>5. Fresh'
    BY <1>0, <1>1 DEF Fresh
  <1>6. Found'
    BY <1>0, <1>1 DEF Found, InTransaction, History
  <1>7. Held'
    BY <1>0, <1>1 DEF Held
  <1>8. Numbered'
    BY <1>0, <1>1 DEF Numbered, History
  <1>9. Inserted'
    BY <1>0, <1>1 DEF Inserted, KeyTaken, KeyHeld, SameKey, History
  <1>10. VersionsConsecutive'
    BY <1>0, <1>1 DEF VersionsConsecutive, History
  <1>11. Drained'
    BY <1>0, <1>1 DEF Drained
  <1>12. QED
    BY <1>3, <1>4, <1>5, <1>6, <1>7, <1>8, <1>9, <1>10, <1>11 DEF IInv

LEMMA StartCreateIInv ==
  ASSUME IInv, NEW p \in Requests, NEW b \in Buildings, NEW role \in StaffRoles,
         NEW max \in Percents, NEW t \in Times, StartCreate(p, b, role, max, t)
  PROVE  IInv'
  <1> DEFINE new == [pc |-> "close", building |-> b, role |-> role, max |-> max, from |-> t,
                     todo |-> OpenBefore(b, role, t), closed |-> {}, version |-> 0]
  <1>1. new \in Request
    BY DEF Request, OpenBefore, History
  <1>2. /\ req' = [req EXCEPT ![p] = new]
        /\ req[p].pc # "done"
        /\ UNCHANGED policies
    BY DEF StartCreate
  <1>3. \A r \in OpenBefore(b, role, t) : r \in History(b, role) /\ policies[r].from < t
    BY DEF OpenBefore
  <1>4. QED
    BY <1>1, <1>2, <1>3, LocalStep

LEMMA CloseRowIInv ==
  ASSUME IInv, NEW p \in Requests, NEW r \in Requests, CloseRow(p, r)
  PROVE  IInv'
  <1> DEFINE old == req[p]
             closed == IF StillOpen(r) THEN old.closed \cup {r} ELSE old.closed
             new == [old EXCEPT !.todo = old.todo \ {r}, !.closed = closed]
  <1>1. old \in Request /\ old.pc = "close" /\ r \in old.todo
    BY DEF IInv, TypeOK, CloseRow
  <1>2. new \in Request /\ new.pc = "close"
    BY <1>1 DEF Request
  <1>3. /\ req' = [req EXCEPT ![p] = new]
        /\ UNCHANGED policies
    BY <1>1 DEF CloseRow, Request, IInv, TypeOK
  <1>4. /\ new.todo \subseteq old.todo
        /\ new.closed \subseteq old.closed \cup {r}
        /\ r \in new.closed => r \in old.closed \/ policies[r].to = NULL
        /\ new.building = old.building /\ new.role = old.role /\ new.from = old.from
    BY <1>1 DEF Request, StillOpen
  <1>5. \A q \in Requests \ {p} : r \notin req[q].closed
    BY DEF CloseRow, LockedByOther
  <1>6. \A s \in new.todo \cup new.closed :
          /\ s \in History(new.building, new.role)
          /\ policies[s].from < new.from
    BY <1>1, <1>4 DEF IInv, Found
  <1>7. \A s \in new.closed :
          /\ policies[s].to = NULL
          /\ \A q \in Requests \ {p} : s \notin req[q].closed
    BY <1>1, <1>4, <1>5 DEF IInv, Held
  <1>8. PICK n \in Request : n = new
    BY <1>2
  <1> HIDE DEF new
  <1>9. QED
    BY <1>1, <1>2, <1>3, <1>6, <1>7, <1>8, LocalStep

LEMMA NumberRowIInv ==
  ASSUME IInv, NEW p \in Requests, NumberRow(p)
  PROVE  IInv'
  <1>1. PICK v \in NextVersion(req[p].building, req[p].role) :
          req' = [req EXCEPT ![p].pc = "insert", ![p].version = v]
    BY DEF NumberRow
  <1> DEFINE old == req[p]
             new == [old EXCEPT !.pc = "insert", !.version = v]
  <1>2. old \in Request /\ old.pc = "close" /\ old.todo = {} /\ UNCHANGED policies
    BY DEF IInv, TypeOK, NumberRow
  <1>3. \A q \in History(old.building, old.role) : policies[q].version \in Nat \ {0}
    BY DEF IInv, TypeOK, Row, History
  <1>4. /\ v \in Nat \ {0}
        /\ v = 1 \/ \E q \in History(old.building, old.role) : policies[q].version = v - 1
        /\ \A q \in History(old.building, old.role) : policies[q].version < v
    BY <1>1, <1>3 DEF NextVersion
  <1>5. /\ new \in Request /\ new.pc = "insert" /\ new.version = v
        /\ new.todo = old.todo /\ new.closed = old.closed
        /\ new.building = old.building /\ new.role = old.role /\ new.from = old.from
    BY <1>2, <1>4 DEF Request
  <1>6. req' = [req EXCEPT ![p] = new]
    BY <1>1, <1>2 DEF Request, IInv, TypeOK
  <1>7. \A s \in new.todo \cup new.closed :
          /\ s \in History(new.building, new.role)
          /\ policies[s].from < new.from
    BY <1>5 DEF IInv, Found
  <1>8. \A s \in new.closed :
          /\ policies[s].to = NULL
          /\ \A q \in Requests \ {p} : s \notin req[q].closed
    BY <1>5 DEF IInv, Held
  <1>9. /\ new.todo = {}
        /\ new.version > 0
        /\ \/ new.version = 1
           \/ \E q \in History(new.building, new.role) : policies[q].version = new.version - 1
        /\ \A s \in new.closed : policies[s].version < new.version
    BY <1>2, <1>4, <1>5, <1>7
  <1>10. PICK n \in Request : n = new
    BY <1>5
  <1> HIDE DEF new
  <1>11. QED
    BY <1>2, <1>5, <1>6, <1>7, <1>8, <1>9, <1>10, LocalStep

LEMMA InsertRowIInv ==
  ASSUME IInv, NEW p \in Requests, InsertRow(p)
  PROVE  IInv'
  <1> DEFINE old == req[p]
             new == [old EXCEPT !.pc = "commit"]
  <1>1. old \in Request /\ old.pc = "insert" /\ UNCHANGED policies
    BY DEF IInv, TypeOK, InsertRow
  <1>2. /\ new \in Request /\ new.pc = "commit" /\ new.version = old.version
        /\ new.todo = old.todo /\ new.closed = old.closed /\ new.max = old.max
        /\ new.building = old.building /\ new.role = old.role /\ new.from = old.from
    BY <1>1 DEF Request
  <1>3. req' = [req EXCEPT ![p] = new]
    BY <1>1 DEF InsertRow, Request, IInv, TypeOK
  <1>4. \A s \in new.todo \cup new.closed :
          /\ s \in History(new.building, new.role)
          /\ policies[s].from < new.from
    BY <1>2 DEF IInv, Found
  <1>5. \A s \in new.closed :
          /\ policies[s].to = NULL
          /\ \A q \in Requests \ {p} : s \notin req[q].closed
    BY <1>2 DEF IInv, Held
  <1>6. /\ new.todo = {}
        /\ new.version > 0
        /\ \/ new.version = 1
           \/ \E q \in History(new.building, new.role) : policies[q].version = new.version - 1
        /\ \A s \in new.closed : policies[s].version < new.version
    BY <1>1, <1>2 DEF IInv, Drained, Numbered
  <1>7. /\ InRange(new.max)
        /\ \A q \in History(new.building, new.role) : policies[q].version # new.version
        /\ \A q \in Requests \ {p} : req[q].pc = "commit" =>
             ~(/\ req[q].building = new.building
               /\ req[q].role = new.role
               /\ req[q].version = new.version)
    BY <1>2 DEF InsertRow, Acceptable, KeyTaken, KeyHeld, SameKey
  <1>8. QED
    BY <1>1, <1>2, <1>3, <1>4, <1>5, <1>6, <1>7, LocalStep

LEMMA RollbackIInv ==
  ASSUME IInv, NEW p \in Requests, Rollback(p)
  PROVE  IInv'
  <1> DEFINE old == req[p]
             new == [old EXCEPT !.pc = "failed", !.todo = {}, !.closed = {}]
  <1>1. old \in Request /\ old.pc # "done" /\ UNCHANGED policies
    BY DEF IInv, TypeOK, Rollback, InTransaction
  <1>2. new \in Request /\ new.pc = "failed" /\ new.todo = {} /\ new.closed = {}
    BY <1>1 DEF Request
  <1>3. req' = [req EXCEPT ![p] = new]
    BY <1>1 DEF Rollback, Request, IInv, TypeOK
  <1>4. QED
    BY <1>1, <1>2, <1>3, LocalStep

\* What a commit does to the tables: it adds the row of p and ends the rows it
\* holds.
LEMMA CommitEffect ==
  ASSUME IInv, NEW p \in Requests, Commit(p)
  PROVE  /\ policies[p] = NULL
         /\ policies'[p] = NewRow(p)
         /\ NewRow(p) \in Row
         /\ p \notin req[p].closed
         /\ \A r \in req[p].closed : /\ policies[r] # NULL
                                     /\ policies'[r] = [policies[r] EXCEPT !.to = req[p].from]
         /\ \A r \in Requests \ {p} : r \notin req[p].closed => policies'[r] = policies[r]
         /\ \A r \in Requests \ {p} : /\ policies'[r] = NULL <=> policies[r] = NULL
                                      /\ policies[r] # NULL =>
                                           /\ policies'[r].building = policies[r].building
                                           /\ policies'[r].role = policies[r].role
                                           /\ policies'[r].max = policies[r].max
                                           /\ policies'[r].version = policies[r].version
                                           /\ policies'[r].from = policies[r].from
  <1>1. policies[p] = NULL
    BY DEF IInv, Fresh, Commit
  <1>2. req[p] \in Request /\ req[p].pc = "commit"
    BY DEF IInv, TypeOK, Commit
  <1>3. NewRow(p) \in Row
    BY <1>2 DEF NewRow, Row, Request, IInv, Inserted, Numbered
  <1>4. \A r \in req[p].closed : r \in Requests /\ policies[r] # NULL
    BY <1>2 DEF IInv, Found, History
  <1>5. p \notin req[p].closed
    BY <1>1, <1>4
  <1>6. /\ policies'[p] = NewRow(p)
        /\ \A r \in req[p].closed : policies'[r] = [policies[r] EXCEPT !.to = req[p].from]
        /\ \A r \in Requests \ {p} : r \notin req[p].closed => policies'[r] = policies[r]
    BY <1>4, <1>5 DEF Commit
  <1>7. \A r \in Requests : policies[r] # NULL => policies[r] \in Row
    BY DEF IInv, TypeOK
  <1>8. ASSUME NEW r \in Requests \ {p}
        PROVE  /\ policies'[r] = NULL <=> policies[r] = NULL
               /\ policies[r] # NULL =>
                    /\ policies'[r].building = policies[r].building
                    /\ policies'[r].role = policies[r].role
                    /\ policies'[r].max = policies[r].max
                    /\ policies'[r].version = policies[r].version
                    /\ policies'[r].from = policies[r].from
    <2>1. CASE r \notin req[p].closed
      BY <1>6, <2>1
    <2>2. CASE r \in req[p].closed
      <3>1. policies[r] \in Row /\ policies[r] # NULL
        BY <1>4, <1>7, <2>2
      <3>2. req[p].from \in Times
        BY <1>2 DEF Request
      <3>3. policies'[r] = [policies[r] EXCEPT !.to = req[p].from]
        BY <1>6, <2>2
      <3>4. policies'[r] \in Row
        BY <3>1, <3>2, <3>3 DEF Row
      <3>5. QED
        BY <3>1, <3>3, <3>4, NullIsNoRow DEF Row
    <2>3. QED
      BY <2>1, <2>2
  <1>9. QED
    BY <1>1, <1>3, <1>4, <1>5, <1>6, <1>8

LEMMA CommitIInv ==
  ASSUME IInv, NEW p \in Requests, Commit(p)
  PROVE  IInv'
  <1> DEFINE own == NewRow(p)
             Line(b, role) == {r \in Requests : /\ policies'[r] # NULL
                                                /\ policies'[r].building = b
                                                /\ policies'[r].role = role}
  <1>0. /\ TypeOK /\ Succeeded /\ Fresh /\ Found /\ Held /\ Drained /\ Numbered
        /\ Inserted /\ VersionsConsecutive
    BY DEF IInv
  <1>1. /\ policies[p] = NULL
        /\ policies'[p] = own
        /\ own \in Row
        /\ p \notin req[p].closed
        /\ \A r \in req[p].closed : /\ policies[r] # NULL
                                    /\ policies'[r] = [policies[r] EXCEPT !.to = req[p].from]
        /\ \A r \in Requests \ {p} : r \notin req[p].closed => policies'[r] = policies[r]
    BY CommitEffect
  <1>2. \A r \in Requests \ {p} :
          /\ policies'[r] = NULL <=> policies[r] = NULL
          /\ policies[r] # NULL =>
               /\ policies'[r].building = policies[r].building
               /\ policies'[r].role = policies[r].role
               /\ policies'[r].version = policies[r].version
               /\ policies'[r].from = policies[r].from
    BY CommitEffect
  <1>3. req[p] \in Request /\ req[p].pc = "commit"
    BY <1>0 DEF TypeOK, Commit
  <1>4. /\ own.building = req[p].building
        /\ own.role = req[p].role
        /\ own.version = req[p].version
        /\ own.from = req[p].from
        /\ own.to = NULL
        /\ own # NULL
    BY <1>1, NullIsNoRow DEF NewRow
  <1>5. /\ req' \in [Requests -> Request]
        /\ req'[p].pc = "done"
        /\ req'[p].todo = req[p].todo /\ req'[p].closed = {}
        /\ \A q \in Requests \ {p} : req'[q] = req[q]
    BY <1>0, <1>3 DEF Commit, TypeOK, Request
  <1>6. req[p].todo = {}
    BY <1>0, <1>3 DEF Drained
  <1>7. ASSUME NEW b \in Buildings, NEW role \in StaffRoles
        PROVE  /\ \A r \in Requests \ {p} : r \in Line(b, role) <=> r \in History(b, role)
               /\ p \in Line(b, role) <=> own.building = b /\ own.role = role
               /\ p \notin History(b, role)
    BY <1>1, <1>2, <1>4 DEF History
  <1>8. \A r \in Requests : policies[r] # NULL =>
          policies[r].building \in Buildings /\ policies[r].role \in StaffRoles
    BY <1>0 DEF TypeOK, Row
  <1>9. \A q \in Requests : req[q].building \in Buildings /\ req[q].role \in StaffRoles
    BY <1>0 DEF TypeOK, Request
  <1>10. TypeOK'
    <2>1. ASSUME NEW r \in req[p].closed PROVE policies'[r] \in Row
      <3>1. policies[r] \in Row
        BY <1>0, <1>1, <1>3 DEF TypeOK, Request
      <3>2. req[p].from \in Times
        BY <1>3 DEF Request
      <3>3. QED
        BY <1>1, <3>1, <3>2 DEF Row
    <2>2. \A r \in Requests : policies'[r] \in Row \cup {NULL}
      BY <1>0, <1>1, <2>1 DEF TypeOK
    <2>3. QED
      BY <1>5, <2>2 DEF TypeOK, Commit
  <1>11. Succeeded'
    <2> SUFFICES ASSUME NEW r \in Requests, policies'[r] # NULL, policies'[r].to # NULL
                 PROVE  \E q \in Line(policies'[r].building, policies'[r].role) :
                          /\ policies'[q].from = policies'[r].to
                          /\ policies'[q].version > policies'[r].version
                          /\ policies'[r].from < policies'[r].to
      BY DEF Succeeded, History
    <2>1. r # p
      BY <1>1, <1>4
    <2>2. CASE r \in req[p].closed
      <3>1. policies'[r].to = req[p].from
        BY <1>0, <1>1, <1>3, <2>2 DEF TypeOK, Row, Request
      <3>2. /\ policies[r].building = req[p].building
            /\ policies[r].role = req[p].role
            /\ policies[r].from < req[p].from
        BY <1>0, <2>2 DEF Found, History
      <3>3. policies[r].version < req[p].version
        BY <1>0, <1>3, <2>2 DEF Numbered
      <3>4. p \in Line(policies'[r].building, policies'[r].role)
        BY <1>1, <1>2, <1>4, <2>1, <3>2 DEF History
      <3>5. /\ policies'[p].from = policies'[r].to
            /\ policies'[p].version > policies'[r].version
            /\ policies'[r].from < policies'[r].to
        BY <1>0, <1>1, <1>2, <1>3, <1>4, <2>1, <3>1, <3>2, <3>3 DEF TypeOK, Row, Request
      <3>6. QED
        BY <3>4, <3>5
    <2>3. CASE r \notin req[p].closed
      <3>1. policies'[r] = policies[r]
        BY <1>1, <2>1, <2>3
      <3>2. PICK q \in History(policies[r].building, policies[r].role) :
              /\ policies[q].from = policies[r].to
              /\ policies[q].version > policies[r].version
              /\ policies[r].from < policies[r].to
        BY <1>0, <3>1 DEF Succeeded
      <3>3. q \in Requests \ {p}
        BY <1>1, <3>2 DEF History
      <3>4. QED
        BY <1>2, <3>1, <3>2, <3>3 DEF History
    <2>4. QED
      BY <2>2, <2>3
  <1>12. Fresh'
    BY <1>0, <1>2, <1>5 DEF Fresh
  <1>13. Found'
    <2> SUFFICES ASSUME NEW q \in Requests, NEW r \in req'[q].todo \cup req'[q].closed
                 PROVE  /\ InTransaction(q)'
                        /\ r \in Line(req'[q].building, req'[q].role)
                        /\ policies'[r].from < req'[q].from
      BY DEF Found, History
    <2>1. q # p /\ req'[q] = req[q]
      BY <1>5, <1>6
    <2>2. /\ InTransaction(q)
          /\ r \in History(req[q].building, req[q].role)
          /\ policies[r].from < req[q].from
      BY <1>0, <2>1 DEF Found
    <2>3. r \in Requests \ {p}
      BY <1>1, <2>2 DEF History
    <2>4. QED
      BY <1>2, <2>1, <2>2, <2>3 DEF History, InTransaction
  <1>14. Held'
    <2> SUFFICES ASSUME NEW q \in Requests, NEW r \in req'[q].closed
                 PROVE  /\ policies'[r].to = NULL
                        /\ \A s \in Requests \ {q} : r \notin req'[s].closed
      BY DEF Held
    <2>1. q # p /\ req'[q] = req[q]
      BY <1>5
    <2>2. /\ r \in Requests /\ r # p
          /\ policies[r].to = NULL
          /\ \A s \in Requests \ {q} : r \notin req[s].closed
      BY <1>0, <1>1, <2>1 DEF Held, Found, History
    <2>3. QED
      BY <1>1, <1>5, <2>1, <2>2
  <1>15. Numbered'
    <2> SUFFICES ASSUME NEW q \in Requests, req'[q].pc \in {"insert", "commit"}
                 PROVE  /\ req'[q].version > 0
                        /\ \/ req'[q].version = 1
                           \/ \E s \in Line(req'[q].building, req'[q].role) :
                                policies'[s].version = req'[q].version - 1
                        /\ \A r \in req'[q].closed : policies'[r].version < req'[q].version
      BY DEF Numbered, History
    <2>1. q # p /\ req'[q] = req[q]
      BY <1>5
    <2>2. /\ req[q].version > 0
          /\ \/ req[q].version = 1
             \/ \E s \in History(req[q].building, req[q].role) :
                  policies[s].version = req[q].version - 1
          /\ \A r \in req[q].closed : policies[r].version < req[q].version
      BY <1>0, <2>1 DEF Numbered
    <2>3. \A s \in History(req[q].building, req[q].role) :
            /\ s \in Requests \ {p}
            /\ s \in Line(req[q].building, req[q].role)
            /\ policies'[s].version = policies[s].version
      BY <1>1, <1>2 DEF History
    <2>4. \A r \in req[q].closed : r \in Requests \ {p} /\ policies[r] # NULL
      BY <1>0, <1>1, <2>1 DEF Found, History
    <2>5. QED
      BY <1>2, <2>1, <2>2, <2>3, <2>4
  <1>16. Inserted'
    <2> SUFFICES ASSUME NEW q \in Requests, req'[q].pc = "commit"
                 PROVE  InRange(req'[q].max) /\ ~KeyTaken(q)' /\ ~KeyHeld(q)'
      BY DEF Inserted
    <2>1. q # p /\ req'[q] = req[q]
      BY <1>5
    <2>2. InRange(req[q].max) /\ ~KeyTaken(q) /\ ~KeyHeld(q)
      BY <1>0, <2>1 DEF Inserted
    <2>3. ~SameKey(q, p)
      BY <1>3, <2>1, <2>2 DEF KeyHeld
    <2>4. ~KeyTaken(q)'
      <3> SUFFICES ASSUME NEW s \in Line(req[q].building, req[q].role),
                          policies'[s].version = req[q].version
                   PROVE  FALSE
        BY <2>1 DEF KeyTaken, History
      <3>1. CASE s = p
        BY <1>1, <1>4, <2>3, <3>1 DEF History, SameKey
      <3>2. CASE s # p
        BY <1>2, <2>2, <3>2 DEF History, KeyTaken
      <3>3. QED
        BY <3>1, <3>2
    <2>5. ~KeyHeld(q)'
      BY <1>5, <2>1, <2>2 DEF KeyHeld, SameKey
    <2>6. QED
      BY <2>1, <2>2, <2>4, <2>5
  <1>17. VersionsConsecutive'
    <2> SUFFICES ASSUME NEW b \in Buildings, NEW role \in StaffRoles,
                        NEW r \in Line(b, role)
                 PROVE  /\ policies'[r].version = 1
                             \/ \E q \in Line(b, role) :
                                  policies'[q].version = policies'[r].version - 1
                        /\ \A q \in Line(b, role) \ {r} :
                             policies'[q].version # policies'[r].version
      BY DEF VersionsConsecutive, History
    <2>1. \A q \in History(b, role) :
            /\ q \in Requests \ {p} /\ q \in Line(b, role)
            /\ policies'[q].version = policies[q].version
      BY <1>1, <1>2 DEF History
    <2>2. \A q \in Line(b, role) : q = p \/ q \in History(b, role)
      BY <1>7 DEF History
    <2>3. p \in Line(b, role) =>
            /\ req[p].version = 1
                 \/ \E q \in History(b, role) : policies[q].version = req[p].version - 1
            /\ \A q \in History(b, role) : policies[q].version # req[p].version
      BY <1>0, <1>3, <1>4, <1>7 DEF Numbered, Inserted, KeyTaken
    <2>4. policies'[p].version = req[p].version
      BY <1>1, <1>4
    <2>5. CASE r = p
      BY <2>1, <2>2, <2>3, <2>4, <2>5
    <2>6. CASE r # p
      <3>1. r \in History(b, role)
        BY <2>2, <2>6
      <3>2. /\ policies[r].version = 1
                 \/ \E q \in History(b, role) : policies[q].version = policies[r].version - 1
            /\ \A q \in History(b, role) \ {r} : policies[q].version # policies[r].version
        BY <1>0, <3>1 DEF VersionsConsecutive
      <3>3. QED
        BY <2>1, <2>2, <2>3, <2>4, <2>6, <3>1, <3>2
    <2>7. QED
      BY <2>5, <2>6
  <1>18. Drained'
    BY <1>0, <1>5 DEF Drained
  <1>19. QED
    BY <1>10, <1>11, <1>12, <1>13, <1>14, <1>15, <1>16, <1>17, <1>18 DEF IInv
--------------------------------------------------------------------------------
LEMMA NextIInv == IInv /\ [Next]_vars => IInv'
  <1> SUFFICES ASSUME IInv, [Next]_vars
               PROVE  IInv'
    OBVIOUS
  <1>1. CASE UNCHANGED vars
    BY <1>1 DEF vars, IInv, TypeOK, Succeeded, Fresh, Found, Held, Drained, Numbered,
                Inserted, VersionsConsecutive, History, InTransaction, KeyTaken, KeyHeld,
                SameKey
  <1>2. ASSUME NEW p \in Requests, Step(p) PROVE IInv'
    <2>1. CASE \E b \in Buildings, role \in StaffRoles, max \in Percents, t \in Times :
                 StartCreate(p, b, role, max, t)
      BY <2>1, StartCreateIInv
    <2>2. CASE \E r \in Requests : CloseRow(p, r)
      BY <2>2, CloseRowIInv
    <2>3. CASE NumberRow(p)
      BY <2>3, NumberRowIInv
    <2>4. CASE InsertRow(p)
      BY <2>4, InsertRowIInv
    <2>5. CASE Commit(p)
      BY <2>5, CommitIInv
    <2>6. CASE Rollback(p)
      BY <2>6, RollbackIInv
    <2>7. QED
      BY <1>2, <2>1, <2>2, <2>3, <2>4, <2>5, <2>6 DEF Step
  <1>3. QED
    BY <1>1, <1>2 DEF Next

LEMMA Invariance == Spec => []IInv
  BY InitIInv, NextIInv, PTL DEF Spec

\* The tables keep their types: a committed percentage is within the range of
\* its column whatever the requests ask for.
THEOREM TypeCorrect == Spec => []TypeOK
  <1>1. IInv => TypeOK
    BY DEF IInv
  <1>2. QED
    BY <1>1, Invariance, PTL

\* Whatever the interleaving of any number of creations, and in whatever order
\* their starts come, the policy read for an instant is the latest started.
THEOREM LatestIsInForce == Spec => []LatestInForce
  <1>1. ASSUME IInv PROVE LatestInForce
    <2> SUFFICES ASSUME NEW b \in Buildings, NEW role \in StaffRoles, NEW t \in Times,
                        NEW p \in Started(b, role, t),
                        \A q \in Started(b, role, t) \ {p} : Precedes(p, q),
                        p \notin Candidates(b, role, t)
                 PROVE  FALSE
      BY DEF LatestInForce
    <2>1. /\ p \in History(b, role) /\ policies[p].from <= t
          /\ policies[p] \in Row /\ policies[p] # NULL
          /\ policies[p].building = b /\ policies[p].role = role
      BY <1>1 DEF Started, History, IInv, TypeOK
    <2>2. policies[p].to # NULL /\ ~(policies[p].to > t)
      BY <2>1 DEF Candidates
    <2>3. PICK q \in History(b, role) :
            /\ policies[q].from = policies[p].to
            /\ policies[p].from < policies[p].to
      BY <1>1, <2>1, <2>2 DEF IInv, Succeeded, History
    <2>4. policies[p].to \in Int /\ policies[p].from \in Int /\ t \in Int
      BY <2>1, <2>2, TimesAreNumbers DEF Row
    <2>5. q \in Started(b, role, t) \ {p}
      BY <2>2, <2>3, <2>4 DEF Started
    <2>6. ~Precedes(p, q)
      BY <2>3, <2>4 DEF Precedes
    <2>7. QED
      BY <2>5, <2>6
  <1>2. QED
    BY <1>1, Invariance, PTL

\* Any number of creations number the policies of a line 1, 2, ... in the order
\* of their commits.
THEOREM VersionsAreConsecutive == Spec => []VersionsConsecutive
  <1>1. IInv => VersionsConsecutive
    BY DEF IInv
  <1>2. QED
    BY <1>1, Invariance, PTL

\* Only the commit of a later version ends a committed policy, once.
THEOREM EndedByNewer == Spec => ClosedByNewer
  <1>1. ASSUME IInv, Next PROVE EndsOnce
    <2> SUFFICES ASSUME NEW r \in Requests, policies[r] # NULL, policies'[r] # policies[r]
                 PROVE  \E p \in Requests :
                          /\ policies[p] = NULL /\ policies'[p] # NULL
                          /\ policies'[p].building = policies[r].building
                          /\ policies'[p].role = policies[r].role
                          /\ policies'[p].version > policies[r].version
                          /\ policies[r].to = NULL
                          /\ policies'[r] = [policies[r] EXCEPT !.to = policies'[p].from]
      BY DEF EndsOnce
    <2>1. PICK p \in Requests : Commit(p)
      BY <1>1 DEF Next, Step, StartCreate, CloseRow, NumberRow, InsertRow, Rollback
    <2>2. /\ policies[p] = NULL
          /\ policies'[p] = NewRow(p)
          /\ NewRow(p) \in Row
          /\ r \in req[p].closed
          /\ policies'[r] = [policies[r] EXCEPT !.to = req[p].from]
      BY <1>1, <2>1, CommitEffect
    <2>3. /\ policies[r].to = NULL
          /\ policies[r].building = req[p].building
          /\ policies[r].role = req[p].role
          /\ policies[r].version < req[p].version
      BY <1>1, <2>1, <2>2 DEF IInv, Held, Found, Numbered, History, Commit
    <2>4. /\ NewRow(p).building = req[p].building /\ NewRow(p).role = req[p].role
          /\ NewRow(p).version = req[p].version /\ NewRow(p).from = req[p].from
      BY DEF NewRow
    <2>5. policies[r].version \in Nat /\ req[p].version \in Nat
      BY <1>1, <2>2, <2>4 DEF IInv, TypeOK, Row
    <2>6. QED
      BY <2>2, <2>3, <2>4, <2>5, NullIsNoRow
  <1>2. ASSUME IInv, [Next]_vars PROVE [EndsOnce]_vars
    BY <1>1, <1>2
  <1>3. QED
    BY <1>2, Invariance, PTL DEF Spec, ClosedByNewer
================================================================================
