----------------------------- MODULE Categories -----------------------------
(***************************************************************************)
(* The category tree of one user (internal/category).  A request to create *)
(* or move a category runs its checks - no cycle, a parent of the same     *)
(* type, a parent above the third level - each in a statement of its own,  *)
(* and then writes in another: requests interleave between them, and what  *)
(* is left is what the foreign key (user, parent, type) refuses.  Names,   *)
(* icons and positions are left out.                                       *)
(***************************************************************************)
EXTENDS Integers, FiniteSets

CONSTANTS Ids,        \* categories
          Requests,   \* requests that may run at once
          Absent,     \* the id is free
          None        \* no parent

Types == {"income", "expense"}

(* What the constants are expected to be.                                  *)
CategoriesConstants ==
  /\ Absent \notin [type : Types, parent : Ids \cup {None}]
  /\ None \notin Ids /\ IsFiniteSet(Ids)

VARIABLES
  tree,      \* the rows of categories
  request,   \* where each request is
  overlap    \* two moves have been under way at once

catVars == <<tree, request, overlap>>

Row     == [type : Types, parent : Ids \cup {None}]
Request == [step : {"idle", "cycle", "parent", "depth", "write"}, op : {"create", "update"},
            id : Ids \cup {None}, row : Row]
NoRequest == [step |-> "idle", op |-> "create", id |-> None,
              row |-> [type |-> "income", parent |-> None]]

TypeOK ==
  /\ tree \in [Ids -> Row \cup {Absent}]
  /\ request \in [Requests -> Request]
  /\ overlap \in BOOLEAN

Init ==
  /\ tree = [c \in Ids |-> Absent]
  /\ request = [r \in Requests |-> NoRequest]
  /\ overlap = FALSE
-----------------------------------------------------------------------------
Live == {c \in Ids : tree[c] # Absent}

Children(c) == {d \in Live : tree[d].parent = c}

(* The rows of the recursive query from c upwards, c included.             *)
Line(c) ==
  LET up[n \in 0 .. Cardinality(Ids)] ==
        IF n = 0 THEN {c} \cap Live
        ELSE up[n - 1] \cup ({tree[d].parent : d \in up[n - 1]} \ {None})
  IN  up[Cardinality(Ids)]

(* UNION ALL never runs out of rows.                                       *)
Endless(c) == Line(c) # {} /\ \A d \in Line(c) : tree[d].parent # None

Go(r, s) == request' = [request EXCEPT ![r].step = s] /\ UNCHANGED <<tree, overlap>>

Refuse(r) == request' = [request EXCEPT ![r] = NoRequest] /\ UNCHANGED <<tree, overlap>>

(* Ids are fresh: no request names the category another one creates.       *)
Fresh == Ids \ (Live \cup {request[r].id : r \in Requests} \cup {request[r].row.parent : r \in Requests})

IsMove(q) == q.step # "idle" /\ q.op = "update" /\ q.row.parent # None
-----------------------------------------------------------------------------
BeginCreate(r, row) ==
  /\ request[r] = NoRequest
  /\ request' = [request EXCEPT ![r] = [step |-> "parent", op |-> "create", id |-> None, row |-> row]]
  /\ UNCHANGED <<tree, overlap>>

BeginUpdate(r, c, row) ==
  /\ request[r] = NoRequest
  /\ request' = [request EXCEPT ![r] = [step |-> "cycle", op |-> "update", id |-> c, row |-> row]]
  /\ overlap' = (overlap \/ (row.parent # None /\ \E s \in Requests : IsMove(request[s])))
  /\ UNCHANGED tree

(* A faulty variant: only the category itself is refused.                  *)
CheckCycleSelf(r) ==
  /\ request[r].step = "cycle"
  /\ IF request[r].row.parent = request[r].id THEN Refuse(r) ELSE Go(r, "parent")

(* EXISTS stops at the first match; without one the query must end.        *)
CheckCycle(r) ==
  /\ request[r].step = "cycle"
  /\ LET c == request[r].id
         p == request[r].row.parent
     IN  \/ c \notin Line(p) \cup {p} /\ ~Endless(p) /\ Go(r, "parent")
         \/ c \in Line(p) \cup {p} /\ Refuse(r)

CheckParent(r) ==
  /\ request[r].step = "parent"
  /\ LET row == request[r].row IN
       IF row.parent = None \/ (row.parent \in Live /\ tree[row.parent].type = row.type)
       THEN Go(r, "depth") ELSE Refuse(r)

(* A parent that is gone has no depth to scan.                             *)
CheckDepth(r) ==
  /\ request[r].step = "depth"
  /\ LET p == request[r].row.parent IN
       /\ ~Endless(p)
       /\ IF p = None \/ Cardinality(Line(p)) \in 1 .. 2 THEN Go(r, "write") ELSE Refuse(r)

(* categories_user_parent_type_fk, from the row and from its children.     *)
KeepsForeignKey(c, row) ==
  /\ row.parent # None => row.parent \in Live /\ tree[row.parent].type = row.type
  /\ tree[c] # Absent => (tree[c].type = row.type \/ Children(c) = {})

Write(r) ==
  /\ request[r].step = "write"
  /\ LET q == request[r] IN
       \/ \E c \in IF q.op = "create" THEN Fresh ELSE {q.id} \cap Live :
            /\ KeepsForeignKey(c, q.row)
            /\ tree' = [tree EXCEPT ![c] = q.row]
            /\ request' = [request EXCEPT ![r] = NoRequest]
            /\ UNCHANGED overlap
       \/ /\ q.op = "update" /\ (q.id \notin Live \/ ~KeepsForeignKey(q.id, q.row))
          /\ Refuse(r)

(* A call fails, or the client of an endless query goes away.              *)
GiveUp(r) == request[r].step # "idle" /\ Refuse(r)

(* RESTRICT keeps a category with children.                                *)
Delete(c) ==
  /\ c \in Live
  /\ Children(c) = {}
  /\ tree' = [tree EXCEPT ![c] = Absent]
  /\ UNCHANGED <<request, overlap>>

Next ==
  \/ \E r \in Requests :
       \/ \E t \in Types, p \in Live \cup {None} :
            LET row == [type |-> t, parent |-> p] IN
              BeginCreate(r, row) \/ \E c \in Live : BeginUpdate(r, c, row)
       \/ CheckCycle(r) \/ CheckParent(r) \/ CheckDepth(r) \/ Write(r) \/ GiveUp(r)
  \/ \E c \in Ids : Delete(c)

Spec == Init /\ [][Next]_catVars
-----------------------------------------------------------------------------
(* As long as no two moves were under way at once, no category is below    *)
(* itself, however creations, deletions and changes of type interleave     *)
(* with a move between its checks and its write.  (Two moves can: a goes   *)
(* below b while b goes below a; every later check above them then runs    *)
(* an endless query.)                                                      *)
ForestAlone == overlap \/ \A c \in Live : ~Endless(c)

(* The inductive invariant: parents are there, no set of categories has    *)
(* all its parents in itself, and until two moves overlap, a move that has *)
(* passed its check still finds its category outside a set that holds the  *)
(* new parent with everything above it.                                    *)
Closed(A) == \A d \in A : tree[d].parent \in A \cup {None}

NoLoop == \A S \in SUBSET Live : S # {} => \E d \in S : tree[d].parent \notin S

Apart(c, p) == p \in Live => \E A \in SUBSET (Live \ {c}) : p \in A /\ Closed(A)

OneMove == \A r, s \in Requests : IsMove(request[r]) /\ IsMove(request[s]) => r = s

StillApart ==
  \A r \in Requests : IsMove(request[r]) /\ request[r].step # "cycle" =>
    Apart(request[r].id, request[r].row.parent)

IInv ==
  /\ TypeOK
  /\ Closed(Live)
  /\ overlap \/ (NoLoop /\ OneMove /\ StillApart)
=============================================================================
