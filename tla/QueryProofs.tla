---------------------------- MODULE QueryProofs ----------------------------
(***************************************************************************)
(* The calls between the operators of a plan: a plan that the planner      *)
(* builds is a tree, and no operator is asked for rows after it has ended. *)
(***************************************************************************)
EXTENDS QueryMeaning, SequenceTheorems, TLAPS

(* Parents and children                                                    *)

LEMMA TreeSize ==
    ASSUME NEW p, IsTree(p)
    PROVE  Len(p) \in Nat /\ Len(p) > 0 /\ DOMAIN p = 1..Len(p)
<1>1. Len(p) \in Nat \ {0} /\ DOMAIN p = 1..Len(p)
  BY Zenon DEF IsTree
<1> QED BY <1>1

LEMMA TreeParent ==
    ASSUME NEW p, IsTree(p), NEW n \in 1..Len(p) - 1
    PROVE  \E m \in 1..Len(p) : IsKid(p, m, n) /\ \A k \in 1..Len(p) : IsKid(p, k, n) => k = m
BY Zenon DEF IsTree

(* A child comes before its parent, and has no other.                      *)
LEMMA KidHasParent ==
    ASSUME IsTree(plan), NEW m \in Nodes, NEW n, IsKid(plan, m, n)
    PROVE  n \in Nodes /\ n < m /\ n # Len(plan) /\ Parent(n) = m
<1>1. Len(plan) \in Nat /\ m \in 1..Len(plan)
  BY TreeSize DEF Nodes
<1>2. /\ plan[m].op # "scan" => m > 1
      /\ plan[m].left = 0 \/ plan[m].left \in 1..m - 2
  BY <1>1 DEF IsTree
<1>3. n \in 1..m - 1
  BY <1>1, <1>2 DEF IsKid, Child
<1>4. PICK k \in 1..Len(plan) : \A j \in 1..Len(plan) : IsKid(plan, j, n) => j = k
  <2>1. n \in 1..Len(plan) - 1
    BY <1>1, <1>3
  <2> QED BY <2>1, TreeParent
<1>5. n \in Nodes /\ n < m /\ n # Len(plan)
  BY <1>1, <1>3 DEF Nodes
<1>6. \A j \in Nodes : ((plan[j].op # "scan" /\ Child(j) = n) \/ plan[j].left = n) <=> IsKid(plan, j, n)
  BY <1>3 DEF IsKid
<1>7. Parent(n) = CHOOSE j \in Nodes : (plan[j].op # "scan" /\ Child(j) = n) \/ plan[j].left = n
  BY <1>5 DEF Parent
<1>8. \A j \in Nodes : ((plan[j].op # "scan" /\ Child(j) = n) \/ plan[j].left = n) => j = m
  BY <1>4, <1>6 DEF Nodes
<1>9. Parent(n) = m
  BY <1>6, <1>7, <1>8
<1> QED BY <1>5, <1>9

(* Every node but the root is a child.                                     *)
LEMMA ParentHasKid ==
    ASSUME IsTree(plan), NEW n \in Nodes, n # Len(plan)
    PROVE  Parent(n) \in Nodes /\ IsKid(plan, Parent(n), n) /\ n < Parent(n)
<1>1. Len(plan) \in Nat /\ n \in 1..Len(plan) - 1
  BY TreeSize DEF Nodes
<1>2. PICK m \in 1..Len(plan) : IsKid(plan, m, n)
  BY <1>1, TreeParent
<1>3. m \in Nodes
  BY <1>2 DEF Nodes
<1> QED BY <1>2, <1>3, KidHasParent

(* The children of a node.                                                 *)
LEMMA KidsOf ==
    ASSUME IsTree(plan), NEW p \in Nodes
    PROVE  /\ p \in Int /\ p >= 1
           /\ plan[p].op \in Operators
           /\ plan[p].op # "scan" => IsKid(plan, p, Child(p)) /\ Child(p) \in Nodes
           /\ plan[p].op \in Binary => IsKid(plan, p, plan[p].left) /\ plan[p].left < Child(p)
           /\ plan[p].op \notin Binary => plan[p].left = 0
           /\ \A n : IsKid(plan, p, n) => n > 0 /\ plan[p].op # "scan" /\ n \in {Child(p), plan[p].left}
<1>1. Len(plan) \in Nat /\ p \in 1..Len(plan)
  BY TreeSize DEF Nodes
<1>2. /\ plan[p].op \in Operators
      /\ plan[p].op \in Binary => plan[p].left \in 1..p - 2
      /\ plan[p].op \notin Binary => plan[p].left = 0
      /\ plan[p].op # "scan" => p > 1
  BY <1>1 DEF IsTree
<1> QED BY <1>1, <1>2 DEF IsKid, Child, Nodes, Binary

(* A step that keeps the plan keeps its parents.                           *)
LEMMA SameParents ==
    ASSUME plan' = plan, NEW n
    PROVE  Parent(n)' = Parent(n)
<1> DEFINE Par(q) == IF n = Len(q) THEN 0
                     ELSE CHOOSE p \in 1..Len(q) : (q[p].op # "scan" /\ Child(p) = n) \/ q[p].left = n
<1>1. Parent(n) = Par(plan)
  BY DEF Parent, Nodes, Child
<1>2. Parent(n)' = Par(plan')
  BY DEF Parent, Nodes, Child
<1> HIDE DEF Par
<1> QED BY <1>1, <1>2

-----------------------------------------------------------------------------
(* Calls                                                                   *)

(* What an operator knows of its own place among the calls.                *)
LEMMA CallFacts ==
    ASSUME NEW path \in SUBSET Nodes, CallsInv(path), at # 0
    PROVE  /\ at \in Nodes /\ at \in path /\ at \notin ended
           /\ mode = "give" => IsKid(plan, at, from)
           /\ 0 \notin Nodes /\ at \in Int
           /\ \A n : IsKid(plan, at, n) => n \notin path
<1>1. Len(plan) \in Nat /\ at \in 0..Len(plan) /\ IsTree(plan) /\ IsPath(path)
  BY TreeSize DEF CallsInv
<1>2. at \in Nodes /\ 0 \notin Nodes /\ at \in Int
  BY <1>1 DEF Nodes
<1>3. at \in path /\ at \notin ended /\ \A n \in path : at <= n
  BY <1>1 DEF IsPath
<1>4. mode = "give" => IsKid(plan, at, from)
  BY DEF CallsInv
<1>5. ASSUME NEW n, IsKid(plan, at, n)
      PROVE  n \notin path
  <2>1. n < at /\ n \in Nodes
    BY <1>1, <1>2, <1>5, KidHasParent
  <2>2. n \in Int
    BY <2>1, <1>1 DEF Nodes
  <2> QED BY <2>1, <2>2, <1>2, <1>3
<1> QED BY <1>2, <1>3, <1>4, <1>5

(* The operators on the path still are one, when one more is called.       *)
LEMMA AskPath ==
    ASSUME NEW path \in SUBSET Nodes, CallsInv(path), at # 0,
           NEW c, IsKid(plan, at, c), c \notin ended, Ask(c)
    PROVE  IsPath(path \cup {c})'
<1> DEFINE next == path \cup {c}
<1>1. plan' = plan /\ at' = c /\ ended' = ended
  BY DEF Ask
<1>2. IsTree(plan) /\ at \in Nodes /\ at \in path /\ at \in Int
  BY CallFacts DEF CallsInv
<1>3. c \in Nodes /\ c < at /\ c # Len(plan) /\ Parent(c) = at
  BY <1>2, KidHasParent
<1>4. Nodes \subseteq Int /\ 0 \notin Nodes
  BY <1>2, TreeSize DEF Nodes
<1>5. \A n \in path : /\ at <= n /\ n \notin ended
                      /\ n # Len(plan) => Parent(n) \in path
                      /\ \A m \in path : m < n => Parent(m) <= n
  BY DEF CallsInv, IsPath
<1>6. \A n : Parent(n)' = Parent(n)
  BY <1>1, SameParents
<1>7. ASSUME NEW n \in next
      PROVE  /\ c <= n /\ n \notin ended
             /\ n # Len(plan) => Parent(n) \in next
             /\ \A m \in next : m < n => Parent(m) <= n
  <2>1. CASE n = c
    <3>1. \A m \in next : ~ (m < c)
      BY <1>3, <1>4, <1>5, <1>2
    <3> QED BY <2>1, <3>1, <1>2, <1>3, <1>4
  <2>2. CASE n \in path
    <3>1. c <= n
      BY <2>2, <1>2, <1>3, <1>4, <1>5
    <3>2. \A m \in next : m < n => Parent(m) <= n
      BY <2>2, <1>3, <1>5
    <3> QED BY <2>2, <3>1, <3>2, <1>5
  <2> QED BY <2>1, <2>2
<1>8. c # 0 /\ c \in next
  BY <1>3, <1>4
<1> HIDE DEF next
<1>9. IsPath(next)'
  BY <1>1, <1>6, <1>7, <1>8 DEF IsPath
<1> QED BY <1>9 DEF next

(* They still are one when the last of them returns.                       *)
LEMMA GivePath ==
    ASSUME NEW path \in SUBSET Nodes, CallsInv(path), at # 0, NEW b, Give(b),
           NEW next, next = path \ {at}
    PROVE  IsPath(next)' /\ (at' = 0 <=> at = Len(plan)) /\ at' \in 0..Len(plan)
<1>1. plan' = plan /\ at' = Parent(at) /\ ended' \subseteq ended \cup {at}
  BY DEF Give
<1>2. IsTree(plan) /\ at \in Nodes /\ at \in path /\ at \in Int
  BY CallFacts DEF CallsInv
<1>3. Nodes \subseteq Int /\ 0 \notin Nodes /\ Nodes = 1..Len(plan) /\ Len(plan) \in Nat
  BY <1>2, TreeSize DEF Nodes
<1>4. \A n \in path : /\ at <= n /\ n \notin ended
                      /\ n # Len(plan) => Parent(n) \in path
                      /\ \A m \in path : m < n => Parent(m) <= n
  BY DEF CallsInv, IsPath
<1>5. \A n : Parent(n)' = Parent(n)
  BY <1>1, SameParents
<1>6. \A n \in next : n \in path /\ n \in Nodes /\ at < n
  BY <1>2, <1>3, <1>4
<1>7. ASSUME NEW n \in next
      PROVE  /\ Parent(at) <= n /\ n \notin ended'
             /\ n # Len(plan) => Parent(n) \in next
             /\ \A m \in next : m < n => Parent(m) <= n
  <2>1. Parent(at) <= n /\ n \notin ended'
    BY <1>1, <1>2, <1>4, <1>6
  <2>2. ASSUME n # Len(plan)
        PROVE  Parent(n) \in next
    <3>1. n < Parent(n) /\ Parent(n) \in Nodes
      BY <2>2, <1>2, <1>6, ParentHasKid
    <3>2. Parent(n) # at
      BY <3>1, <1>2, <1>3, <1>6
    <3> QED BY <3>2, <2>2, <1>4, <1>6
  <2>3. \A m \in next : m < n => Parent(m) <= n
    BY <1>4, <1>6
  <2> QED BY <2>1, <2>2, <2>3
<1>8. CASE at = Len(plan)
  <2>1. Parent(at) = 0
    BY <1>8 DEF Parent
  <2>2. \A n \in next : FALSE
    BY <1>3, <1>6, <1>8
  <2>3. at' = 0 /\ next = {}
    BY <2>1, <2>2, <1>1
  <2>4. IsPath(next)'
    BY <2>3 DEF IsPath
  <2> QED BY <2>3, <2>4, <1>3, <1>8
<1>9. CASE at # Len(plan)
  <2>1. Parent(at) \in Nodes /\ Parent(at) \in path /\ at < Parent(at)
    BY <1>2, <1>4, <1>9, ParentHasKid
  <2>2. Parent(at) # 0 /\ Parent(at) \in next
    BY <2>1, <1>2, <1>3
  <2>3. at' # 0 /\ at' \in next /\ at' \in 0..Len(plan)
    BY <2>1, <2>2, <1>1, <1>3
  <2>4. IsPath(next)'
    BY <2>3, <1>1, <1>5, <1>7 DEF IsPath
  <2> QED BY <2>3, <2>4, <1>9
<1> QED BY <1>8, <1>9

(* A child named by a node is one, or there is none.                       *)
LEMMA NamedKids ==
    ASSUME NEW path \in SUBSET Nodes, CallsInv(path), NEW n \in Nodes, plan[n].op # "scan"
    PROVE  /\ IsKid(plan, n, Child(n))
           /\ plan[n].left = 0 \/ IsKid(plan, n, plan[n].left)
           /\ 0 \notin path /\ 0 \notin ended /\ 0 \notin Nodes
<1>1. IsTree(plan) /\ ended \subseteq Nodes
  BY DEF CallsInv
<1>2. 0 \notin Nodes
  BY DEF Nodes
<1>3. /\ IsKid(plan, n, Child(n))
      /\ plan[n].op \in Binary => IsKid(plan, n, plan[n].left)
      /\ plan[n].op \notin Binary => plan[n].left = 0
  BY <1>1, KidsOf
<1> QED BY <1>1, <1>2, <1>3

(* A call changes nothing for the other operators.                         *)
LEMMA AskOthers ==
    ASSUME NEW path \in SUBSET Nodes, CallsInv(path), at # 0,
           NEW c, IsKid(plan, at, c), Ask(c),
           NEW n \in Nodes, n # at, st'[n] = st[n]
    PROVE  NodeInv(path \cup {c}, n)'
<1>1. /\ plan' = plan /\ ended' = ended /\ mode' = "ask"
      /\ NodeInv(path, n)
  BY DEF Ask, CallsInv
<1>2. IsTree(plan) /\ at \in Nodes /\ (mode = "give" => IsKid(plan, at, from))
  BY CallFacts DEF CallsInv
<1>3. ASSUME NEW k, IsKid(plan, n, k)
      PROVE  k # c /\ ~ Returned(k)
  BY <1>2, <1>3, KidHasParent DEF Returned
<1>4. \A k : ~ Returned(k)'
  BY <1>1 DEF Returned
<1>5. CASE plan[n].op = "scan"
  BY <1>1, <1>5 DEF NodeInv, Blocking
<1>6. CASE plan[n].op # "scan"
  <2>1. Child(n) # c /\ ~ Returned(Child(n))
    BY <1>3, <1>6, NamedKids
  <2>2. c \in Nodes
    BY <1>2, KidHasParent
  <2>3. plan[n].left = 0 => plan[n].left \notin path \cup {c} /\ plan[n].left \notin ended
    BY <1>6, <2>2, NamedKids
  <2>4. plan[n].left # 0 => plan[n].left # c /\ ~ Returned(plan[n].left)
    BY <1>3, <1>6, NamedKids
  <2>5. /\ Child(n) \in path \cup {c} <=> Child(n) \in path
        /\ plan[n].left \in path \cup {c} <=> plan[n].left \in path
    BY <2>1, <2>3, <2>4
  <2>6. plan[n].left \in ended => ~ Returned(plan[n].left)
    BY <2>3, <2>4
  <2>7. Child(n)' = Child(n)
    BY DEF Child
  <2>8. CASE plan[n].op \in {"filter", "project", "limit"}
    BY <1>1, <1>4, <2>1, <2>7, <2>8 DEF NodeInv, Blocking
  <2>9. CASE plan[n].op = "append"
    BY <1>1, <1>4, <2>1, <2>5, <2>6, <2>7, <2>9 DEF NodeInv, Blocking, InCall
  <2>10. CASE plan[n].op \in Blocking
    BY <1>1, <1>4, <2>1, <2>5, <2>6, <2>7, <2>10 DEF NodeInv, Blocking, InCall
  <2> QED BY <1>2, <1>6, <2>8, <2>9, <2>10, KidsOf DEF Operators
<1> QED BY <1>5, <1>6

(* next() of a child that has not ended is called.                         *)
LEMMA AskKeeps ==
    ASSUME NEW path \in SUBSET Nodes, CallsInv(path), at # 0,
           NEW c, IsKid(plan, at, c), c \notin ended, Ask(c),
           DOMAIN st' = Nodes, \A n \in Nodes \ {at} : st'[n] = st[n],
           NEW here, here = at, NodeInv(path \cup {c}, here)'
    PROVE  \E q \in SUBSET Nodes' : CallsInv(q)'
<1> DEFINE q == path \cup {c}
<1>1. plan' = plan /\ ended' = ended /\ mode' = "ask" /\ at' = c
  BY DEF Ask
<1>2. IsTree(plan) /\ at \in Nodes /\ ended \subseteq Nodes
  BY CallFacts DEF CallsInv
<1>3. c \in Nodes /\ Nodes' = Nodes /\ c # 0 /\ c \in 0..Len(plan)
  <2>1. c \in Nodes
    BY <1>2, KidHasParent
  <2>2. Nodes' = Nodes
    BY <1>1 DEF Nodes
  <2> QED BY <2>1, <2>2, <1>2, TreeSize DEF Nodes
<1>4. \A n \in Nodes : NodeInv(q, n)'
  <2>1. \A n \in Nodes : n # at => NodeInv(q, n)'
    BY AskOthers
  <2> QED BY <2>1
<1>5. IsPath(q)'
  BY AskPath
<1>6. IsTree(plan)'
  BY <1>1, <1>2
<1>7. q \in SUBSET Nodes'
  BY <1>3
<1> HIDE DEF q
<1>8. CallsInv(q)'
  BY <1>1, <1>2, <1>3, <1>4, <1>5, <1>6 DEF CallsInv
<1> QED BY <1>7, <1>8

(* A return changes something for the caller only.                         *)
LEMMA GiveOthers ==
    ASSUME NEW path \in SUBSET Nodes, CallsInv(path), at # 0, NEW b, Give(b),
           NEW next, next = path \ {at},
           NEW n \in Nodes, n # at, st'[n] = st[n]
    PROVE  NodeInv(next, n)'
<1>1. /\ plan' = plan /\ from' = at /\ mode' = "give"
      /\ ended \subseteq ended' /\ ended' \subseteq ended \cup {at}
      /\ NodeInv(path, n)
  BY DEF Give, CallsInv
<1>2. /\ IsTree(plan) /\ at \in Nodes /\ at \in path
      /\ (mode = "give" => IsKid(plan, at, from)) /\ 0 \notin Nodes
  BY CallFacts DEF CallsInv
<1>3. ASSUME NEW k, IsKid(plan, n, k)
      PROVE  ~ Returned(k)
  BY <1>2, <1>3, KidHasParent DEF Returned
<1>4. \A k : Returned(k)' <=> k = at
  BY <1>1 DEF Returned
<1>5. CASE plan[n].op = "scan"
  BY <1>1, <1>5 DEF NodeInv, Blocking
<1>6. CASE plan[n].op # "scan"
  <2>1. ~ Returned(Child(n))
    BY <1>3, <1>6, NamedKids
  <2>2. plan[n].left = 0 => plan[n].left \notin path /\ plan[n].left \notin ended'
    BY <1>6, <1>1, <1>2, NamedKids
  <2>3. plan[n].left # 0 => ~ Returned(plan[n].left)
    BY <1>3, <1>6, NamedKids
  <2>4. \A k : (k \in next \/ Returned(k)') <=> k \in path
    BY <1>2, <1>4
  <2>5. plan[n].left \in ended => ~ Returned(plan[n].left)
    BY <1>1, <2>2, <2>3
  <2>6. Child(n)' = Child(n)
    BY DEF Child
  <2>7. CASE plan[n].op \in {"filter", "project", "limit"}
    BY <1>1, <1>4, <2>1, <2>6, <2>7 DEF NodeInv, Blocking
  <2>8. CASE plan[n].op = "append"
    BY <1>1, <1>2, <1>4, <2>1, <2>4, <2>5, <2>6, <2>8 DEF NodeInv, Blocking, InCall
  <2>9. CASE plan[n].op \in Blocking
    <3>1. InCall(next, Child(n))' <=> Child(n) \in path
      BY <2>4, <2>6 DEF InCall
    <3>2. InCall(next, plan[n].left)' <=> plan[n].left \in path
      BY <1>1, <2>4 DEF InCall
    <3>3. at = plan[n].left => at \in path
      BY <1>2
    <3> QED BY <1>1, <1>2, <1>4, <2>1, <2>5, <2>6, <2>9, <3>1, <3>2 DEF NodeInv, Blocking, InCall
  <2> QED BY <1>2, <1>6, <2>7, <2>8, <2>9, KidsOf DEF Operators
<1> QED BY <1>5, <1>6

(* next() returns a batch.                                                 *)
LEMMA GiveKeeps ==
    ASSUME NEW path \in SUBSET Nodes, CallsInv(path), at # 0, NEW b, Give(b),
           DOMAIN st' = Nodes, \A n \in Nodes \ {at} : st'[n] = st[n],
           NEW here, here = at, NodeInv(path \ {here}, here)'
    PROVE  \E q \in SUBSET Nodes' : CallsInv(q)'
<1> DEFINE q == path \ {here}
<1>1. /\ plan' = plan /\ mode' = "give" /\ from' = at /\ batch' = b /\ at' = Parent(at)
      /\ ended' = IF b = << >> THEN ended \cup {at} ELSE ended
  BY DEF Give
<1>2. IsTree(plan) /\ at \in Nodes /\ ended \subseteq Nodes /\ at \notin ended
  BY CallFacts DEF CallsInv
<1>3. Nodes' = Nodes
  BY <1>1 DEF Nodes
<1>4. \A n \in Nodes : NodeInv(q, n)'
  <2>1. \A n \in Nodes : n # at => NodeInv(q, n)'
    BY GiveOthers
  <2> QED BY <2>1
<1>5. IsPath(q)' /\ (at' = 0 <=> at = Len(plan)) /\ at' \in 0..Len(plan)
  BY GivePath
<1>6. IsTree(plan)'
  BY <1>1, <1>2
<1>7. q \in SUBSET Nodes'
  BY <1>3
<1>8. at # Len(plan) => IsKid(plan, Parent(at), at)
  BY <1>2, ParentHasKid
<1>9. IF at' = 0 THEN from' = Len(plan') ELSE IsKid(plan', at', from')
  BY <1>1, <1>5, <1>8
<1>10. from' \in ended' <=> batch' = << >>
  BY <1>1, <1>2
<1>11. ended' \subseteq Nodes'
  BY <1>1, <1>2, <1>3
<1> HIDE DEF q
<1>12. CallsInv(q)'
  BY <1>1, <1>3, <1>4, <1>5, <1>6, <1>9, <1>10, <1>11 DEF CallsInv
<1> QED BY <1>7, <1>12

-----------------------------------------------------------------------------
(* The operators                                                           *)

LEMMA Local ==
    ASSUME NEW path \in SUBSET Nodes, CallsInv(path), at # 0, Here.op # "scan",
           mode = "ask" \/ batch # << >>
    PROVE  /\ mode = "ask" => \A k : ~ Returned(k)
           /\ \A k \in ended : ~ Returned(k)
           /\ \A k : IsKid(plan, at, k) => k \notin path /\ k \in Nodes /\ k # at
<1>1. /\ IsTree(plan) /\ at \in Nodes /\ \A n : IsKid(plan, at, n) => n \notin path
      /\ mode = "give" => (from \in ended <=> batch = << >>)
      /\ at \in Int
  BY CallFacts DEF CallsInv
<1>2. \A k : IsKid(plan, at, k) => k \in Nodes /\ k < at
  BY <1>1, KidHasParent
<1> QED BY <1>1, <1>2 DEF Returned

(* Filter, Project and Limit ask for another batch only while there may be *)
(* one.                                                                    *)
LEMMA StreamAsks ==
    ASSUME NEW path \in SUBSET Nodes, CallsInv(path), at # 0,
           Here.op \in {"filter", "project", "limit"}, mode = "ask" \/ batch # << >>,
           Ask(Child(at)), DOMAIN st' = Nodes, \A n \in Nodes \ {at} : st'[n] = st[n],
           NEW here, here = at, {"built", "leftDone"} \subseteq DOMAIN st'[here]
    PROVE  \E q \in SUBSET Nodes' : CallsInv(q)'
<1>1. PICK c : c = Child(at)
  OBVIOUS
<1>2. IsTree(plan) /\ at \in Nodes /\ at \notin ended /\ NodeInv(path, at)
      /\ (mode = "give" => IsKid(plan, at, from))
  BY CallFacts DEF CallsInv
<1>3. IsKid(plan, at, c) /\ plan[at].left = 0 /\ c > 0
  BY <1>1, <1>2, KidsOf DEF Here, Binary
<1>4. Here.op # "scan"
  OBVIOUS
<1>5. c \notin ended
  <2>1. c \in ended => Returned(c)
    BY <1>1, <1>2 DEF NodeInv, Here
  <2> QED BY <2>1, <1>4, Local
<1>6. Ask(c)
  BY <1>1
<1>7. plan' = plan /\ ended' = ended
  BY DEF Ask
<1>8. NodeInv(path \cup {c}, here)'
  BY <1>1, <1>5, <1>7 DEF NodeInv, Here, Blocking, Child
<1> QED BY <1>3, <1>5, <1>6, <1>8, AskKeeps

(* They end when their child has ended.                                    *)
LEMMA StreamGives ==
    ASSUME NEW path \in SUBSET Nodes, CallsInv(path), at # 0,
           Here.op \in {"filter", "project", "limit"},
           NEW b, Give(b), (mode = "give" /\ batch = << >>) => b = << >>,
           DOMAIN st' = Nodes, \A n \in Nodes \ {at} : st'[n] = st[n],
           NEW here, here = at, {"built", "leftDone"} \subseteq DOMAIN st'[here]
    PROVE  \E q \in SUBSET Nodes' : CallsInv(q)'
<1>1. plan' = plan /\ ended' = IF b = << >> THEN ended \cup {at} ELSE ended
  BY DEF Give
<1>2. /\ IsTree(plan) /\ at \in Nodes /\ at \notin ended /\ at \in Int /\ NodeInv(path, at)
      /\ mode \in {"ask", "give"}
      /\ mode = "give" => (from \in ended <=> batch = << >>)
  BY CallFacts DEF CallsInv
<1>3. Child(at) \in ended => b = << >>
  <2>1. Child(at) \in ended => Returned(Child(at))
    BY <1>2 DEF NodeInv, Here
  <2>2. Returned(Child(at)) => mode = "give" /\ from = Child(at)
    BY DEF Returned
  <2> QED BY <2>1, <2>2, <1>2
<1>4. Child(here) \in ended' => here \in ended'
  <2>1. Child(at) # at
    BY <1>2 DEF Child
  <2> QED BY <2>1, <1>1, <1>3
<1>5. NodeInv(path \ {here}, here)'
  BY <1>1, <1>4 DEF NodeInv, Here, Blocking, Child
<1> QED BY <1>5, GiveKeeps

(* Append asks the side it has not seen the end of.                        *)
LEMMA AppendAsks ==
    ASSUME NEW path \in SUBSET Nodes, CallsInv(path), at # 0, Here.op = "append",
           NEW c, Ask(c), DOMAIN st' = Nodes, \A n \in Nodes \ {at} : st'[n] = st[n],
           NEW here, here = at, {"built", "leftDone"} \subseteq DOMAIN st'[here],
           \/ mode = "ask" /\ ~ st[at].leftDone /\ c = Here.left /\ ~ st'[here].leftDone
           \/ mode = "ask" /\ st[at].leftDone /\ c = Child(at) /\ st'[here].leftDone
           \/ mode = "give" /\ from = Here.left /\ c = Child(at) /\ st'[here].leftDone
    PROVE  \E q \in SUBSET Nodes' : CallsInv(q)'
<1>1. /\ IsTree(plan) /\ at \in Nodes /\ at \notin ended /\ NodeInv(path, at)
      /\ at \in Int
  BY CallFacts DEF CallsInv
<1>2. /\ IsKid(plan, at, Here.left) /\ IsKid(plan, at, Child(at)) /\ Here.left < Child(at)
      /\ Child(at) \in Nodes
  BY <1>1, KidsOf DEF Here, Binary
<1>3. /\ Here.left \in ended => st[at].leftDone \/ Returned(Here.left)
      /\ Child(at) \in ended => st[at].leftDone /\ (at \in ended \/ Returned(Child(at)))
      /\ InCall(path, Here.left) => ~ st[at].leftDone
  BY <1>1 DEF NodeInv, Here
<1>4. plan' = plan /\ ended' = ended /\ mode' = "ask"
  BY DEF Ask
<1>5. \A k : ~ Returned(k)'
  BY <1>4 DEF Returned
<1>6. Here.left # Child(at)
  BY <1>1, <1>2 DEF Child
<1>7. Here.left \notin path /\ Child(at) \notin path
  BY <1>2, CallFacts
<1>8. c \notin ended /\ IsKid(plan, at, c)
  BY <1>1, <1>2, <1>3, <1>6 DEF Returned, InCall
<1>9. /\ Child(at) \in ended => FALSE
      /\ c = Here.left => Here.left \notin ended
  BY <1>1, <1>3, <1>6, <1>8 DEF Returned, InCall
<1>10. NodeInv(path \cup {c}, here)'
  <2>1. plan'[here] = Here /\ Child(here)' = Child(at)
    BY <1>4 DEF Here, Child
  <2>2. Here.left \in path \cup {c} <=> c = Here.left
    BY <1>7
  <2>3. Child(at) \in path \cup {c} <=> c = Child(at)
    BY <1>7
  <2>4. c = Here.left \/ c = Child(at)
    OBVIOUS
  <2>5. /\ c = Here.left => ~ st'[here].leftDone
        /\ c = Child(at) => st'[here].leftDone
    BY <1>6
  <2> QED BY <1>4, <1>5, <1>6, <1>9, <2>1, <2>2, <2>3, <2>4, <2>5 DEF NodeInv, Blocking, InCall
<1> QED BY <1>8, <1>10, AskKeeps

(* Append passes a batch on; the end of the right side is its own.         *)
LEMMA AppendGives ==
    ASSUME NEW path \in SUBSET Nodes, CallsInv(path), at # 0, Here.op = "append",
           mode = "give", from # Here.left \/ batch # << >>, Give(batch), st' = st
    PROVE  \E q \in SUBSET Nodes' : CallsInv(q)'
<1>1. /\ IsTree(plan) /\ at \in Nodes /\ at \notin ended /\ NodeInv(path, at)
      /\ at \in Int /\ IsKid(plan, at, from) /\ DOMAIN st = Nodes
      /\ from \in ended <=> batch = << >>
  BY CallFacts DEF CallsInv
<1>2. /\ IsKid(plan, at, Here.left) /\ IsKid(plan, at, Child(at)) /\ from \in {Child(at), Here.left}
  BY <1>1, KidsOf DEF Here, Binary
<1>3. /\ {"built", "leftDone"} \subseteq DOMAIN st[at]
      /\ Here.left \in ended => st[at].leftDone \/ Returned(Here.left)
      /\ Child(at) \in ended => st[at].leftDone /\ (at \in ended \/ Returned(Child(at)))
  BY <1>1 DEF NodeInv, Here
<1>4. PICK here : here = at
  OBVIOUS
<1>5. plan' = plan /\ ended' = (IF batch = << >> THEN ended \cup {at} ELSE ended) /\ from' = at
  BY DEF Give
<1>6. Here.left < at /\ Child(at) < at
  BY <1>1, <1>2, KidHasParent
<1>7. Here.left \notin path /\ Child(at) \notin path /\ Here.left # at /\ Child(at) # at
  BY <1>1, <1>2, <1>6, CallFacts
<1>8. PICK l, r : l = Here.left /\ r = Child(at)
  OBVIOUS
<1>9. /\ ~ InCall(path \ {here}, l)' /\ ~ InCall(path \ {here}, r)'
      /\ ~ Returned(l)' /\ ~ Returned(r)'
  BY <1>5, <1>7, <1>8 DEF InCall, Returned
<1>10. plan'[here].left = l /\ Child(here)' = r /\ plan'[here].op = "append"
  BY <1>4, <1>5, <1>8 DEF Here, Child
<1>11. l \in ended' => st'[here].leftDone
  <2>1. Returned(l) => l \notin ended
    BY <1>1, <1>8 DEF Returned
  <2> QED BY <2>1, <1>3, <1>4, <1>5, <1>7, <1>8
<1>12. r \in ended' => st'[here].leftDone /\ here \in ended'
  <2>1. Returned(r) /\ r \in ended => batch = << >>
    BY <1>1, <1>8 DEF Returned
  <2> QED BY <2>1, <1>1, <1>3, <1>4, <1>5, <1>7, <1>8
<1>13. NodeInv(path \ {here}, here)'
  BY <1>3, <1>4, <1>9, <1>10, <1>11, <1>12 DEF NodeInv, Blocking
<1> QED BY <1>1, <1>4, <1>13, GiveKeeps

(* A blocking operator asks for the rows of its left child up to their end,*)
(* then for those of the other one.                                        *)
LEMMA BlockingAsks ==
    ASSUME NEW path \in SUBSET Nodes, CallsInv(path), at # 0, Here.op \in Blocking,
           NEW c, Ask(c), DOMAIN st' = Nodes, \A n \in Nodes \ {at} : st'[n] = st[n],
           NEW here, here = at, {"built", "leftDone"} \subseteq DOMAIN st'[here],
           ~ st[at].built, ~ st'[here].built,
           \/ mode = "ask" /\ c = IF Here.op = "join" THEN Here.left ELSE Child(at)
           \/ mode = "give" /\ from = Here.left /\ c = IF batch = << >> THEN Child(at) ELSE Here.left
           \/ mode = "give" /\ from # Here.left /\ batch # << >> /\ c = Child(at)
    PROVE  \E q \in SUBSET Nodes' : CallsInv(q)'
<1>1. /\ IsTree(plan) /\ at \in Nodes /\ at \notin ended /\ NodeInv(path, at)
      /\ at \in Int
      /\ mode = "give" => IsKid(plan, at, from) /\ (from \in ended <=> batch = << >>)
  BY CallFacts DEF CallsInv
<1>2. /\ IsKid(plan, at, Child(at)) /\ Child(at) \in Nodes
      /\ Here.op = "join" => IsKid(plan, at, Here.left)
      /\ Here.op # "join" => Here.left = 0
      /\ Here.left # Child(at)
      /\ \A n : IsKid(plan, at, n) => n > 0 /\ n \in {Child(at), Here.left}
      /\ Here.left \notin path
  <2>1. Here.op # "scan" /\ Here.op # "append" /\ (Here.op = "join" <=> Here.op \in Binary)
    BY DEF Blocking, Binary
  <2>2. /\ IsKid(plan, at, Child(at)) /\ Child(at) \in Nodes
        /\ Here.op = "join" => IsKid(plan, at, Here.left) /\ Here.left < Child(at)
        /\ Here.op # "join" => Here.left = 0
        /\ \A n : IsKid(plan, at, n) => n > 0 /\ n \in {Child(at), Here.left}
    BY <1>1, <2>1, KidsOf DEF Here
  <2>3. 0 \notin Nodes /\ \A n : IsKid(plan, at, n) => n \notin path
    BY CallFacts
  <2>4. Child(at) \in Int
    BY <1>1 DEF Child
  <2> QED BY <2>2, <2>3, <2>4
<1>3. /\ Child(at) \in ended => Returned(Child(at))
      /\ Here.left \in ended => Returned(Here.left) \/ InCall(path, Child(at))
  BY <1>1 DEF NodeInv, Here
<1>4. Child(at) \notin path /\ 0 \notin ended
  BY <1>1, <1>2, CallFacts DEF CallsInv
<1>5. PICK l, r : l = Here.left /\ r = Child(at)
  OBVIOUS
<1>6. r \notin ended \/ (mode = "give" /\ from = r /\ batch = << >>)
  BY <1>1, <1>3, <1>5 DEF Returned
<1>7. l \notin ended \/ (mode = "give" /\ (from = l \/ from = r))
  BY <1>3, <1>4, <1>5 DEF Returned, InCall
<1>8. c \notin ended /\ IsKid(plan, at, c)
  BY <1>1, <1>2, <1>5, <1>6, <1>7
<1>9. r \notin ended
  BY <1>2, <1>5, <1>6
<1>10. c = r \/ (c = l /\ l \notin ended)
  BY <1>5, <1>8
<1>11. plan' = plan /\ ended' = ended /\ mode' = "ask"
  BY DEF Ask
<1>12. plan'[here].left = l /\ Child(here)' = r /\ plan'[here].op \in Blocking
  BY <1>5, <1>11 DEF Here, Child
<1>13. c = r => InCall(path \cup {c}, r)'
  BY DEF InCall
<1>14. r \notin ended' /\ (l \in ended' => InCall(path \cup {c}, r)')
  BY <1>9, <1>10, <1>11, <1>13
<1>15. NodeInv(path \cup {c}, here)'
  BY <1>12, <1>14 DEF NodeInv, Blocking
<1> QED BY <1>8, <1>15, AskKeeps

(* With its result it gives, and asks no more.                             *)
LEMMA BlockingGives ==
    ASSUME NEW path \in SUBSET Nodes, CallsInv(path), at # 0, Here.op \in Blocking \cup {"scan"},
           NEW b, Give(b), DOMAIN st' = Nodes, \A n \in Nodes \ {at} : st'[n] = st[n],
           NEW here, here = at, {"built", "leftDone"} \subseteq DOMAIN st'[here],
           Here.op # "scan" => st'[here].built
    PROVE  \E q \in SUBSET Nodes' : CallsInv(q)'
<1>1. IsTree(plan) /\ at \in Nodes /\ at \in Int /\ 0 \notin path
  BY CallFacts DEF CallsInv
<1>2. plan' = plan /\ from' = at
  BY DEF Give
<1>3. PICK l, r : l = Here.left /\ r = Child(at)
  OBVIOUS
<1>4. plan'[here].left = l /\ Child(here)' = r /\ plan'[here].op = Here.op
  BY <1>2, <1>3 DEF Here, Child
<1>5. Here.op # "scan" => l \notin path /\ r \notin path /\ l # here /\ r # here
  <2>1. \A n : IsKid(plan, at, n) => n \notin path /\ n # at
    BY <1>1, CallFacts
  <2>2. Here.op # "scan" => IsKid(plan, at, r) /\ (l = 0 \/ IsKid(plan, at, l))
    BY <1>1, <1>3, NamedKids DEF Here
  <2>3. at # 0
    OBVIOUS
  <2> QED BY <1>1, <2>1, <2>2, <2>3
<1>6. Here.op # "scan" => ~ InCall(path \ {here}, l)' /\ ~ InCall(path \ {here}, r)'
  BY <1>2, <1>5 DEF InCall, Returned
<1>7. NodeInv(path \ {here}, here)'
  BY <1>4, <1>6 DEF NodeInv, Blocking
<1> QED BY <1>7, GiveKeeps

-----------------------------------------------------------------------------
(* The planner builds trees                                                *)

IsList(s) == \E S : s \in Seq(S)

LEMMA ListConcat ==
    ASSUME NEW s, NEW t, IsList(s), IsList(t)
    PROVE  /\ IsList(s \o t) /\ Len(s \o t) = Len(s) + Len(t)
           /\ Len(s) \in Nat /\ Len(t) \in Nat /\ DOMAIN (s \o t) = 1..Len(s) + Len(t)
           /\ \A i \in 1..Len(s) : (s \o t)[i] = s[i]
           /\ \A i \in 1..Len(t) : (s \o t)[Len(s) + i] = t[i]
<1>1. PICK S, T : s \in Seq(S) /\ t \in Seq(T)
  BY DEF IsList
<1>2. s \in Seq(S \cup T) /\ t \in Seq(S \cup T)
  BY <1>1
<1>3. s \o t \in Seq(S \cup T)
  BY <1>2
<1>4. IsList(s \o t)
  BY <1>3 DEF IsList
<1> QED BY <1>2, <1>3, <1>4

LEMMA ListOne ==
    ASSUME NEW e
    PROVE  IsList(<<e>>) /\ Len(<<e>>) = 1 /\ <<e>>[1] = e
<1>1. <<e>> \in Seq({e})
  OBVIOUS
<1> QED BY <1>1 DEF IsList

LEMMA ListEmpty == IsList(<< >>) /\ Len(<< >>) = 0
<1>1. << >> \in Seq({})
  OBVIOUS
<1> QED BY <1>1 DEF IsList

(* The elements of a sum of indices.                                       *)
LEMMA InTwo ==
    ASSUME NEW a \in Nat, NEW b \in Nat, NEW i \in 1..a + b
    PROVE  i \in 1..a \/ \E j \in 1..b : i = a + j
<1>1. CASE i <= a
  BY <1>1
<1>2. CASE i > a
  <2>1. i - a \in 1..b /\ i = a + (i - a)
    BY <1>2
  <2> QED BY <2>1
<1> QED BY <1>1, <1>2

(* Operators with one child, each over the one before.                     *)
Unary == Operators \ (Binary \cup {"scan"})
HasFields(e) == {"op", "left"} \subseteq DOMAIN e
IsUnary(e) == HasFields(e) /\ e.op \in Unary /\ e.left = 0
IsChain(s) == IsList(s) /\ \A i \in 1..Len(s) : IsUnary(s[i])

LEMMA ChainConcat ==
    ASSUME NEW s, NEW t, IsChain(s), IsChain(t)
    PROVE  IsChain(s \o t)
<1>1. IsList(s) /\ IsList(t)
  BY DEF IsChain
<1>2. ASSUME NEW i \in 1..Len(s \o t)
      PROVE  IsUnary((s \o t)[i])
  <2>1. i \in 1..Len(s) + Len(t) /\ Len(s) \in Nat /\ Len(t) \in Nat
    BY <1>1, ListConcat
  <2>2. CASE i \in 1..Len(s)
    <3>1. (s \o t)[i] = s[i]
      BY <1>1, <2>2, ListConcat
    <3> QED BY <2>2, <3>1 DEF IsChain
  <2>3. CASE \E j \in 1..Len(t) : i = Len(s) + j
    <3>1. PICK j \in 1..Len(t) : i = Len(s) + j
      BY <2>3
    <3>2. (s \o t)[i] = t[j]
      BY <1>1, <3>1, ListConcat
    <3> QED BY <3>1, <3>2 DEF IsChain
  <2> QED BY <2>1, <2>2, <2>3, InTwo
<1>3. IsList(s \o t)
  BY <1>1, ListConcat
<1> QED BY <1>2, <1>3 DEF IsChain

LEMMA ChainOne ==
    ASSUME NEW e, IsUnary(e)
    PROVE  IsChain(<<e>>)
BY ListOne DEF IsChain

LEMMA ChainWhen ==
    ASSUME NEW cond, NEW e, IsUnary(e)
    PROVE  IsChain(When(cond, e))
<1>1. CASE cond
  BY <1>1, ChainOne DEF When
<1>2. CASE ~ cond
  <2>1. When(cond, e) = << >>
    BY <1>2 DEF When
  <2> QED BY <2>1, ListEmpty DEF IsChain
<1> QED BY <1>1, <1>2

IsPlan(p) == IsTree(p) /\ IsList(p) /\ \A i \in 1..Len(p) : HasFields(p[i])

(* A chain over a tree is a tree.                                          *)
LEMMA ChainOverTree ==
    ASSUME NEW p, NEW t, IsPlan(p), IsChain(t)
    PROVE  IsPlan(p \o t)
<1> DEFINE w == p \o t
<1>1. IsList(t) /\ IsList(w) /\ Len(w) = Len(p) + Len(t) /\ DOMAIN w = 1..Len(p) + Len(t)
      /\ Len(t) \in Nat /\ IsTree(p)
  BY ListConcat DEF IsChain, IsPlan
<1>2. Len(p) \in Nat /\ Len(p) > 0
  BY <1>1, TreeSize
<1>3. \A i \in 1..Len(p) : w[i] = p[i]
  BY <1>1, ListConcat DEF IsPlan
<1>4. \A i \in 1..Len(w) : i > Len(p) => HasFields(w[i]) /\ w[i].op \in Unary /\ w[i].left = 0
  <2> SUFFICES ASSUME NEW i \in 1..Len(w), i > Len(p)
               PROVE  HasFields(w[i]) /\ w[i].op \in Unary /\ w[i].left = 0
    OBVIOUS
  <2>1. PICK j \in 1..Len(t) : i = Len(p) + j
    BY <1>1, <1>2, InTwo
  <2>2. w[i] = t[j]
    BY <1>1, <2>1, ListConcat DEF IsPlan
  <2> QED BY <2>1, <2>2 DEF IsChain, IsUnary
<1> HIDE DEF w
<1>5. \A m \in 1..Len(p) : /\ p[m].op \in Operators
                           /\ p[m].op \in Binary => p[m].left \in 1..m - 2
                           /\ p[m].op \notin Binary => p[m].left = 0
                           /\ p[m].op # "scan" => m > 1
  BY <1>1, Zenon DEF IsTree
<1>6. ASSUME NEW m \in 1..Len(w)
      PROVE  /\ w[m].op \in Operators
             /\ w[m].op \in Binary => w[m].left \in 1..m - 2
             /\ w[m].op \notin Binary => w[m].left = 0
             /\ w[m].op # "scan" => m > 1
  <2>1. CASE m <= Len(p)
    <3>1. m \in 1..Len(p)
      BY <2>1, <1>1, <1>2
    <3> QED BY <3>1, <1>3, <1>5
  <2>2. CASE m > Len(p)
    BY <2>2, <1>1, <1>2, <1>4 DEF Unary
  <2> QED BY <2>1, <2>2, <1>1, <1>2
<1>7. \A m \in 1..Len(w) : \A n : m > Len(p) => (IsKid(w, m, n) <=> n > 0 /\ n = m - 1)
  <2>1. \A m \in 1..Len(w) : m > Len(p) => w[m].op # "scan" /\ w[m].left = 0
    BY <1>4 DEF Unary
  <2> QED BY <2>1 DEF IsKid, Child
<1>8. \A m \in 1..Len(p) : \A n : IsKid(w, m, n) <=> IsKid(p, m, n)
  BY <1>3 DEF IsKid
<1>9. \A m \in 1..Len(p) : \A n : IsKid(p, m, n) => n < m
  <2> SUFFICES ASSUME NEW m \in 1..Len(p), NEW n, IsKid(p, m, n)
               PROVE  n < m
    OBVIOUS
  <2>1. p[m].left = 0 \/ p[m].left \in 1..m - 2
    BY <1>5
  <2> QED BY <2>1, <1>2 DEF IsKid, Child
<1>10. ASSUME NEW n \in 1..Len(w) - 1
       PROVE  \E m \in 1..Len(w) : IsKid(w, m, n) /\ \A k \in 1..Len(w) : IsKid(w, k, n) => k = m
  <2>1. CASE n < Len(p)
    <3>1. n \in 1..Len(p) - 1
      BY <2>1, <1>1, <1>2
    <3>2. PICK m \in 1..Len(p) : IsKid(p, m, n) /\ \A k \in 1..Len(p) : IsKid(p, k, n) => k = m
      BY <1>1, <3>1, TreeParent
    <3>3. ASSUME NEW k \in 1..Len(w), IsKid(w, k, n)
          PROVE  k = m
      <4>1. k \in 1..Len(p)
        BY <3>3, <1>1, <1>2, <1>7, <2>1
      <4> QED BY <4>1, <3>2, <3>3, <1>8
    <3>4. m \in 1..Len(w) /\ IsKid(w, m, n)
      BY <3>2, <1>1, <1>2, <1>8
    <3> QED BY <3>3, <3>4
  <2>2. CASE n >= Len(p)
    <3>1. n + 1 \in 1..Len(w) /\ IsKid(w, n + 1, n)
      BY <2>2, <1>1, <1>2, <1>7
    <3>2. ASSUME NEW k \in 1..Len(w), IsKid(w, k, n)
          PROVE  k = n + 1
      <4>1. CASE k \in 1..Len(p)
        <5>1. n < k
          BY <4>1, <3>2, <1>8, <1>9
        <5> QED BY <5>1, <4>1, <2>2, <1>2
      <4>2. CASE k > Len(p)
        BY <4>2, <3>2, <1>7, <1>1, <1>2
      <4> QED BY <4>1, <4>2, <1>1, <1>2
    <3> QED BY <3>1, <3>2
  <2> QED BY <2>1, <2>2, <1>1, <1>2
<1>11. Len(w) \in Nat \ {0} /\ DOMAIN w = 1..Len(w)
  BY <1>1, <1>2
<1>12. IsTree(w)
  BY <1>6, <1>10, <1>11, Zenon DEF IsTree
<1>13. \A i \in 1..Len(w) : HasFields(w[i])
  <2>1. \A i \in 1..Len(p) : HasFields(p[i])
    BY DEF IsPlan
  <2>2. \A i \in 1..Len(w) : i \in 1..Len(p) \/ i > Len(p)
    BY <1>1, <1>2
  <2> QED BY <2>1, <2>2, <1>3, <1>4
<1> QED BY <1>1, <1>12, <1>13 DEF w, IsPlan

(* Two trees under an Append are a tree.                                   *)
LEMMA AppendOfTrees ==
    ASSUME NEW l, NEW r, IsPlan(l), IsPlan(r)
    PROVE  IsPlan(AppendNodes(l, r))
<1> DEFINE a == Len(l)
           b == Len(r)
           s == Shifted(r, a)
           q == AppendOp(a)
           w == AppendNodes(l, r)
<1>1. /\ IsTree(l) /\ IsTree(r) /\ IsList(l) /\ IsList(r)
      /\ a \in Nat /\ a > 0 /\ b \in Nat /\ b > 0
  BY TreeSize DEF IsPlan
<1>2. IsList(s) /\ Len(s) = b /\ \A i \in 1..b : s[i] = IF r[i].left = 0 THEN r[i] ELSE [r[i] EXCEPT !.left = @ + a]
  <2>1. s = [i \in 1..b |-> IF r[i].left = 0 THEN r[i] ELSE [r[i] EXCEPT !.left = @ + a]]
    BY DEF Shifted
  <2> HIDE DEF a, b, s
  <2>2. s \in Seq({s[i] : i \in 1..b}) /\ Len(s) = b
    BY <1>1, <2>1
  <2> QED BY <2>1, <2>2 DEF IsList
<1>3. \A i \in 1..b : HasFields(s[i]) /\ s[i].op = r[i].op /\ s[i].left = IF r[i].left = 0 THEN 0 ELSE r[i].left + a
  <2> SUFFICES ASSUME NEW i \in 1..b
               PROVE  HasFields(s[i]) /\ s[i].op = r[i].op
                      /\ s[i].left = IF r[i].left = 0 THEN 0 ELSE r[i].left + a
    OBVIOUS
  <2> HIDE DEF a, s
  <2>1. HasFields(r[i])
    BY DEF IsPlan
  <2> QED BY <2>1, <1>2 DEF HasFields
<1>4. HasFields(q) /\ q.op = "append" /\ q.left = a
  BY DEF AppendOp, Blank, HasFields
<1>5. w = (l \o s) \o <<q>>
  BY DEF AppendNodes
<1> HIDE DEF a, b, s, q, w
<1>6. /\ IsList(l \o s) /\ Len(l \o s) = a + b
      /\ \A i \in 1..a : (l \o s)[i] = l[i]
      /\ \A i \in 1..b : (l \o s)[a + i] = s[i]
  <2>1. IsList(l) /\ IsList(s)
    BY <1>1, <1>2
  <2> QED BY <2>1, <1>2, ListConcat DEF a
<1>7. /\ IsList(w) /\ Len(w) = a + b + 1 /\ DOMAIN w = 1..a + b + 1
      /\ \A i \in 1..a + b : w[i] = (l \o s)[i]
      /\ w[a + b + 1] = q
  <2>1. /\ IsList(w) /\ Len(w) = Len(l \o s) + 1 /\ DOMAIN w = 1..Len(l \o s) + 1
        /\ \A i \in 1..Len(l \o s) : w[i] = (l \o s)[i]
        /\ \A i \in 1..1 : w[Len(l \o s) + i] = <<q>>[i]
    <3>1. IsList(<<q>>) /\ Len(<<q>>) = 1
      BY ListOne
    <3> QED BY <3>1, <1>5, <1>6, ListConcat
  <2>2. w[Len(l \o s) + 1] = q
    BY <2>1, ListOne
  <2> QED BY <2>1, <2>2, <1>6
<1>8. \A i \in 1..a : w[i] = l[i]
  BY <1>1, <1>6, <1>7
<1>9. \A i \in 1..b : w[a + i] = s[i]
  BY <1>1, <1>6, <1>7
<1>10. \A m \in 1..a : /\ l[m].op \in Operators
                       /\ l[m].op \in Binary => l[m].left \in 1..m - 2
                       /\ l[m].op \notin Binary => l[m].left = 0
                       /\ l[m].op # "scan" => m > 1
  BY <1>1, Zenon DEF IsTree, a
<1>11. \A m \in 1..b : /\ r[m].op \in Operators
                       /\ r[m].op \in Binary => r[m].left \in 1..m - 2
                       /\ r[m].op \notin Binary => r[m].left = 0
                       /\ r[m].op # "scan" => m > 1
  BY <1>1, Zenon DEF IsTree, b
<1>12. \A m \in 1..Len(w) : m \in 1..a \/ m = a + b + 1 \/ \E i \in 1..b : m = a + i
  <2> SUFFICES ASSUME NEW m \in 1..Len(w), m # a + b + 1
               PROVE  m \in 1..a \/ \E i \in 1..b : m = a + i
    OBVIOUS
  <2>1. m \in 1..a + b
    BY <1>1, <1>7
  <2> QED BY <2>1, <1>1, InTwo
<1>13. \A m \in 1..a : \A n : IsKid(w, m, n) <=> IsKid(l, m, n)
  BY <1>8 DEF IsKid
<1>14. ASSUME NEW i \in 1..b, NEW n
       PROVE  IsKid(w, a + i, n) <=> \E j \in 1..b : n = a + j /\ IsKid(r, i, j)
  <2>1. /\ w[a + i].op = r[i].op
        /\ w[a + i].left = IF r[i].left = 0 THEN 0 ELSE r[i].left + a
    BY <1>3, <1>9
  <2>2. r[i].op # "scan" => i - 1 \in 1..b /\ Child(a + i) = a + (i - 1) /\ Child(i) = i - 1
    BY <1>1, <1>11 DEF Child
  <2>3. r[i].left = 0 \/ r[i].left \in 1..b
    BY <1>1, <1>11
  <2>4. CASE r[i].op = "scan"
    <3>1. r[i].left = 0
      BY <2>4, <1>11 DEF Binary
    <3> QED BY <3>1, <2>1, <2>4, <1>1 DEF IsKid
  <2>5. CASE r[i].op # "scan" /\ r[i].left = 0
    BY <2>1, <2>2, <2>5, <1>1 DEF IsKid
  <2>6. CASE r[i].op # "scan" /\ r[i].left # 0
    <3>1. r[i].left \in 1..b /\ w[a + i].left = a + r[i].left
      BY <2>1, <2>3, <2>6, <1>1
    <3>2. IsKid(w, a + i, n) <=> n > 0 /\ (n = a + (i - 1) \/ n = a + r[i].left)
      BY <3>1, <2>1, <2>2, <2>6 DEF IsKid
    <3>3. \A j \in 1..b : IsKid(r, i, j) <=> (j = i - 1 \/ j = r[i].left)
      BY <2>2, <2>6, <1>1 DEF IsKid
    <3> QED BY <3>1, <3>2, <3>3, <2>2, <2>6, <1>1
  <2> QED BY <2>4, <2>5, <2>6
<1>15. \A n : IsKid(w, a + b + 1, n) <=> n = a + b \/ n = a
  BY <1>1, <1>4, <1>7 DEF IsKid, Child
<1>16. \A m \in 1..a : \A n : IsKid(l, m, n) => n \in 1..m - 1
  <2> SUFFICES ASSUME NEW m \in 1..a, NEW n, IsKid(l, m, n)
               PROVE  n \in 1..m - 1
    OBVIOUS
  <2>1. l[m].left = 0 \/ l[m].left \in 1..m - 2
    BY <1>10
  <2>2. l[m].op # "scan" => m > 1
    BY <1>10
  <2> QED BY <2>1, <2>2, <1>1 DEF IsKid, Child
<1>17. \A m \in 1..b : \A n : IsKid(r, m, n) => n \in 1..m - 1
  <2> SUFFICES ASSUME NEW m \in 1..b, NEW n, IsKid(r, m, n)
               PROVE  n \in 1..m - 1
    OBVIOUS
  <2>1. r[m].left = 0 \/ r[m].left \in 1..m - 2
    BY <1>11
  <2>2. r[m].op # "scan" => m > 1
    BY <1>11
  <2> QED BY <2>1, <2>2, <1>1 DEF IsKid, Child
<1>18. ASSUME NEW m \in 1..Len(w)
       PROVE  /\ HasFields(w[m])
              /\ w[m].op \in Operators
              /\ w[m].op \in Binary => w[m].left \in 1..m - 2
              /\ w[m].op \notin Binary => w[m].left = 0
              /\ w[m].op # "scan" => m > 1
  <2>1. CASE m \in 1..a
    <3>1. HasFields(l[m])
      BY <2>1 DEF IsPlan, a
    <3> QED BY <2>1, <3>1, <1>8, <1>10
  <2>2. CASE m = a + b + 1
    BY <2>2, <1>1, <1>4, <1>7 DEF Operators, Binary
  <2>3. CASE \E i \in 1..b : m = a + i
    <3>1. PICK i \in 1..b : m = a + i
      BY <2>3
    <3>2. /\ HasFields(w[m]) /\ w[m].op = r[i].op
          /\ w[m].left = IF r[i].left = 0 THEN 0 ELSE r[i].left + a
      BY <3>1, <1>3, <1>9
    <3>3. /\ r[i].op \in Operators
          /\ r[i].op \in Binary => r[i].left \in 1..i - 2
          /\ r[i].op \notin Binary => r[i].left = 0
          /\ r[i].op # "scan" => i > 1
      BY <1>11
    <3> QED BY <3>1, <3>2, <3>3, <1>1
  <2> QED BY <2>1, <2>2, <2>3, <1>12
<1>19. ASSUME NEW n \in 1..Len(w) - 1
       PROVE  \E m \in 1..Len(w) : IsKid(w, m, n) /\ \A k \in 1..Len(w) : IsKid(w, k, n) => k = m
  <2>1. CASE n \in 1..a - 1
    <3>1. PICK m \in 1..a : IsKid(l, m, n) /\ \A k \in 1..a : IsKid(l, k, n) => k = m
      BY <2>1, <1>1, TreeParent DEF a
    <3>2. m \in 1..Len(w) /\ IsKid(w, m, n)
      BY <3>1, <1>1, <1>7, <1>13
    <3>3. ASSUME NEW k \in 1..Len(w), IsKid(w, k, n)
          PROVE  k = m
      <4>1. CASE k \in 1..a
        BY <4>1, <3>1, <3>3, <1>13
      <4>2. k # a + b + 1
        BY <3>3, <2>1, <1>1, <1>15
      <4>3. \A i \in 1..b : k # a + i
        <5> SUFFICES ASSUME NEW i \in 1..b, k = a + i
                     PROVE  FALSE
          OBVIOUS
        <5>1. PICK j \in 1..b : n = a + j
          BY <3>3, <1>14
        <5> QED BY <5>1, <2>1, <1>1
      <4> QED BY <4>1, <4>2, <4>3, <1>12
    <3> QED BY <3>2, <3>3
  <2>2. CASE n = a \/ n = a + b
    <3>1. a + b + 1 \in 1..Len(w) /\ IsKid(w, a + b + 1, n)
      BY <2>2, <1>1, <1>7, <1>15
    <3>2. ASSUME NEW k \in 1..Len(w), IsKid(w, k, n)
          PROVE  k = a + b + 1
      <4>1. ~ (k \in 1..a)
        <5> SUFFICES ASSUME k \in 1..a
                     PROVE  FALSE
          OBVIOUS
        <5>1. n \in 1..k - 1
          BY <3>2, <1>13, <1>16
        <5> QED BY <5>1, <2>2, <1>1
      <4>2. \A i \in 1..b : k # a + i
        <5> SUFFICES ASSUME NEW i \in 1..b, k = a + i
                     PROVE  FALSE
          OBVIOUS
        <5>1. PICK j \in 1..b : n = a + j /\ IsKid(r, i, j)
          BY <3>2, <1>14
        <5>2. j \in 1..i - 1
          BY <5>1, <1>17
        <5> QED BY <5>1, <5>2, <2>2, <1>1
      <4> QED BY <4>1, <4>2, <1>12
    <3> QED BY <3>1, <3>2
  <2>3. CASE \E j \in 1..b - 1 : n = a + j
    <3>1. PICK j \in 1..b - 1 : n = a + j
      BY <2>3
    <3>2. PICK i \in 1..b : IsKid(r, i, j) /\ \A k \in 1..b : IsKid(r, k, j) => k = i
      BY <3>1, <1>1, TreeParent DEF b
    <3>3. a + i \in 1..Len(w) /\ IsKid(w, a + i, n)
      BY <3>1, <3>2, <1>1, <1>7, <1>14
    <3>4. ASSUME NEW k \in 1..Len(w), IsKid(w, k, n)
          PROVE  k = a + i
      <4>1. ~ (k \in 1..a)
        <5> SUFFICES ASSUME k \in 1..a
                     PROVE  FALSE
          OBVIOUS
        <5>1. n \in 1..k - 1
          BY <3>4, <1>13, <1>16
        <5> QED BY <5>1, <3>1, <1>1
      <4>2. k # a + b + 1
        BY <3>4, <3>1, <1>1, <1>15
      <4>3. PICK h \in 1..b : k = a + h
        BY <4>1, <4>2, <1>12
      <4>4. PICK g \in 1..b : n = a + g /\ IsKid(r, h, g)
        BY <3>4, <4>3, <1>14
      <4>5. g = j
        BY <3>1, <4>4, <1>1
      <4> QED BY <3>2, <4>3, <4>4, <4>5
    <3> QED BY <3>3, <3>4
  <2>4. n \in 1..a + b
    BY <1>1, <1>7
  <2>5. n \in 1..a \/ \E j \in 1..b : n = a + j
    BY <2>4, <1>1, InTwo
  <2>6. n \in 1..a => n \in 1..a - 1 \/ n = a
    BY <1>1
  <2>7. \A j \in 1..b : j \in 1..b - 1 \/ j = b
    BY <1>1
  <2> QED BY <2>1, <2>2, <2>3, <2>5, <2>6, <2>7
<1>20. Len(w) \in Nat \ {0} /\ DOMAIN w = 1..Len(w)
  BY <1>1, <1>7
<1>21. IsTree(w)
  BY <1>18, <1>19, <1>20, Zenon DEF IsTree
<1> QED BY <1>7, <1>18, <1>21 DEF w, IsPlan

LEMMA ScanIsTree ==
    ASSUME NEW p, IsList(p), DOMAIN p = 1..Len(p), Len(p) = 1,
           HasFields(p[1]), p[1].op = "scan", p[1].left = 0
    PROVE  IsPlan(p)
<1>1. IsTree(p)
  BY DEF IsTree, Operators, Binary
<1> QED BY <1>1 DEF IsPlan

LEMMA JoinIsTree ==
    ASSUME NEW p, IsList(p), DOMAIN p = 1..Len(p), Len(p) = 3,
           \A i \in 1..2 : HasFields(p[i]) /\ p[i].op = "scan" /\ p[i].left = 0,
           HasFields(p[3]), p[3].op = "join", p[3].left = 1
    PROVE  IsPlan(p)
<1>1. ASSUME NEW m \in 1..3
      PROVE  /\ HasFields(p[m])
             /\ p[m].op \in Operators
             /\ p[m].op \in Binary => p[m].left \in 1..m - 2
             /\ p[m].op \notin Binary => p[m].left = 0
             /\ p[m].op # "scan" => m > 1
  <2>1. CASE m = 3
    BY <2>1 DEF Operators, Binary, Blocking
  <2>2. CASE m \in 1..2
    BY <2>2 DEF Operators, Binary
  <2> QED BY <2>1, <2>2
<1>2. \A n : IsKid(p, 3, n) <=> n = 1 \/ n = 2
  BY DEF IsKid, Child
<1>3. \A m \in 1..2 : \A n : ~ IsKid(p, m, n)
  BY DEF IsKid
<1>4. ASSUME NEW n \in 1..2
      PROVE  IsKid(p, 3, n) /\ \A k \in 1..3 : IsKid(p, k, n) => k = 3
  <2>1. \A k \in 1..3 : k \in 1..2 \/ k = 3
    OBVIOUS
  <2> QED BY <2>1, <1>2, <1>3
<1>5. \A n \in 1..Len(p) - 1 : \E m \in 1..Len(p) :
         IsKid(p, m, n) /\ \A k \in 1..Len(p) : IsKid(p, k, n) => k = m
  BY <1>4
<1>6. IsTree(p)
  BY <1>1, <1>5 DEF IsTree
<1> QED BY <1>1, <1>6 DEF IsPlan

LEMMA ScanFields ==
    ASSUME NEW rows
    PROVE  HasFields(ScanOp(rows)) /\ ScanOp(rows).op = "scan" /\ ScanOp(rows).left = 0
BY DEF ScanOp, Blank, HasFields

(* FROM: a scan, or the join of two.                                       *)
LEMMA FromIsTree ==
    ASSUME NEW core
    PROVE  IsPlan(FromNodes(core))
<1> DEFINE src == Sources(core)
           scans == [t \in 1..Len(src) |-> ScanOp(db[src[t].tbl].rows)]
           join == JoinOp(core.source.join, ResolveAll(FromNames(core), core.source.on), 1,
                          Len(ScanNames(src[1])), Len(ScanNames(src[2])))
<1>1. src = << >> \/ (src # << >> /\ (Len(src) = 1 \/ Len(src) = 2))
  BY DEF Sources
<1>2. HasFields(join) /\ join.op = "join" /\ join.left = 1
  BY DEF JoinOp, Blank, HasFields
<1>3. FromNodes(core) = IF src = << >> THEN << ScanOp(<< <<0>> >>) >> ELSE scans \o When(Len(src) = 2, join)
  BY DEF FromNodes
<1> HIDE DEF src, join
<1>4. CASE src = << >>
  <2> DEFINE e == ScanOp(<< <<0>> >>)
  <2>1. HasFields(e) /\ e.op = "scan" /\ e.left = 0
    BY ScanFields
  <2> HIDE DEF e
  <2>2. IsList(<<e>>) /\ Len(<<e>>) = 1 /\ <<e>>[1] = e /\ DOMAIN <<e>> = 1..1
    BY ListOne
  <2>3. IsPlan(<<e>>)
    BY <2>1, <2>2, ScanIsTree
  <2> QED BY <2>3, <1>3, <1>4 DEF e
<1>5. CASE src # << >> /\ Len(src) \in 1..2
  <2>1. \A t \in 1..Len(src) : HasFields(scans[t]) /\ scans[t].op = "scan" /\ scans[t].left = 0
    BY ScanFields
  <2>2. IsList(scans) /\ Len(scans) = Len(src)
    <3>1. scans \in Seq({scans[t] : t \in 1..Len(src)}) /\ Len(scans) = Len(src)
      BY <1>5
    <3> QED BY <3>1 DEF IsList
  <2> DEFINE tail == When(Len(src) = 2, join)
         w == scans \o tail
  <2> HIDE DEF scans
  <2>3. IsList(tail) /\ Len(tail) = (IF Len(src) = 2 THEN 1 ELSE 0)
    BY ListOne, ListEmpty DEF When
  <2>4. Len(src) = 2 => tail = <<join>>
    BY DEF When
  <2> HIDE DEF tail
  <2>5. /\ IsList(w) /\ Len(w) = Len(src) + Len(tail)
        /\ DOMAIN w = 1..Len(src) + Len(tail)
        /\ \A i \in 1..Len(src) : w[i] = scans[i]
        /\ \A i \in 1..Len(tail) : w[Len(src) + i] = tail[i]
    <3>1. PICK u, v : u = scans /\ v = tail
      OBVIOUS
    <3>2. IsList(u) /\ IsList(v) /\ Len(u) = Len(src) /\ w = u \o v
      BY <2>2, <2>3, <3>1
    <3> HIDE DEF w
    <3>3. /\ IsList(u \o v) /\ Len(u \o v) = Len(u) + Len(v)
          /\ DOMAIN (u \o v) = 1..Len(u) + Len(v)
          /\ \A k \in 1..Len(u) : (u \o v)[k] = u[k]
          /\ \A k \in 1..Len(v) : (u \o v)[Len(u) + k] = v[k]
      BY <3>2, ListConcat
    <3>4. /\ IsList(w) /\ Len(w) = Len(u) + Len(v)
          /\ DOMAIN w = 1..Len(u) + Len(v)
          /\ \A k \in 1..Len(u) : w[k] = u[k]
          /\ \A k \in 1..Len(v) : w[Len(u) + k] = v[k]
      BY <3>2, <3>3, Zenon
    <3> QED BY <3>1, <3>2, <3>4, Zenon
  <2> HIDE DEF w
  <2>6. CASE Len(src) = 1
    <3>1. Len(w) = 1 /\ DOMAIN w = 1..1 /\ w[1] = scans[1]
      BY <2>3, <2>5, <2>6
    <3>2. HasFields(w[1]) /\ w[1].op = "scan" /\ w[1].left = 0
      BY <3>1, <2>1, <2>6
    <3>3. IsPlan(w)
      BY <3>1, <3>2, <2>5, ScanIsTree
    <3> QED BY <3>3, <1>3, <1>5 DEF w, tail
  <2>7. CASE Len(src) = 2
    <3>1. tail = <<join>>
      BY <2>7, <2>4
    <3>2. Len(w) = 3 /\ DOMAIN w = 1..3
      <4>1. Len(tail) = 1
        BY <2>3, <2>7
      <4>2. Len(w) = 2 + 1 /\ DOMAIN w = 1..2 + 1
        BY <2>5, <2>7, <4>1
      <4> QED BY <4>2
    <3>3. w[3] = join
      <4>1. Len(tail) = 1 /\ <<join>>[1] = join
        BY <2>3, <2>7
      <4>2. w[2 + 1] = <<join>>[1]
        BY <2>5, <2>7, <3>1, <4>1
      <4> QED BY <4>1, <4>2
    <3>4. \A i \in 1..2 : HasFields(w[i]) /\ w[i].op = "scan" /\ w[i].left = 0
      BY <2>1, <2>5, <2>7
    <3>5. IsPlan(w)
      BY <3>2, <3>3, <3>4, <1>2, <2>5, JoinIsTree
    <3> QED BY <3>5, <1>3, <1>5 DEF w, tail
  <2> QED BY <2>6, <2>7, <1>5
<1> QED BY <1>1, <1>4, <1>5

LEMMA UnaryOps ==
    /\ \A x : IsUnary(FilterOp(x)) /\ IsUnary(ProjectOp(x)) /\ IsUnary(SortOp(x))
    /\ \A x, y : IsUnary(LimitOp(x, y)) /\ IsUnary(AggregateOp(x, y))
    /\ IsUnary(DistinctOp)
BY DEF FilterOp, ProjectOp, SortOp, LimitOp, AggregateOp, DistinctOp, Blank, IsUnary, HasFields, Unary,
       Operators, Binary, Blocking

LEMMA AggregateIsChain ==
    ASSUME NEW core
    PROVE  IsChain(AggregateNodes(core))
<1> DEFINE names == FromNames(core)
           slots == Slots(core)
           Subst(e) == SubstAggs(core, slots, e)
           aggregate == AggregateOp([k \in 1..Len(core.group) |-> Resolve(names, core.group[k])],
                                    [s \in 1..Len(slots) |-> SlotOf(names, slots[s])])
           having == [i \in 1..Len(core.having) |->
               [cmp |-> core.having[i].cmp, lhs |-> Subst(core.having[i].lhs), rhs |-> Subst(core.having[i].rhs)]]
           order == [k \in 1..Len(core.order) |->
               [x |-> Subst(KeyExpr(core, core.order[k].expr)), asc |-> core.order[k].asc,
                nulls |-> core.order[k].nulls]]
           project == ProjectOp([i \in 1..Len(core.items) |-> Subst(core.items[i].expr)])
<1>1. AggregateNodes(core) = << aggregate >> \o When(core.having # << >>, FilterOp(having))
                             \o When(core.order # << >>, SortOp(order)) \o << project >>
  BY DEF AggregateNodes
<1>2. IsUnary(aggregate) /\ IsUnary(FilterOp(having)) /\ IsUnary(SortOp(order)) /\ IsUnary(project)
  BY UnaryOps
<1> HIDE DEF aggregate, having, order, project
<1>3. /\ IsChain(<< aggregate >>) /\ IsChain(<< project >>)
      /\ IsChain(When(core.having # << >>, FilterOp(having))) /\ IsChain(When(core.order # << >>, SortOp(order)))
  BY <1>2, ChainOne, ChainWhen
<1>4. IsChain(<< aggregate >> \o When(core.having # << >>, FilterOp(having)))
  BY <1>3, ChainConcat
<1>5. IsChain(<< aggregate >> \o When(core.having # << >>, FilterOp(having)) \o When(core.order # << >>, SortOp(order)))
  BY <1>3, <1>4, ChainConcat
<1> QED BY <1>1, <1>3, <1>5, ChainConcat

LEMMA PlainIsChain ==
    ASSUME NEW core
    PROVE  IsChain(PlainNodes(core))
<1>1. PICK x1, x2, c1, c2 : PlainNodes(core) = When(c1, SortOp(x1)) \o When(c2, ProjectOp(x2))
  BY DEF PlainNodes
<1>2. IsChain(When(c1, SortOp(x1))) /\ IsChain(When(c2, ProjectOp(x2)))
  BY UnaryOps, ChainWhen
<1> QED BY <1>1, <1>2, ChainConcat

LEMMA CoreIsTree ==
    ASSUME NEW core
    PROVE  IsPlan(BuildSelectCore(core))
<1>1. PICK x1, x2, x3, c1, c2, c3, middle :
         /\ BuildSelectCore(core) = FromNodes(core) \o When(c1, FilterOp(x1)) \o middle
                                    \o When(c2, DistinctOp) \o When(c3, LimitOp(x2, x3))
         /\ IsChain(middle)
  BY AggregateIsChain, PlainIsChain DEF BuildSelectCore
<1>2. IsChain(When(c1, FilterOp(x1))) /\ IsChain(When(c2, DistinctOp)) /\ IsChain(When(c3, LimitOp(x2, x3)))
  BY UnaryOps, ChainWhen
<1>3. IsPlan(FromNodes(core) \o When(c1, FilterOp(x1)))
  BY <1>2, FromIsTree, ChainOverTree
<1>4. IsPlan(FromNodes(core) \o When(c1, FilterOp(x1)) \o middle)
  BY <1>1, <1>3, ChainOverTree
<1>5. IsPlan(FromNodes(core) \o When(c1, FilterOp(x1)) \o middle \o When(c2, DistinctOp))
  BY <1>2, <1>4, ChainOverTree
<1> QED BY <1>1, <1>2, <1>5, ChainOverTree

(* The plan of every statement is a tree, whatever its clauses.            *)
THEOREM PlansAreTrees == IsTree(PlanOf)
<1>1. IsPlan(BuildSelectCore(stmt.lhs)) /\ IsPlan(BuildSelectCore(stmt.rhs))
  BY CoreIsTree
<1>2. IsPlan(AppendNodes(BuildSelectCore(stmt.lhs), BuildSelectCore(stmt.rhs)))
  BY <1>1, AppendOfTrees
<1>3. IsChain(When(stmt.op = "UNION", DistinctOp))
  BY UnaryOps, ChainWhen
<1>4. IsPlan(AppendNodes(BuildSelectCore(stmt.lhs), BuildSelectCore(stmt.rhs)) \o When(stmt.op = "UNION", DistinctOp))
  BY <1>2, <1>3, ChainOverTree
<1> QED BY <1>1, <1>4 DEF PlanOf, IsPlan

-----------------------------------------------------------------------------
(* The steps                                                               *)

(* The calls of a running plan, as each step finds them.                   *)
LEMMA Fields ==
    ASSUME NEW path \in SUBSET Nodes, CallsInv(path), at # 0
    PROVE  DOMAIN st = Nodes /\ at \in Nodes /\ {"built", "leftDone"} \subseteq DOMAIN st[at]
<1>1. at \in Nodes
  BY CallFacts
<1> QED BY <1>1 DEF CallsInv, NodeInv

LEMMA SliceGiven ==
    ASSUME NEW path \in SUBSET Nodes, CallsInv(path), at # 0, Here.op \in Blocking \cup {"scan"},
           NEW rows, NEW s, {"built", "leftDone"} \subseteq DOMAIN s, GiveSlice(rows, s),
           Here.op # "scan" => s.built
    PROVE  \E q \in SUBSET Nodes' : CallsInv(q)'
<1>1. PICK here : here = at
  OBVIOUS
<1>2. PICK b : b = Slice(rows, s.cursor)
  OBVIOUS
<1>3. Give(b) /\ \E x : st' = [st EXCEPT ![at] = [s EXCEPT !.cursor = x]]
  BY <1>2 DEF GiveSlice
<1>4. PICK x : st' = [st EXCEPT ![at] = [s EXCEPT !.cursor = x]]
  BY <1>3
<1>5. DOMAIN st' = Nodes /\ (\A n \in Nodes \ {at} : st'[n] = st[n]) /\ st'[here] = [s EXCEPT !.cursor = x]
  BY <1>1, <1>4, Fields
<1>6. {"built", "leftDone"} \subseteq DOMAIN st'[here] /\ (Here.op # "scan" => st'[here].built)
  BY <1>5
<1> QED BY <1>1, <1>3, <1>5, <1>6, BlockingGives

LEMMA ScanStep ==
    ASSUME NEW path \in SUBSET Nodes, CallsInv(path), SeqScanNext
    PROVE  \E q \in SUBSET Nodes' : CallsInv(q)'
<1>1. at # 0 /\ Here.op = "scan" /\ GiveSlice(Here.rows, st[at])
  BY DEF SeqScanNext, Running
<1>2. PICK rows, s : rows = Here.rows /\ s = st[at]
  OBVIOUS
<1> QED BY <1>1, <1>2, Fields, SliceGiven

(* Steps that ask, or give b, and change nothing that matters here.        *)
LEMMA StreamStep ==
    ASSUME NEW path \in SUBSET Nodes, CallsInv(path), at # 0,
           Here.op \in {"filter", "project", "limit"},
           DOMAIN st' = Nodes, \A n \in Nodes \ {at} : st'[n] = st[n],
           NEW here, here = at, {"built", "leftDone"} \subseteq DOMAIN st'[here],
           \/ (mode = "ask" \/ batch # << >>) /\ Ask(Child(at))
           \/ \E b : Give(b) /\ (mode = "give" /\ batch = << >> => b = << >>)
    PROVE  \E q \in SUBSET Nodes' : CallsInv(q)'
<1>1. CASE (mode = "ask" \/ batch # << >>) /\ Ask(Child(at))
  BY <1>1, StreamAsks
<1>2. CASE \E b : Give(b) /\ (mode = "give" /\ batch = << >> => b = << >>)
  BY <1>2, StreamGives
<1> QED BY <1>1, <1>2

LEMMA FilterStep ==
    ASSUME NEW path \in SUBSET Nodes, CallsInv(path), FilterNext \/ FilterTakes, status' # "error"
    PROVE  \E q \in SUBSET Nodes' : CallsInv(q)'
<1>1. at # 0 /\ Here.op = "filter" /\ st' = st
  BY DEF FilterNext, FilterTakes, Running, Raise
<1>2. \/ (mode = "ask" \/ batch # << >>) /\ Ask(Child(at))
      \/ \E b : Give(b) /\ (mode = "give" /\ batch = << >> => b = << >>)
  BY DEF FilterNext, FilterTakes, Running, Raise
<1>3. PICK here : here = at
  OBVIOUS
<1>4. DOMAIN st' = Nodes /\ {"built", "leftDone"} \subseteq DOMAIN st'[here]
  BY <1>1, <1>3, Fields
<1> QED BY <1>1, <1>2, <1>3, <1>4, StreamStep

LEMMA ProjectStep ==
    ASSUME NEW path \in SUBSET Nodes, CallsInv(path), ProjectNext \/ ProjectTakes, status' # "error"
    PROVE  \E q \in SUBSET Nodes' : CallsInv(q)'
<1>1. at # 0 /\ Here.op = "project" /\ st' = st
  BY DEF ProjectNext, ProjectTakes, Running, Raise
<1> DEFINE rows == [r \in 1..Len(batch) |-> ValuesOf(Here.cols, batch[r])]
<1>2. batch = << >> => rows = << >>
  <2>1. Len(<< >>) = 0 /\ 1..0 = {}
    OBVIOUS
  <2>2. batch = << >> => DOMAIN rows = {}
    BY <2>1
  <2> QED BY <2>1
<1>3. \/ (mode = "ask" \/ batch # << >>) /\ Ask(Child(at))
      \/ Give(rows)
  BY DEF ProjectNext, ProjectTakes, Running, Raise
<1> HIDE DEF rows
<1>4. \/ (mode = "ask" \/ batch # << >>) /\ Ask(Child(at))
      \/ \E b : Give(b) /\ (mode = "give" /\ batch = << >> => b = << >>)
  BY <1>2, <1>3
<1>5. PICK here : here = at
  OBVIOUS
<1>6. DOMAIN st' = Nodes /\ {"built", "leftDone"} \subseteq DOMAIN st'[here]
  BY <1>1, <1>5, Fields
<1> QED BY <1>1, <1>4, <1>5, <1>6, StreamStep

LEMMA LimitStep ==
    ASSUME NEW path \in SUBSET Nodes, CallsInv(path), LimitNext \/ LimitTakes
    PROVE  \E q \in SUBSET Nodes' : CallsInv(q)'
<1>1. at # 0 /\ Here.op = "limit"
  BY DEF LimitNext, LimitTakes, Running
<1>2. /\ \/ (mode = "ask" \/ batch # << >>) /\ Ask(Child(at))
         \/ \E b : Give(b) /\ (mode = "give" /\ batch = << >> => b = << >>)
      /\ st' = st \/ \E x, y : st' = [st EXCEPT ![at].skipped = x, ![at].emitted = y]
  <2>1. CASE LimitNext
    BY <2>1 DEF LimitNext, Running
  <2>2. CASE LimitTakes
    <3>1. CASE batch = << >>
      BY <2>2, <3>1 DEF LimitTakes
    <3>2. CASE batch # << >>
      BY <2>2, <3>2 DEF LimitTakes
    <3> QED BY <3>1, <3>2
  <2> QED BY <2>1, <2>2
<1>3. PICK here : here = at
  OBVIOUS
<1>4. DOMAIN st' = Nodes /\ (\A n \in Nodes \ {at} : st'[n] = st[n])
      /\ {"built", "leftDone"} \subseteq DOMAIN st'[here]
  <2>1. CASE st' = st
    BY <2>1, <1>1, <1>3, Fields
  <2>2. CASE \E x, y : st' = [st EXCEPT ![at].skipped = x, ![at].emitted = y]
    BY <2>2, <1>1, <1>3, Fields
  <2> QED BY <2>1, <2>2, <1>2
<1> QED BY <1>1, <1>2, <1>3, <1>4, StreamStep

LEMMA BuildNextStep ==
    ASSUME NEW path \in SUBSET Nodes, CallsInv(path), BuildNext
    PROVE  \E q \in SUBSET Nodes' : CallsInv(q)'
<1>1. at # 0 /\ Here.op \in Blocking /\ mode = "ask"
  BY DEF BuildNext, Running
<1>2. CASE st[at].built
  <2>1. PICK rows, s : rows = st[at].rows /\ s = st[at]
    OBVIOUS
  <2>2. GiveSlice(rows, s)
    BY <1>2, <2>1 DEF BuildNext
  <2> QED BY <1>1, <1>2, <2>1, <2>2, Fields, SliceGiven
<1>3. CASE ~ st[at].built
  <2>1. PICK c : c = IF Here.op = "join" THEN Here.left ELSE Child(at)
    OBVIOUS
  <2>2. Ask(c) /\ st' = st
    BY <1>3, <2>1 DEF BuildNext
  <2>3. PICK here : here = at
    OBVIOUS
  <2>4. DOMAIN st' = Nodes /\ {"built", "leftDone"} \subseteq DOMAIN st'[here] /\ ~ st'[here].built
    BY <1>1, <1>3, <2>2, <2>3, Fields
  <2> QED BY <1>1, <1>3, <2>1, <2>2, <2>3, <2>4, BlockingAsks
<1> QED BY <1>2, <1>3

LEMMA BuildTakesStep ==
    ASSUME NEW path \in SUBSET Nodes, CallsInv(path), BuildTakes, status' # "error"
    PROVE  \E q \in SUBSET Nodes' : CallsInv(q)'
<1>1. at # 0 /\ Here.op \in Blocking /\ mode = "give"
  BY DEF BuildTakes, Running
<1>2. DOMAIN st = Nodes /\ at \in Nodes /\ {"built", "leftDone"} \subseteq DOMAIN st[at]
  BY <1>1, Fields
<1>3. PICK here : here = at
  OBVIOUS
  (* it is asked for its result only once *)
<1>4. ~ st[at].built
  <2>1. IsKid(plan, at, from) /\ IsTree(plan) /\ NodeInv(path, at)
    BY <1>1, <1>2, CallFacts DEF CallsInv
  <2>2. from = Child(at) \/ from = Here.left
    BY <1>2, <2>1, KidsOf DEF Here
  <2>3. InCall(path, from)
    BY <1>1 DEF InCall, Returned
  <2> QED BY <1>1, <2>1, <2>2, <2>3 DEF NodeInv, Here
<1>5. CASE from = Here.left
  <2>1. PICK c : c = IF batch = << >> THEN Child(at) ELSE Here.left
    OBVIOUS
  <2>2. Ask(c) /\ \E x : st' = [st EXCEPT ![at].left = x]
    BY <1>5, <2>1 DEF BuildTakes
  <2>3. DOMAIN st' = Nodes /\ (\A n \in Nodes \ {at} : st'[n] = st[n])
        /\ {"built", "leftDone"} \subseteq DOMAIN st'[here] /\ ~ st'[here].built
    BY <1>2, <1>3, <1>4, <2>2
  <2> QED BY <1>1, <1>3, <1>4, <1>5, <2>1, <2>2, <2>3, BlockingAsks
<1>6. CASE from # Here.left /\ batch # << >>
  <2>1. PICK c : c = Child(at)
    OBVIOUS
  <2>2. Ask(c) /\ \E x : st' = [st EXCEPT ![at].rows = x]
    BY <1>6, <2>1 DEF BuildTakes
  <2>3. DOMAIN st' = Nodes /\ (\A n \in Nodes \ {at} : st'[n] = st[n])
        /\ {"built", "leftDone"} \subseteq DOMAIN st'[here] /\ ~ st'[here].built
    BY <1>2, <1>3, <1>4, <2>2
  <2> QED BY <1>1, <1>3, <1>4, <1>6, <2>1, <2>2, <2>3, BlockingAsks
<1>7. CASE from # Here.left /\ batch = << >>
  <2>1. \E rows : GiveSlice(rows, [st[at] EXCEPT !.rows = rows, !.built = TRUE])
    BY <1>7 DEF BuildTakes, Raise
  <2>2. PICK rows, s : GiveSlice(rows, s) /\ s = [st[at] EXCEPT !.rows = rows, !.built = TRUE]
    BY <2>1
  <2>3. {"built", "leftDone"} \subseteq DOMAIN s /\ s.built
    BY <1>2, <2>2
  <2> QED BY <1>1, <2>2, <2>3, SliceGiven
<1> QED BY <1>5, <1>6, <1>7

LEMMA AppendStep ==
    ASSUME NEW path \in SUBSET Nodes, CallsInv(path), AppendNext \/ AppendTakes
    PROVE  \E q \in SUBSET Nodes' : CallsInv(q)'
<1>1. at # 0 /\ Here.op = "append"
  BY DEF AppendNext, AppendTakes, Running
<1>2. DOMAIN st = Nodes /\ at \in Nodes /\ {"built", "leftDone"} \subseteq DOMAIN st[at]
  BY <1>1, Fields
<1>3. PICK here : here = at
  OBVIOUS
<1>4. CASE AppendNext
  <2>1. PICK c : c = IF st[at].leftDone THEN Child(at) ELSE Here.left
    OBVIOUS
  <2>2. Ask(c) /\ st' = st /\ mode = "ask"
    BY <1>4, <2>1 DEF AppendNext, Running
  <2> QED BY <1>1, <1>2, <1>3, <2>1, <2>2, AppendAsks
<1>5. CASE AppendTakes /\ from = Here.left /\ batch = << >>
  <2>1. PICK c : c = Child(at)
    OBVIOUS
  <2>2. Ask(c) /\ st' = [st EXCEPT ![at].leftDone = TRUE] /\ mode = "give"
    BY <1>5, <2>1 DEF AppendTakes, Running
  <2>3. DOMAIN st' = Nodes /\ (\A n \in Nodes \ {at} : st'[n] = st[n])
        /\ {"built", "leftDone"} \subseteq DOMAIN st'[here] /\ st'[here].leftDone
    BY <1>2, <1>3, <2>2
  <2> QED BY <1>1, <1>3, <1>5, <2>1, <2>2, <2>3, AppendAsks
<1>6. CASE AppendTakes /\ (from # Here.left \/ batch # << >>)
  <2>1. Give(batch) /\ st' = st /\ mode = "give"
    BY <1>6 DEF AppendTakes, Running
  <2> QED BY <1>1, <1>6, <2>1, AppendGives
<1> QED BY <1>4, <1>5, <1>6

LEMMA DrainStep ==
    ASSUME NEW path \in SUBSET Nodes, CallsInv(path), Drain, status' = "running"
    PROVE  \E q \in SUBSET Nodes' : CallsInv(q)'
<1>1. /\ at = 0 /\ batch # << >> /\ at' = Len(plan) /\ mode' = "ask"
      /\ plan' = plan /\ st' = st /\ ended' = ended
  BY DEF Drain
<1>2. /\ IsTree(plan) /\ mode = "give" /\ from = Len(plan) /\ ended \subseteq Nodes
      /\ from \notin ended /\ path = {} /\ DOMAIN st = Nodes
  BY <1>1 DEF CallsInv, IsPath
<1>3. PICK root : root = Len(plan)
  OBVIOUS
<1>4. root \in Nodes /\ root # 0 /\ root \in Nat /\ Nodes' = Nodes
  BY <1>1, <1>2, <1>3, TreeSize DEF Nodes
<1>5. IsPath({root})'
  BY <1>1, <1>2, <1>3, <1>4 DEF IsPath
<1>6. ASSUME NEW n \in Nodes
      PROVE  NodeInv({root}, n)'
  <2>1. NodeInv(path, n)
    BY DEF CallsInv
  <2>2. \A k : ~ Returned(k)'
    BY <1>1 DEF Returned
  <2>3. CASE plan[n].op = "scan"
    BY <2>1, <2>3, <1>1 DEF NodeInv, Blocking
  <2>4. CASE plan[n].op # "scan"
    <3>1. ASSUME NEW k, IsKid(plan, n, k)
          PROVE  k # root
      BY <1>2, <1>3, <3>1, KidHasParent
    <3>2. Child(n) # root /\ plan[n].left # root
      BY <1>4, <2>4, <3>1, NamedKids
    <3>3. /\ ~ Returned(Child(n))
          /\ plan[n].left \in ended => ~ Returned(plan[n].left)
      BY <1>2, <1>3, <3>2 DEF Returned
    <3>4. Child(n)' = Child(n)
      BY DEF Child
    <3>5. Child(n) \notin {root} /\ plan[n].left \notin {root} /\ Child(n) \notin path /\ plan[n].left \notin path
      BY <1>2, <3>2
    <3>6. CASE plan[n].op \in {"filter", "project", "limit"}
      BY <1>1, <2>1, <2>2, <3>3, <3>4, <3>6 DEF NodeInv, Blocking
    <3>7. CASE plan[n].op = "append"
      BY <1>1, <2>1, <2>2, <3>3, <3>4, <3>5, <3>7 DEF NodeInv, Blocking, InCall
    <3>8. CASE plan[n].op \in Blocking
      BY <1>1, <2>1, <2>2, <3>3, <3>4, <3>5, <3>8 DEF NodeInv, Blocking, InCall
    <3> QED BY <1>2, <2>4, <3>6, <3>7, <3>8, KidsOf DEF Operators
  <2> QED BY <2>3, <2>4
<1>7. CallsInv({root})'
  <2>1. IsTree(plan)' /\ at' \in 0..Len(plan') /\ at' # 0
    BY <1>1, <1>2, <1>3, <1>4
  <2> QED BY <2>1, <1>1, <1>2, <1>4, <1>5, <1>6 DEF CallsInv
<1> QED BY <1>4, <1>7

LEMMA StartStep ==
    ASSUME NEW p, IsTree(p), Start(p), mode = "ask", ended = {}
    PROVE  \E q \in SUBSET Nodes' : CallsInv(q)'
<1>1. /\ plan' = p /\ at' = Len(p) /\ st' = [n \in 1..Len(p) |-> NewState]
      /\ mode' = "ask" /\ ended' = {}
  BY DEF Start
<1>2. PICK root : root = Len(p)
  OBVIOUS
<1>3. root \in Nodes' /\ root # 0 /\ root \in Nat /\ Nodes' = 1..Len(p)
  BY <1>1, <1>2, TreeSize DEF Nodes
<1>4. IsPath({root})'
  BY <1>1, <1>2, <1>3 DEF IsPath
<1>5. ASSUME NEW n \in 1..Len(p)
      PROVE  NodeInv({root}, n)'
  <2>1. /\ {"built", "leftDone"} \subseteq DOMAIN st'[n] /\ st'[n].built = FALSE /\ st'[n].leftDone = FALSE
    BY <1>1 DEF NewState
  <2>2. \A k : ~ Returned(k)'
    BY <1>1 DEF Returned
  <2>3. p[n].op = "append" => Child(n)' # root
    <3>1. n <= root /\ n \in Int /\ Child(n)' = n - 1
      BY <1>2, <1>3 DEF Child
    <3> QED BY <3>1, <1>3
  <2> QED BY <1>1, <2>1, <2>2, <2>3 DEF NodeInv, InCall, Blocking
<1>6. CallsInv({root})'
  <2>1. IsTree(plan)' /\ at' \in 0..Len(plan') /\ at' # 0
    BY <1>1, <1>2, <1>3
  <2> QED BY <2>1, <1>1, <1>3, <1>4, <1>5 DEF CallsInv
<1> QED BY <1>3, <1>6

(* A step of an operator, or of drain.                                     *)
LEMMA PipelineStep ==
    ASSUME CallInv, PipelineNext
    PROVE  CallInv'
<1>1. status = "running"
  BY DEF PipelineNext, SeqScanNext, FilterNext, FilterTakes, ProjectNext, ProjectTakes, LimitNext, LimitTakes,
         BuildNext, BuildTakes, AppendNext, AppendTakes, Drain, Running
<1>2. status' \in {"running", "done", "error"}
  <2>1. CASE Drain
    BY <1>1, <2>1 DEF Drain
  <2>2. CASE SeqScanNext \/ FilterNext \/ FilterTakes \/ ProjectNext \/ ProjectTakes \/ LimitNext \/ LimitTakes
    BY <1>1, <2>2 DEF SeqScanNext, FilterNext, FilterTakes, ProjectNext, ProjectTakes, LimitNext, LimitTakes,
                      GiveSlice, Give, Ask, Raise
  <2>3. CASE BuildNext \/ BuildTakes
    BY <1>1, <2>3 DEF BuildNext, BuildTakes, GiveSlice, Give, Ask, Raise
  <2>4. CASE AppendNext \/ AppendTakes
    BY <1>1, <2>4 DEF AppendNext, AppendTakes, Give, Ask
  <2> QED BY <2>1, <2>2, <2>3, <2>4 DEF PipelineNext
<1>3. PICK path \in SUBSET Nodes : CallsInv(path)
  BY <1>1 DEF CallInv
<1>4. ASSUME status' = "running"
      PROVE  \E q \in SUBSET Nodes' : CallsInv(q)'
  <2>1. status' # "error"
    BY <1>4
  <2>2. CASE SeqScanNext
    BY <1>3, <2>2, ScanStep
  <2>3. CASE FilterNext \/ FilterTakes
    BY <1>3, <2>1, <2>3, FilterStep
  <2>4. CASE ProjectNext \/ ProjectTakes
    BY <1>3, <2>1, <2>4, ProjectStep
  <2>5. CASE LimitNext \/ LimitTakes
    BY <1>3, <2>5, LimitStep
  <2>6. CASE BuildNext
    BY <1>3, <2>6, BuildNextStep
  <2>7. CASE BuildTakes
    BY <1>3, <2>1, <2>7, BuildTakesStep
  <2>8. CASE AppendNext \/ AppendTakes
    BY <1>3, <2>8, AppendStep
  <2>9. CASE Drain
    BY <1>3, <1>4, <2>9, DrainStep
  <2> QED BY <2>2, <2>3, <2>4, <2>5, <2>6, <2>7, <2>8, <2>9 DEF PipelineNext
<1> QED BY <1>2, <1>4 DEF CallInv

(* While a plan runs, the operators that have been called and have not     *)
(* returned form one branch of the tree, none of them has ended, and every *)
(* operator remembers which of its children have.                          *)
THEOREM CallInvariance == Spec => []CallInv
<1>1. Init => CallInv
  BY DEF Init, NoPlan, CallInv
<1>2. CallInv /\ [Next]_queryVars => CallInv'
  <2> SUFFICES ASSUME CallInv, [Next]_queryVars
               PROVE  CallInv'
    OBVIOUS
  <2>1. CASE FastAggregate
    BY <2>1 DEF FastAggregate, CallInv
  <2>2. CASE BuildSelect
    <3>1. mode = "ask" /\ ended = {}
      BY <2>2 DEF BuildSelect, CallInv
    <3>2. CASE Raise
      BY <3>2 DEF Raise, CallInv
    <3>3. CASE \E p \in {PlanOf} : Start(p)
      <4>1. PICK p : p = PlanOf /\ Start(p)
        BY <3>3
      <4>2. IsTree(p)
        BY <4>1, PlansAreTrees
      <4>3. \E q \in SUBSET Nodes' : CallsInv(q)'
        BY <3>1, <4>1, <4>2, StartStep
      <4>4. status' = "running"
        BY <4>1 DEF Start
      <4> QED BY <4>3, <4>4 DEF CallInv
    <3> QED BY <2>2, <3>2, <3>3 DEF BuildSelect
  <2>3. CASE PipelineNext
    BY <2>3, PipelineStep
  <2>4. CASE Answered \/ UNCHANGED queryVars
    <3>1. UNCHANGED queryVars
      BY <2>4 DEF Answered
    <3>2. UNCHANGED <<plan, at, mode, from, batch, st, output, status, ended>>
      BY <3>1 DEF queryVars, pipeVars
    <3>3. CASE status = "running"
      <4>1. PICK path \in SUBSET Nodes : CallsInv(path)
        BY <3>3 DEF CallInv
      <4>2. Nodes' = Nodes
        BY <3>2 DEF Nodes
      <4>3. \A n : Parent(n)' = Parent(n)
        BY <3>2, SameParents
      <4>4. IsPath(path)'
        BY <3>2, <4>1, <4>3 DEF IsPath, CallsInv
      <4>5. \A n \in Nodes : NodeInv(path, n)'
        BY <3>2, <4>1 DEF CallsInv, NodeInv, InCall, Returned, Child
      <4>6. CallsInv(path)'
        BY <3>2, <4>1, <4>2, <4>4, <4>5 DEF CallsInv
      <4> QED BY <3>2, <3>3, <4>2, <4>6 DEF CallInv
    <3>4. CASE status # "running"
      BY <3>2, <3>4 DEF CallInv
    <3> QED BY <3>3, <3>4
  <2> QED BY <2>1, <2>2, <2>3, <2>4 DEF Next
<1> QED BY <1>1, <1>2, PTL DEF Spec

(* next() is never called on an operator that has given the empty batch,   *)
(* whatever the statement, the tables and the size of a batch.             *)
THEOREM EndedStaysEnded == Spec => []NoPullAfterEnd
<1>1. CallInv => NoPullAfterEnd
  <2> SUFFICES ASSUME CallInv, status = "running", mode = "ask"
               PROVE  at \notin ended
    BY DEF NoPullAfterEnd
  <2>1. PICK path \in SUBSET Nodes : CallsInv(path)
    BY DEF CallInv
  <2>2. at # 0
    BY <2>1 DEF CallsInv
  <2> QED BY <2>1, <2>2, CallFacts
<1> QED BY <1>1, CallInvariance, PTL
=============================================================================
