------------------------- MODULE KillCascadeProofs -------------------------
(***************************************************************************)
(* The kill loop computes the descendants of the root, for any table.      *)
(***************************************************************************)
EXTENDS KillCascade, TLAPS

\* The loop kills descendants only, and still holds every child it has to visit:
\* those of the root and of each entry it killed are dead, absent or stacked.
LoopInv ==
    /\ wasDead \cup {root} \subseteq dead
    /\ dead \subseteq wasDead \cup {root} \cup Doomed
    /\ Members(stack) \cap (present \ (wasDead \cup {root})) \subseteq Doomed
    /\ \A i \in (dead \ wasDead) \cup {root} :
           ChildSets[i] \cap present \subseteq dead \cup Members(stack)

\* What is left on the stack is the rest of it, and its top is gone.
LEMMA StackTop ==
    ASSUME TypeOK, stack # << >>
    PROVE  /\ Top \in Ids /\ Rest \in Seq(Ids)
           /\ Members(stack) = Members(Rest) \cup {Top}
<1>1. Len(stack) \in Nat \ {0} /\ DOMAIN stack = 1 .. Len(stack)
  BY DEF TypeOK
<1>2. Rest \in Seq(Ids) /\ Len(Rest) = Len(stack) - 1
      /\ \A k \in 1 .. Len(stack) - 1 : Rest[k] = stack[k]
  BY <1>1 DEF TypeOK, Rest
<1>3. DOMAIN Rest = 1 .. Len(stack) - 1
  BY <1>2
<1>4. Top \in Ids
  BY <1>1 DEF TypeOK, Top
<1>5. Members(stack) = Members(Rest) \cup {Top}
  BY <1>1, <1>2, <1>3 DEF Members, Top
<1>6. QED
  BY <1>2, <1>4, <1>5

LEMMA MembersConcat ==
    ASSUME NEW s \in Seq(Ids), NEW t \in Seq(Ids)
    PROVE  s \o t \in Seq(Ids) /\ Members(s \o t) = Members(s) \cup Members(t)
<1>1. /\ s \o t \in Seq(Ids)
      /\ Len(s) \in Nat /\ Len(t) \in Nat /\ Len(s \o t) = Len(s) + Len(t)
      /\ \A k \in 1 .. Len(s) + Len(t) :
             (s \o t)[k] = IF k <= Len(s) THEN s[k] ELSE t[k - Len(s)]
  OBVIOUS
<1>2. /\ DOMAIN s = 1 .. Len(s) /\ DOMAIN t = 1 .. Len(t)
      /\ DOMAIN (s \o t) = 1 .. Len(s) + Len(t)
  BY <1>1
<1>3. Members(s \o t) \subseteq Members(s) \cup Members(t)
  BY <1>1, <1>2 DEF Members
<1>4. Members(s) \subseteq Members(s \o t)
  BY <1>1, <1>2 DEF Members
<1>5. Members(t) \subseteq Members(s \o t)
  <2> SUFFICES ASSUME NEW k \in 1 .. Len(t) PROVE t[k] \in Members(s \o t)
    BY <1>2 DEF Members
  <2>1. k + Len(s) \in 1 .. Len(s) + Len(t) /\ (s \o t)[k + Len(s)] = t[k]
    BY <1>1
  <2>2. QED
    BY <1>2, <2>1 DEF Members
<1>6. QED
  BY <1>1, <1>3, <1>4, <1>5

\* The stack holds identifiers only, and the loop kills nothing that is absent
\* from the table.
THEOREM LoopTypeCorrect == Spec => []TypeOK
<1>1. Init => TypeOK
  BY ListsAssumption DEF Init, TypeOK
<1>2. TypeOK /\ [Next]_vars => TypeOK'
  <2> SUFFICES ASSUME TypeOK, [Next]_vars PROVE TypeOK'
    OBVIOUS
  <2>1. CASE Skip
    BY <2>1, StackTop DEF Skip, table, TypeOK
  <2>2. CASE Kill
    <3>1. stack' = Rest \o children[Top] /\ Rest \in Seq(Ids) /\ children[Top] \in Seq(Ids)
      BY <2>2, StackTop DEF Kill, TypeOK
    <3>2. QED
      BY <2>2, <3>1, MembersConcat DEF Kill, table, TypeOK
  <2>3. CASE UNCHANGED vars
    BY <2>3 DEF vars, table, TypeOK
  <2>4. QED
    BY <2>1, <2>2, <2>3 DEF Next, Done
<1>3. QED
  BY <1>1, <1>2, PTL DEF Spec

\* A live child of the root or of a descendant is a descendant.
LEMMA DoomedIsClosed ==
    ASSUME NEW p \in Doomed \cup {root},
           NEW c \in ChildSets[p] \cap (present \ (wasDead \cup {root}))
    PROVE  c \in Doomed
<1> DEFINE live == present \ wasDead
<1>1. SUFFICES ASSUME NEW S \in SUBSET (live \ {root}), Closed(S, live, root, ChildSets)
               PROVE  c \in S
  BY DEF Doomed, Reached
<1>2. p \in S \cup {root}
  BY <1>1 DEF Doomed, Reached
<1>3. QED
  BY <1>1, <1>2 DEF Closed

LEMMA LoopInvStep == TypeOK /\ TypeOK' /\ LoopInv /\ [Next]_vars => LoopInv'
<1> SUFFICES ASSUME TypeOK, TypeOK', LoopInv, [Next]_vars PROVE LoopInv'
  OBVIOUS
<1>0. ASSUME UNCHANGED table
      PROVE  Doomed' = Doomed /\ ChildSets' = ChildSets
  BY <1>0 DEF table, Doomed, ChildSets
<1>1. CASE Skip
  <2>1. /\ stack # << >> /\ (Top \notin present \/ Top \in dead)
        /\ stack' = Rest /\ UNCHANGED <<table, dead>>
    BY <1>1 DEF Skip
  <2>2. Members(stack) = Members(Rest) \cup {Top}
    BY <2>1, StackTop
  <2>3. QED
    BY <1>0, <2>1, <2>2 DEF LoopInv, table
<1>2. CASE Kill
  <2>1. /\ stack # << >> /\ Top \in present \ dead
        /\ dead' = dead \cup {Top} /\ stack' = Rest \o children[Top] /\ UNCHANGED table
    BY <1>2 DEF Kill
  <2>2. /\ Members(stack) = Members(Rest) \cup {Top}
        /\ Top \in Ids /\ Rest \in Seq(Ids) /\ children[Top] \in Seq(Ids)
    BY <2>1, StackTop DEF TypeOK
  <2>3. ChildSets[Top] = Members(children[Top])
    BY <2>2 DEF ChildSets
  <2>4. Members(stack') = Members(Rest) \cup ChildSets[Top]
    BY <2>1, <2>2, <2>3, MembersConcat
  <2>5. Top \in Doomed
    BY <2>1, <2>2 DEF LoopInv
  <2>6. ChildSets[Top] \cap (present \ (wasDead \cup {root})) \subseteq Doomed
    BY <2>5, DoomedIsClosed
  <2>7. Members(stack') \cap (present \ (wasDead \cup {root})) \subseteq Doomed
    BY <2>2, <2>4, <2>6 DEF LoopInv
  <2>8. ASSUME NEW i \in (dead' \ wasDead) \cup {root}
        PROVE  ChildSets[i] \cap present \subseteq dead' \cup Members(stack')
    BY <2>1, <2>2, <2>4 DEF LoopInv
  <2>9. QED
    BY <1>0, <2>1, <2>5, <2>7, <2>8 DEF LoopInv, table
<1>3. CASE UNCHANGED vars
  BY <1>0, <1>3 DEF LoopInv, vars, table
<1>4. QED
  BY <1>1, <1>2, <1>3 DEF Next, Done

\* When the loop ends it has killed the descendants of the root and nothing else:
\* the one-step definition that InstanceManager uses is what the loop computes.
THEOREM LoopKillsDescendants == Spec => []KillsDescendants
<1>1. Init => LoopInv
  <2> SUFFICES ASSUME Init PROVE LoopInv
    OBVIOUS
  <2>1. /\ root \in Ids /\ root \notin wasDead /\ stack = children[root]
        /\ dead = wasDead \cup {root} /\ Members(stack) = ChildSets[root]
    BY DEF Init, ChildSets
  <2>2. QED
    BY <2>1, DoomedIsClosed DEF LoopInv
<1>2. TypeOK /\ LoopInv => KillsDescendants
  <2> SUFFICES ASSUME TypeOK, LoopInv, stack = << >>
               PROVE  dead = wasDead \cup {root} \cup Doomed
    BY DEF KillsDescendants
  <2> DEFINE live == present \ wasDead
             S == dead \ (wasDead \cup {root})
  <2>1. Members(stack) = {}
    BY DEF Members
  <2>2. S \subseteq live \ {root}
    BY DEF TypeOK
  <2>3. Closed(S, live, root, ChildSets)
    BY <2>1 DEF Closed, LoopInv
  <2>4. Doomed \subseteq S
    BY <2>2, <2>3 DEF Doomed, Reached
  <2>5. QED
    BY <2>4 DEF LoopInv
<1>3. QED
  BY <1>1, <1>2, LoopInvStep, LoopTypeCorrect, PTL DEF Spec
=============================================================================
