------------------------- MODULE TargetSequencerProofs -------------------------
(***************************************************************************)
(* SequencerSafe for every recorded route, every number of planner nodes   *)
(* and every order of topics, goals, calls and answers.  The first part    *)
(* keeps the progress inside the loaded sequence; the second follows the   *)
(* calls of a profile transition from the queue of a node to the answer    *)
(* that confirms it; the third shows that a window is exposed only while   *)
(* no call is under way that could change what it was exposed under.       *)
(***************************************************************************)
EXTENDS TargetSequencer, SequenceTheorems, WellFoundedInduction, TLAPS

-----------------------------------------------------------------------------
(* Types *)

Transitions == [revision : Nat, profile : Profiles \cup {"none"},
                sent : SUBSET Nodes, confirmed : SUBSET Nodes]
Segments == [publication : Nat, first : Nat, last : Nat,
             needs : Profiles \cup {"none"}]

Members ==
  [received : [Topics -> Nat], signature : Nat, types : Nat, flags : Nat,
   sequence : Seq(Nat), position : Nat \ {0}, complete : BOOLEAN,
   floor : Nat \ {0}, applied : Profiles \cup {"none"},
   transition : Transitions, revision : Nat, odom : Int, fresh : BOOLEAN,
   located : Int, goal : Int, segment : Segments]

Requests == [revision : Nat, profile : Profiles \cup {"none"}]
Replies == [node : Nodes, revision : Nat, success : BOOLEAN]

\* What the sequence, the position and the floor have to do with each other.
Progress(s) ==
  /\ \A i \in DOMAIN s.sequence : s.sequence[i] \in 1 .. TargetCount(s)
  /\ HasProgress(s) => s.position \in DOMAIN s.sequence
  /\ s.floor \in 1 .. s.position
  /\ Pending(s) => HasProgress(s) /\ ~ s.complete /\ s.transition.profile \in Profiles
  /\ Pending(s) => s.segment = NoSegment
  /\ ~ Pending(s) => s.transition = NoTransition
  /\ s.segment # NoSegment => s.segment.needs \in Profiles

Sound(s) == s \in Members /\ Progress(s)

\* The calls waiting at the nodes are for profiles there are.
Real(q) == \A n \in Nodes : \A i \in DOMAIN q[n] : q[n][i].profile \in Profiles

\* The publications in use are ones that were made.
Published(s) ==
  /\ \A t \in Topics : s.received[t] \in 0 .. published
  /\ s.signature \in 0 .. published
  /\ s.types \in 0 .. published /\ s.flags \in 0 .. published

SequencerTypes ==
  /\ Sound(seq) /\ Published(seq)
  /\ published \in 0 .. Len(Recordings)
  /\ requests \in [Nodes -> Seq(Requests)] /\ Real(requests)
  /\ replies \subseteq Replies
  /\ params \in [Nodes -> Profiles \cup {"launch"}]
  /\ body \in Int

-----------------------------------------------------------------------------
(* The nearest target *)

\* A set of numbers that is not empty has a least one.
LEMMA LeastNumber ==
  ASSUME NEW S \in SUBSET Nat, S # {}
  PROVE  \E m \in S : \A k \in S : m <= k
<1>1. IsWellFoundedOn(OpToRel(<, Nat), Nat)
  BY NatLessThanWellFounded
<1>2. PICK m \in S : \A k \in S : ~ (<<k, m>> \in OpToRel(<, Nat))
  BY <1>1, WFMin
<1>3. \A k \in S : ~ (k < m)
  BY <1>2 DEF OpToRel
<1> QED  BY <1>3

\* The nearest of some positions is one of them.
LEMMA NearestType ==
  ASSUME NEW x \in Int, NEW a \in Nat, NEW b \in Nat, a <= b,
         NEW at \in [a .. b -> Int]
  PROVE  nearestTarget(x, at) \in a .. b
<1> DEFINE away == {Distance(x, at[i]) : i \in a .. b}
<1>1. \A i \in a .. b : Distance(x, at[i]) \in Nat
  BY DEF Distance
<1>2. PICK d \in away : \A k \in away : d <= k
  <2>1. away \in SUBSET Nat /\ away # {}
    BY <1>1
  <2> QED  BY <2>1, LeastNumber
<1> DEFINE near == {i \in a .. b : Distance(x, at[i]) = d}
<1>3. PICK i \in near : \A j \in near : i <= j
  <2>1. near \in SUBSET Nat /\ near # {}
    OBVIOUS
  <2> HIDE DEF near
  <2> QED  BY <2>1, LeastNumber
<1>4. \A j \in a .. b : Distance(x, at[i]) <= Distance(x, at[j])
  BY <1>2, <1>3
<1>5. \A j \in a .. b : \/ Distance(x, at[i]) < Distance(x, at[j])
                        \/ Distance(x, at[i]) = Distance(x, at[j]) /\ i <= j
  BY <1>1, <1>3, <1>4
<1>6. DOMAIN at = a .. b
  OBVIOUS
<1> QED  BY <1>3, <1>5, <1>6 DEF nearestTarget

\* The way from one target to another passes only targets between them.
LEMMA OrderedType ==
  ASSUME NEW count \in Nat, NEW start \in 1 .. count, NEW goal \in 1 .. count
  PROVE  /\ orderedTargetIndices(start, goal) \in Seq(Nat)
         /\ orderedTargetIndices(start, goal) # <<>>
         /\ 1 \in DOMAIN orderedTargetIndices(start, goal)
         /\ \A i \in DOMAIN orderedTargetIndices(start, goal) :
              orderedTargetIndices(start, goal)[i] \in 1 .. count
<1> DEFINE n == IF goal >= start THEN goal - start + 1 ELSE start - goal + 1
           place(i) == IF goal >= start THEN start + i - 1 ELSE start - i + 1
           way == [i \in 1 .. n |-> place(i)]
<1>1. n \in Nat \ {0}
  OBVIOUS
<1>2. \A i \in 1 .. n : place(i) \in 1 .. count
  OBVIOUS
<1>3. orderedTargetIndices(start, goal) = way
  BY DEF orderedTargetIndices
<1> HIDE DEF n, place
<1>4. way \in Seq(Nat) /\ DOMAIN way = 1 .. n /\ 1 \in 1 .. n
  <2>1. way \in [1 .. n -> Nat]
    BY <1>2
  <2> QED  BY <1>1, <2>1, SeqDef
<1>5. way # <<>>
  BY <1>4
<1> QED  BY <1>2, <1>3, <1>4, <1>5

-----------------------------------------------------------------------------
(* The calls of a transition: of the members c, the queues q, the answers on *)
(* their way reps and the profiles p the nodes run with                      *)

\* No call and no answer carries a number that was not given out yet.
Numbered(c, q, reps) ==
  /\ c.transition.revision <= c.revision
  /\ c.transition.revision = 0 => c.transition = NoTransition
  /\ \A n \in Nodes : \A i \in DOMAIN q[n] : q[n][i].revision \in 1..c.revision
  /\ \A r \in reps : r.revision \in 1..c.revision

\* The answers of node n to the pending revision, and whether n may be believed
\* to run with the pending profile now or once they are delivered.
Answers(c, reps, n) == {r \in reps : r.node = n /\ r.revision = c.transition.revision}

Believed(c, reps, n) ==
  n \in c.transition.confirmed \/ \E r \in Answers(c, reps, n) : r.success

\* A node that is not marked as sent has nothing to do with the pending revision.
Unsent(c, q, reps) ==
  \A n \in Nodes \ c.transition.sent :
    /\ n \notin c.transition.confirmed
    /\ Answers(c, reps, n) = {}
    /\ \A i \in DOMAIN q[n] : q[n][i].revision # c.transition.revision

\* A call of the pending revision is the youngest of its node.
YoungestCall(c, q) ==
  \A n \in Nodes : \A i \in DOMAIN q[n] :
    q[n][i].revision = c.transition.revision =>
      i = Len(q[n]) /\ q[n][i].profile = c.transition.profile

\* A node that has answered has no call left, and does not answer both ways.
Served(c, q, reps) ==
  \A n \in Nodes :
    /\ n \in c.transition.confirmed \/ Answers(c, reps, n) # {} => q[n] = <<>>
    /\ Believed(c, reps, n) => \A r \in Answers(c, reps, n) : r.success

Calls(c, q, reps) ==
  /\ Numbered(c, q, reps) /\ Unsent(c, q, reps)
  /\ YoungestCall(c, q) /\ Served(c, q, reps)

Runs(c, reps, p) ==
  \A n \in Nodes : Believed(c, reps, n) => p[n] = c.transition.profile

-----------------------------------------------------------------------------
(* What a callback may do to the transition                                  *)

\* d has no transition, or the one of c with more calls sent, or a new one under
\* a number that nothing carries yet.
Goes(c, d) ==
  /\ d.revision >= c.revision
  /\ \/ d.transition = NoTransition
     \/ /\ d.transition.revision = c.transition.revision
        /\ d.transition.profile = c.transition.profile
        /\ d.transition.confirmed = c.transition.confirmed
        /\ c.transition.sent \subseteq d.transition.sent
        /\ c.transition.revision = 0 => d.transition = c.transition
     \/ /\ d.transition.revision > c.revision
        /\ d.transition.revision <= d.revision
        /\ d.transition.confirmed = {}

SameSwitch(c, d) == d.transition = c.transition /\ d.revision = c.revision

\* Leaving the transition alone is one such way, before or after another.
LEMMA SameGoes ==
  ASSUME NEW c \in Members, NEW k \in Members, SameSwitch(c, k)
  PROVE  /\ Goes(c, k)
         /\ \A d : Goes(k, d) => Goes(c, d)
<1>1. c.revision \in Nat /\ k.revision \in Nat
  BY DEF Members
<1> QED  BY <1>1 DEF SameSwitch, Goes

\* Two such steps are one.
LEMMA GoesOn ==
  ASSUME NEW c \in Members, NEW k \in Members, NEW d \in Members, Goes(c, k), Goes(k, d),
         c.transition.revision <= c.revision
  PROVE  Goes(c, d)
<1>1. /\ c.revision \in Nat /\ k.revision \in Nat /\ d.revision \in Nat
      /\ c.transition.revision \in Nat /\ k.transition.revision \in Nat
      /\ d.transition.revision \in Nat
  BY DEF Members, Transitions
<1>2. d.revision >= c.revision
  BY <1>1 DEF Goes
<1>3. CASE d.transition = NoTransition
  BY <1>2, <1>3 DEF Goes
<1>4. CASE /\ d.transition.revision > k.revision
           /\ d.transition.revision <= d.revision
           /\ d.transition.confirmed = {}
  BY <1>1, <1>2, <1>4 DEF Goes
<1>5. CASE /\ d.transition.revision = k.transition.revision
           /\ d.transition.profile = k.transition.profile
           /\ d.transition.confirmed = k.transition.confirmed
           /\ k.transition.sent \subseteq d.transition.sent
           /\ k.transition.revision = 0 => d.transition = k.transition
  <2>1. CASE k.transition = NoTransition
    BY <1>2, <1>5, <2>1 DEF Goes, NoTransition
  <2>2. CASE k.transition # NoTransition
    BY <1>1, <1>2, <1>5, <2>2 DEF Goes
  <2> QED  BY <2>1, <2>2
<1> QED  BY <1>3, <1>4, <1>5 DEF Goes

-----------------------------------------------------------------------------
(* Such a step keeps the invariant                                           *)

NewlySent(c, d) ==
  IF d.transition.revision = c.transition.revision
  THEN d.transition.sent \ c.transition.sent ELSE d.transition.sent

Posted(q, c, d) ==
  [n \in Nodes |->
     IF n \in NewlySent(c, d)
     THEN Append(q[n], [revision |-> d.transition.revision,
                        profile |-> d.transition.profile])
     ELSE q[n]]

\* What a callback sends, by the members it leaves.
LEMMA SendsPosted ==
  ASSUME NEW d, Sends(d)
  PROVE  requests' = Posted(requests, seq, d)
BY DEF Sends, Posted, NewlySent

\* What sending does to one queue: nothing, or one call of the pending revision
\* of d at its end.
LEMMA PostedQueue ==
  ASSUME NEW q \in [Nodes -> Seq(Requests)], NEW c \in Members, NEW d \in Members,
         NEW n \in Nodes
  PROVE  /\ n \notin NewlySent(c, d) => Posted(q, c, d)[n] = q[n]
         /\ n \in NewlySent(c, d) =>
              /\ Len(Posted(q, c, d)[n]) = Len(q[n]) + 1
              /\ \A i \in 1..Len(q[n]) : Posted(q, c, d)[n][i] = q[n][i]
              /\ Posted(q, c, d)[n][Len(q[n]) + 1].revision = d.transition.revision
              /\ Posted(q, c, d)[n][Len(q[n]) + 1].profile = d.transition.profile
<1> DEFINE call == [revision |-> d.transition.revision,
                    profile |-> d.transition.profile]
<1>1. Posted(q, c, d)[n] = IF n \in NewlySent(c, d) THEN Append(q[n], call) ELSE q[n]
  BY DEF Posted
<1>2. call \in Requests
  BY DEF Members, Transitions, Requests
<1>3. call.revision = d.transition.revision /\ call.profile = d.transition.profile
  OBVIOUS
<1> HIDE DEF call
<1>4. q[n] \in Seq(Requests)
  OBVIOUS
<1>5. /\ Len(Append(q[n], call)) = Len(q[n]) + 1
      /\ \A i \in 1..Len(q[n]) : Append(q[n], call)[i] = q[n][i]
      /\ Append(q[n], call)[Len(q[n]) + 1] = call
  BY <1>2, <1>4, AppendProperties
<1> QED  BY <1>1, <1>3, <1>5

\* Sending keeps the queues well formed.
LEMMA PostedType ==
  ASSUME NEW q \in [Nodes -> Seq(Requests)], NEW c \in Members, NEW d, Sound(d)
  PROVE  /\ Posted(q, c, d) \in [Nodes -> Seq(Requests)]
         /\ Real(q) => Real(Posted(q, c, d))
<1>0. d \in Members
  BY DEF Sound
<1> DEFINE call == [revision |-> d.transition.revision,
                    profile |-> d.transition.profile]
           p == Posted(q, c, d)
<1>1. call \in Requests
  BY <1>0 DEF Members, Transitions, Requests
<1> HIDE DEF call
<1>2. \A n \in Nodes : Append(q[n], call) \in Seq(Requests)
  BY <1>1, AppendProperties
<1>3. p \in [Nodes -> Seq(Requests)]
  <2>1. [n \in Nodes |-> IF n \in NewlySent(c, d) THEN Append(q[n], call) ELSE q[n]]
          \in [Nodes -> Seq(Requests)]
    BY <1>2
  <2> QED  BY <2>1 DEF Posted, call
<1>4. ASSUME Real(q), NEW n \in Nodes, NEW i \in DOMAIN p[n]
      PROVE  p[n][i].profile \in Profiles
  <2>1. CASE n \notin NewlySent(c, d)
    BY <1>0, <1>4, <2>1, PostedQueue DEF Real
  <2>2. CASE n \in NewlySent(c, d)
    <3>1. d.transition.profile \in Profiles
      <4>1. Pending(d)
        BY <2>2 DEF NewlySent, Sound, Progress, NoTransition
      <4> QED  BY <4>1 DEF Sound, Progress
    <3>2. /\ DOMAIN p[n] = 1..Len(p[n]) /\ DOMAIN q[n] = 1..Len(q[n])
          /\ Len(q[n]) \in Nat
      BY <1>3, LenProperties
    <3>3. /\ Len(p[n]) = Len(q[n]) + 1
          /\ \A k \in 1..Len(q[n]) : p[n][k] = q[n][k]
          /\ p[n][Len(q[n]) + 1].profile = d.transition.profile
      BY <1>0, <2>2, PostedQueue
    <3> HIDE DEF p
    <3>4. i \in 1..Len(q[n]) \/ i = Len(q[n]) + 1
      BY <3>2, <3>3
    <3> QED  BY <1>4, <3>1, <3>2, <3>3, <3>4 DEF Real
  <2> QED  BY <2>1, <2>2
<1> QED  BY <1>3, <1>4 DEF Real

\* A step that sends nothing leaves all queues as they are.
LEMMA PostedNothing ==
  ASSUME NEW q \in [Nodes -> Seq(Requests)], NEW c, NEW d, NewlySent(c, d) = {}
  PROVE  Posted(q, c, d) = q
<1>1. Posted(q, c, d) = [n \in Nodes |-> q[n]]
  BY DEF Posted
<1> QED  BY <1>1

\* The invariant survives giving a transition up ...
LEMMA GiveUpCalls ==
  ASSUME NEW c \in Members, NEW d \in Members, NEW q \in [Nodes -> Seq(Requests)],
         NEW reps \in SUBSET Replies, Calls(c, q, reps), Goes(c, d),
         d.transition = NoTransition
  PROVE  Calls(d, Posted(q, c, d), reps)
<1>1. /\ d.transition.revision = 0 /\ d.transition.sent = {}
      /\ d.transition.confirmed = {}
  BY DEF NoTransition
<1>2. Posted(q, c, d) = q
  <2>1. NewlySent(c, d) = {}
    BY <1>1 DEF NewlySent
  <2> QED  BY <2>1, PostedNothing
<1>3. c.revision \in Nat /\ d.revision \in Nat /\ d.revision >= c.revision
  BY DEF Members, Goes
<1>4. /\ \A n \in Nodes : \A i \in DOMAIN q[n] : q[n][i].revision \in 1..c.revision
      /\ \A r \in reps : r.revision \in 1..c.revision
  BY DEF Calls, Numbered
<1>5. Numbered(d, q, reps)
  <2>1. 1..c.revision \subseteq 1..d.revision
    BY <1>3
  <2> QED  BY <1>1, <1>3, <1>4, <2>1 DEF Numbered
<1>6. /\ \A n \in Nodes : Answers(d, reps, n) = {}
      /\ \A n \in Nodes : \A i \in DOMAIN q[n] :
           q[n][i].revision # d.transition.revision
  BY <1>1, <1>3, <1>4 DEF Answers
<1>7. Unsent(d, q, reps) /\ YoungestCall(d, q) /\ Served(d, q, reps)
  BY <1>1, <1>6 DEF Unsent, YoungestCall, Served, Believed
<1> QED  BY <1>2, <1>5, <1>7 DEF Calls

\* ... sending more calls of it ...
LEMMA SendCalls ==
  ASSUME NEW c \in Members, NEW d \in Members, Progress(d),
         NEW q \in [Nodes -> Seq(Requests)],
         NEW reps \in SUBSET Replies, Calls(c, q, reps), Goes(c, d),
         d.transition.revision = c.transition.revision,
         d.transition.profile = c.transition.profile,
         d.transition.confirmed = c.transition.confirmed,
         c.transition.sent \subseteq d.transition.sent,
         c.transition.revision = 0 => d.transition = c.transition
  PROVE  Calls(d, Posted(q, c, d), reps)
<1> DEFINE p == Posted(q, c, d)
<1>1. /\ c.revision \in Nat /\ d.revision \in Nat /\ d.revision >= c.revision
      /\ c.transition.revision \in Nat
  BY DEF Members, Transitions, Goes
<1>2. \A n \in Nodes : n \in NewlySent(c, d) =>
        n \in d.transition.sent /\ n \notin c.transition.sent
  BY DEF NewlySent
<1>3. ASSUME NEW n \in Nodes
      PROVE  /\ n \notin NewlySent(c, d) => p[n] = q[n]
             /\ n \in NewlySent(c, d) =>
                  /\ Len(p[n]) = Len(q[n]) + 1
                  /\ \A i \in 1..Len(q[n]) : p[n][i] = q[n][i]
                  /\ p[n][Len(q[n]) + 1].revision = d.transition.revision
                  /\ p[n][Len(q[n]) + 1].profile = d.transition.profile
  BY PostedQueue
<1>4. /\ p \in [Nodes -> Seq(Requests)]
      /\ \A n \in Nodes : Len(q[n]) \in Nat /\ DOMAIN q[n] = 1..Len(q[n])
      /\ \A n \in Nodes : Len(p[n]) \in Nat /\ DOMAIN p[n] = 1..Len(p[n])
  <2>1. p \in [Nodes -> Seq(Requests)]
    BY PostedType DEF Sound
  <2> QED  BY <2>1, LenProperties
<1> HIDE DEF p
<1>5. Numbered(d, p, reps)
  <2>1. ASSUME NEW n \in Nodes, NEW i \in DOMAIN p[n]
        PROVE  p[n][i].revision \in 1..d.revision
    <3>1. CASE n \notin NewlySent(c, d)
      BY <1>1, <1>3, <3>1 DEF Calls, Numbered
    <3>2. CASE n \in NewlySent(c, d)
      <4>1. c.transition.revision \in 1..d.revision
        <5>1. c.transition.revision # 0
          BY <1>2, <3>2
        <5> QED  BY <1>1, <5>1 DEF Calls, Numbered
      <4>2. i \in 1..Len(q[n]) \/ i = Len(q[n]) + 1
        BY <1>3, <1>4, <3>2
      <4>3. CASE i \in 1..Len(q[n])
        <5>1. p[n][i] = q[n][i] /\ i \in DOMAIN q[n]
          BY <1>3, <1>4, <3>2, <4>3
        <5> QED  BY <1>1, <5>1 DEF Calls, Numbered
      <4>4. CASE i = Len(q[n]) + 1
        BY <1>3, <3>2, <4>1, <4>4
      <4> QED  BY <4>2, <4>3, <4>4
    <3> QED  BY <3>1, <3>2
  <2> QED  BY <1>1, <2>1 DEF Calls, Numbered
<1>6. \A n \in Nodes : Answers(d, reps, n) = Answers(c, reps, n)
  BY DEF Answers
<1>7. Unsent(d, p, reps)
  BY <1>2, <1>3, <1>6 DEF Calls, Unsent, NewlySent
<1>8. YoungestCall(d, p)
  <2> SUFFICES ASSUME NEW n \in Nodes, NEW i \in DOMAIN p[n],
                      p[n][i].revision = d.transition.revision
               PROVE  i = Len(p[n]) /\ p[n][i].profile = d.transition.profile
    BY DEF YoungestCall
  <2>1. CASE n \notin NewlySent(c, d)
    BY <1>3, <2>1 DEF Calls, YoungestCall
  <2>2. CASE n \in NewlySent(c, d)
    <3>1. i \notin 1..Len(q[n])
      <4>1. \A j \in DOMAIN q[n] : q[n][j].revision # c.transition.revision
        BY <1>2, <2>2 DEF Calls, Unsent
      <4> QED  BY <1>3, <1>4, <2>2, <4>1
    <3>2. i = Len(q[n]) + 1
      BY <1>3, <1>4, <2>2, <3>1
    <3> QED  BY <1>3, <2>2, <3>2
  <2> QED  BY <2>1, <2>2
<1>9. Served(d, p, reps)
  <2>1. \A n \in Nodes : n \in c.transition.confirmed \/ Answers(c, reps, n) # {}
          => n \notin NewlySent(c, d)
    BY <1>2 DEF Calls, Unsent
  <2>2. \A n \in Nodes : Believed(d, reps, n) <=> Believed(c, reps, n)
    BY <1>6 DEF Believed
  <2> QED  BY <1>3, <1>6, <2>1, <2>2 DEF Calls, Served
<1> QED  BY <1>5, <1>7, <1>8, <1>9 DEF Calls, p

\* ... and starting a new one, whose number nothing carries yet.
LEMMA StartCalls ==
  ASSUME NEW c \in Members, NEW d \in Members, Progress(d),
         NEW q \in [Nodes -> Seq(Requests)],
         NEW reps \in SUBSET Replies, Calls(c, q, reps), Goes(c, d),
         d.transition.revision > c.revision,
         d.transition.revision <= d.revision,
         d.transition.confirmed = {}
  PROVE  Calls(d, Posted(q, c, d), reps)
<1> DEFINE p == Posted(q, c, d)
<1>1. /\ c.revision \in Nat /\ d.revision \in Nat /\ d.revision >= c.revision
      /\ c.transition.revision \in Nat /\ d.transition.revision \in Nat
      /\ d.transition.revision > c.transition.revision
  <2>1. /\ c.revision \in Nat /\ d.revision \in Nat
        /\ c.transition.revision \in Nat /\ d.transition.revision \in Nat
    BY DEF Members, Transitions
  <2>2. d.revision >= c.revision /\ c.transition.revision <= c.revision
    BY DEF Goes, Calls, Numbered
  <2> QED  BY <2>1, <2>2
<1>2. NewlySent(c, d) = d.transition.sent
  BY <1>1 DEF NewlySent
<1>3. ASSUME NEW n \in Nodes
      PROVE  /\ n \notin d.transition.sent => p[n] = q[n]
             /\ n \in d.transition.sent =>
                  /\ Len(p[n]) = Len(q[n]) + 1
                  /\ \A i \in 1..Len(q[n]) : p[n][i] = q[n][i]
                  /\ p[n][Len(q[n]) + 1].revision = d.transition.revision
                  /\ p[n][Len(q[n]) + 1].profile = d.transition.profile
  <2>1. n \in NewlySent(c, d) <=> n \in d.transition.sent
    BY <1>2
  <2>2. /\ n \notin NewlySent(c, d) => p[n] = q[n]
        /\ n \in NewlySent(c, d) =>
             /\ Len(p[n]) = Len(q[n]) + 1
             /\ \A i \in 1..Len(q[n]) : p[n][i] = q[n][i]
             /\ p[n][Len(q[n]) + 1].revision = d.transition.revision
             /\ p[n][Len(q[n]) + 1].profile = d.transition.profile
    BY PostedQueue
  <2> HIDE DEF p
  <2> QED  BY <2>1, <2>2
<1>4. /\ \A n \in Nodes : Len(q[n]) \in Nat /\ DOMAIN q[n] = 1..Len(q[n])
      /\ \A n \in Nodes : Len(p[n]) \in Nat /\ DOMAIN p[n] = 1..Len(p[n])
  <2>1. p \in [Nodes -> Seq(Requests)]
    BY PostedType DEF Sound
  <2> QED  BY <2>1, LenProperties
<1> HIDE DEF p
<1>5. /\ \A n \in Nodes : \A i \in DOMAIN q[n] : q[n][i].revision \in 1..c.revision
      /\ \A r \in reps : r.revision \in 1..c.revision
  BY DEF Calls, Numbered
<1>6. ASSUME NEW n \in Nodes, NEW i \in DOMAIN p[n]
      PROVE  \/ p[n][i].revision \in 1..c.revision
             \/ /\ i = Len(p[n]) /\ n \in d.transition.sent
                /\ p[n][i].revision = d.transition.revision
                /\ p[n][i].profile = d.transition.profile
  <2>1. CASE n \notin d.transition.sent
    BY <1>3, <1>5, <2>1
  <2>2. CASE n \in d.transition.sent
    <3>1. i \in 1..Len(q[n]) \/ i = Len(q[n]) + 1
      BY <1>3, <1>4, <2>2
    <3>2. CASE i \in 1..Len(q[n])
      <4>1. p[n][i] = q[n][i] /\ i \in DOMAIN q[n]
        BY <1>3, <1>4, <2>2, <3>2
      <4> QED  BY <1>5, <4>1
    <3>3. CASE i = Len(q[n]) + 1
      BY <1>3, <2>2, <3>3
    <3> QED  BY <3>1, <3>2, <3>3
  <2> QED  BY <2>1, <2>2
<1>7. Numbered(d, p, reps)
  <2>1. /\ 1..c.revision \subseteq 1..d.revision
        /\ d.transition.revision \in 1..d.revision
    BY <1>1
  <2> QED  BY <1>1, <1>5, <1>6, <2>1 DEF Numbered
<1>8. \A n \in Nodes : Answers(d, reps, n) = {}
  BY <1>1, <1>5 DEF Answers
<1>9. \A n \in Nodes : \A i \in DOMAIN p[n] :
        p[n][i].revision = d.transition.revision =>
          /\ i = Len(p[n]) /\ n \in d.transition.sent
          /\ p[n][i].profile = d.transition.profile
  BY <1>1, <1>6
<1>10. Unsent(d, p, reps) /\ YoungestCall(d, p) /\ Served(d, p, reps)
  BY <1>8, <1>9 DEF Unsent, YoungestCall, Served, Believed
<1> QED  BY <1>7, <1>10 DEF Calls, p

\* Together: whatever a callback does to the transition and sends.
LEMMA GoesCalls ==
  ASSUME NEW c \in Members, NEW d \in Members, Progress(d),
         NEW q \in [Nodes -> Seq(Requests)],
         NEW reps \in SUBSET Replies, Calls(c, q, reps), Goes(c, d)
  PROVE  /\ Calls(d, Posted(q, c, d), reps)
         /\ \A p : Runs(c, reps, p) => Runs(d, reps, p)
<1>1. Calls(d, Posted(q, c, d), reps)
  BY GiveUpCalls, SendCalls, StartCalls DEF Goes
<1>2. \A r \in reps : r.revision \in 1..c.revision
  BY DEF Calls, Numbered
<1>3. \A n \in Nodes : Believed(d, reps, n) =>
        Believed(c, reps, n) /\ d.transition.profile = c.transition.profile
  <2>1. c.revision \in Nat
    BY DEF Members
  <2>2. CASE d.transition = NoTransition \/ d.transition.revision > c.revision
    <3>1. d.transition.confirmed = {} /\ d.transition.revision \notin 1..c.revision
      <4>1. CASE d.transition = NoTransition
        BY <2>1, <4>1 DEF NoTransition
      <4>2. CASE d.transition # NoTransition /\ d.transition.revision > c.revision
        <5>1. c.transition.revision <= c.revision /\ c.transition.revision \in Nat
              /\ d.transition.revision \in Nat
          BY DEF Calls, Numbered, Members, Transitions
        <5> QED  BY <2>1, <4>2, <5>1 DEF Goes
      <4> QED  BY <2>2, <4>1, <4>2
    <3> QED  BY <1>2, <3>1 DEF Believed, Answers
  <2>3. CASE ~ (d.transition = NoTransition \/ d.transition.revision > c.revision)
    BY <2>3 DEF Goes, Believed, Answers
  <2> QED  BY <2>2, <2>3
<1>4. \A p : Runs(c, reps, p) => Runs(d, reps, p)
  BY <1>3 DEF Runs
<1> QED  BY <1>1, <1>4

-----------------------------------------------------------------------------
(* The window and the profile it runs under                                  *)

Quiet(q) == \A n \in Nodes : q[n] = <<>>

\* A profile counts as applied only once no call is under way that could change
\* it, and so does the profile a window was exposed for.
Held(c, q, p) ==
  /\ ~ Pending(c) /\ c.applied # "none" =>
       Quiet(q) /\ \A n \in Nodes : p[n] = c.applied
  /\ c.segment # NoSegment =>
       /\ Quiet(q) /\ \A n \in Nodes : p[n] = c.segment.needs
       /\ c.applied \in {"none", c.segment.needs}

\* What is known to be applied when a callback starts: the applied profile, or the
\* one of a transition that every node has confirmed.
Known(c, profile) ==
  /\ profile # "none"
  /\ IF Pending(c) THEN c.transition.confirmed = Nodes /\ profile = c.transition.profile
     ELSE profile = c.applied

\* A callback keeps the window, withdraws it, or exposes one for what is applied;
\* and it counts as applied only what is known to be.
Keeps(c, d) ==
  /\ d.segment # NoSegment =>
       \/ d.segment = c.segment /\ ~ Pending(c) /\ d.applied = c.applied
       \/ d.segment.needs = d.applied /\ d.applied # "none"
  /\ ~ Pending(d) /\ d.applied # "none" => Known(c, d.applied)

\* The route that was received is the same.
SameRoute(c, d) ==
  /\ d.received = c.received /\ d.signature = c.signature
  /\ d.types = c.types /\ d.flags = c.flags

\* Two records that do not differ in what Keeps is about.
Alike(c, k) ==
  /\ k.segment = c.segment /\ k.applied = c.applied
  /\ k.transition.revision = c.transition.revision
  /\ k.transition.profile = c.transition.profile
  /\ k.transition.confirmed = c.transition.confirmed

\* What holds of a record that is alike holds of the record.
LEMMA AlikeKeeps ==
  ASSUME NEW c, NEW k, NEW d, Alike(c, k), Keeps(k, d)
  PROVE  Keeps(c, d)
BY DEF Alike, Keeps, Known, Pending

\* Two methods after one another, when the first leaves nothing pending.
LEMMA KeepsOn ==
  ASSUME NEW c, NEW k, NEW d, Keeps(c, k), Keeps(k, d), ~ Pending(k)
  PROVE  Keeps(c, d)
BY DEF Keeps, Known

\* Doing nothing is such a method.
LEMMA KeepsSame ==
  ASSUME NEW c, Progress(c)
  PROVE  Keeps(c, c)
BY DEF Keeps, Known, Progress

\* Such a callback keeps what is exposed under its profile.
LEMMA KeepsHeld ==
  ASSUME NEW c \in Members, NEW d \in Members, Progress(c), Progress(d),
         NEW q \in [Nodes -> Seq(Requests)], NEW reps \in SUBSET Replies, NEW p,
         Calls(c, q, reps), Runs(c, reps, p), Held(c, q, p), Keeps(c, d)
  PROVE  Held(d, Posted(q, c, d), p)
<1>1. ASSUME ~ Pending(d)
      PROVE  Posted(q, c, d) = q
  <2>1. NewlySent(c, d) = {}
    BY <1>1 DEF Progress, NoTransition, NewlySent
  <2> QED  BY <2>1, PostedNothing
<1>2. ASSUME NEW profile, Known(c, profile)
      PROVE  Quiet(q) /\ \A n \in Nodes : p[n] = profile
  <2>1. CASE Pending(c)
    <3>1. \A n \in Nodes : n \in c.transition.confirmed
      BY <1>2, <2>1 DEF Known
    <3> QED  BY <1>2, <2>1, <3>1 DEF Known, Calls, Served, Runs, Believed, Quiet
  <2>2. CASE ~ Pending(c)
    BY <1>2, <2>2 DEF Known, Held
  <2> QED  BY <2>1, <2>2
<1>3. ASSUME ~ Pending(d), d.applied # "none"
      PROVE  Quiet(q) /\ \A n \in Nodes : p[n] = d.applied
  BY <1>2, <1>3 DEF Keeps
<1>4. ASSUME d.segment # NoSegment
      PROVE  /\ ~ Pending(d) /\ Quiet(q)
             /\ \A n \in Nodes : p[n] = d.segment.needs
             /\ d.applied \in {"none", d.segment.needs}
  <2>1. ~ Pending(d)
    BY <1>4 DEF Progress
  <2>2. CASE d.segment = c.segment /\ d.applied = c.applied
    BY <1>4, <2>1, <2>2 DEF Held
  <2>3. CASE d.segment.needs = d.applied /\ d.applied # "none"
    BY <1>3, <2>1, <2>3
  <2> QED  BY <1>4, <2>2, <2>3 DEF Keeps
<1> QED  BY <1>1, <1>3, <1>4 DEF Held

-----------------------------------------------------------------------------
(* What the methods do                                                       *)

\* The updates of the members that take and drop goals keep the types.
LEMMA GoalTypes ==
  ASSUME NEW s \in Members, NEW goal \in Int
  PROVE  [s EXCEPT !.goal = goal] \in Members
BY DEF Members

LEMMA WayTypes ==
  ASSUME NEW s \in Members, NEW way \in Seq(Nat), NEW place \in Nat \ {0},
         NEW b \in BOOLEAN
  PROVE  [s EXCEPT !.sequence = way, !.position = place, !.complete = b,
                   !.floor = place] \in Members
BY DEF Members

LEMMA WithdrawTypes ==
  ASSUME NEW s \in Members, NEW g \in Segments
  PROVE  [s EXCEPT !.segment = g] \in Members
BY DEF Members

\* The floor of the search stays inside the stretch already driven.
LEMMA FloorType ==
  ASSUME NEW s, Sound(s), HasProgress(s), NEW x \in Int
  PROVE  /\ Sound(WithFloor(s, x))
         /\ \E f : WithFloor(s, x) = [s EXCEPT !.floor = f]
<1>1. /\ s.sequence \in Seq(Nat) /\ s.position \in Nat \ {0} /\ s.floor \in Nat \ {0}
      /\ s \in Members /\ Progress(s)
  BY DEF Sound, Members
<1>2. s.position \in DOMAIN s.sequence /\ s.floor \in 1 .. s.position
  BY DEF Sound, Progress
<1> DEFINE low == IF s.floor < s.position THEN s.floor ELSE s.position
           at == [i \in low .. s.position |-> s.sequence[i]]
           f == nearestTarget(x, at)
<1>3. low \in Nat \ {0} /\ low <= s.position
  BY <1>1
<1>4. \A i \in low .. s.position : s.sequence[i] \in Int
  <2>1. DOMAIN s.sequence = 1 .. Len(s.sequence) /\ Len(s.sequence) \in Nat
    BY <1>1, LenProperties
  <2>2. \A i \in low .. s.position : i \in DOMAIN s.sequence
    BY <1>2, <1>3, <2>1
  <2>3. \A i \in DOMAIN s.sequence : s.sequence[i] \in Nat
    BY <1>1, ElementOfSeq, <2>1
  <2> QED  BY <2>2, <2>3
<1> HIDE DEF low
<1>5. f \in low .. s.position
  <2>1. at \in [low .. s.position -> Int]
    BY <1>4
  <2> HIDE DEF at
  <2> QED  BY <1>1, <1>3, <2>1, NearestType
<1>6. WithFloor(s, x) = IF s.position = 1 THEN s ELSE [s EXCEPT !.floor = f]
  BY DEF WithFloor, low
<1> HIDE DEF f
<1>7. f \in 1 .. s.position /\ f \in Nat \ {0}
  BY <1>1, <1>3, <1>5
<1> DEFINE d == [s EXCEPT !.floor = f]
<1>8. d \in Members
  BY <1>1, <1>7 DEF Members
<1>9. Progress(d)
  <2>1. /\ d.sequence = s.sequence /\ d.position = s.position /\ d.floor = f
        /\ d.complete = s.complete /\ d.transition = s.transition
        /\ d.segment = s.segment /\ d.signature = s.signature
    BY <1>1 DEF Members
  <2> HIDE DEF d
  <2> QED  BY <1>1, <1>7, <2>1 DEF Progress, HasProgress, Pending, TargetCount
<1>10. s = [s EXCEPT !.floor = s.floor]
  BY <1>1 DEF Members
<1> QED  BY <1>6, <1>8, <1>9, <1>10 DEF Sound

\* What the window of the planner starts from: progress, no transition.
Free(s) == Sound(s) /\ HasProgress(s) /\ ~ s.complete /\ ~ Pending(s)

\* Asking for a window exposes it, or starts the transition it needs.
LEMMA WindowStep ==
  ASSUME NEW s, Free(s), NEW x \in Int, NEW up \in SUBSET Nodes
  PROVE  LET d == requestPlannerWindow(s, x, up)
         IN /\ Sound(d) /\ HasProgress(d) /\ SameRoute(s, d)
            /\ Goes(s, d) /\ Keeps(s, d)
<1> DEFINE w == WithFloor(s, x)
           desired == ProfileOfWindow(w, w.flags)
<1>1. Sound(w) /\ \E f : w = [s EXCEPT !.floor = f]
  BY FloorType DEF Free
<1>2. s \in Members /\ Progress(s) /\ w \in Members /\ Progress(w)
  BY <1>1 DEF Free, Sound
<1>3. /\ w.sequence = s.sequence /\ w.complete = s.complete
      /\ w.transition = s.transition /\ w.revision = s.revision
      /\ w.segment = s.segment /\ w.applied = s.applied
      /\ w.position = s.position /\ w.signature = s.signature
      /\ SameRoute(s, w)
  BY <1>1, <1>2 DEF Members, SameRoute
<1>4. desired \in Profiles
  BY DEF ProfileOfWindow, Profiles
<1>5. requestPlannerWindow(s, x, up) =
        IF w.applied = desired THEN publishPlannerWindow(w)
        ELSE [w EXCEPT !.segment = NoSegment,
                       !.revision = @ + 1,
                       !.transition = [revision |-> w.revision + 1,
                                       profile |-> desired,
                                       sent |-> up, confirmed |-> {}]]
  BY DEF requestPlannerWindow
<1>6. /\ HasProgress(w) /\ ~ Pending(w) /\ ~ w.complete /\ w.revision \in Nat
      /\ w.transition = NoTransition
  BY <1>2, <1>3 DEF Free, HasProgress, Pending, Members, Progress
<1>7. ASSUME w.applied = desired
      PROVE  LET d == publishPlannerWindow(w)
             IN /\ Sound(d) /\ HasProgress(d) /\ SameRoute(s, d)
                /\ Goes(s, d) /\ Keeps(s, d)
  <2> DEFINE g == [publication |-> w.signature, first |-> w.sequence[WindowStart(w)],
                   last |-> Required(w), needs |-> desired]
             d == [w EXCEPT !.segment = g]
  <2>1. publishPlannerWindow(w) = d
    BY DEF publishPlannerWindow
  <2>2. g \in Segments
    <3>1. w.position \in DOMAIN w.sequence /\ w.floor \in 1 .. w.position
      BY <1>2, <1>6 DEF Progress
    <3>2. w.sequence \in Seq(Nat) /\ w.signature \in Nat /\ w.position \in Nat
      BY <1>2 DEF Members
    <3>3. DOMAIN w.sequence = 1 .. Len(w.sequence) /\ Len(w.sequence) \in Nat
      BY <3>2, LenProperties
    <3>4. WindowStart(w) \in 1 .. w.position
      BY <3>1, <3>2 DEF WindowStart
    <3>5. WindowStart(w) \in DOMAIN w.sequence
      BY <3>1, <3>2, <3>3, <3>4
    <3>6. \A i \in DOMAIN w.sequence : w.sequence[i] \in Nat
      BY <3>2, <3>3, ElementOfSeq
    <3>7. w.sequence[WindowStart(w)] \in Nat /\ Required(w) \in Nat
      BY <3>1, <3>5, <3>6 DEF Required
    <3> HIDE DEF desired
    <3> QED  BY <1>4, <3>2, <3>7 DEF Segments
  <2>3. g.needs = desired
    OBVIOUS
  <2> HIDE DEF g, w, desired
  <2>4. /\ d \in Members /\ d.segment = g /\ d.sequence = w.sequence
        /\ d.position = w.position /\ d.floor = w.floor /\ d.complete = w.complete
        /\ d.transition = w.transition /\ d.signature = w.signature
        /\ d.revision = w.revision /\ d.applied = w.applied
        /\ SameRoute(w, d)
    BY <1>2, <2>2 DEF Members, SameRoute
  <2> HIDE DEF d
  <2>5. Progress(d)
    BY <1>2, <1>4, <1>6, <2>3, <2>4 DEF Progress, HasProgress, Pending, TargetCount
  <2>6. Goes(s, d)
    BY <1>2, <1>3, <1>6, <2>4 DEF Goes
  <2>7. Keeps(s, d)
    <3>1. d.applied # "none" /\ d.segment.needs = d.applied
      BY <1>4, <1>7, <2>3, <2>4 DEF Profiles
    <3> QED  BY <1>3, <2>4, <3>1 DEF Keeps, Known, Free
  <2> QED  BY <1>3, <1>6, <2>1, <2>4, <2>5, <2>6, <2>7
           DEF Sound, HasProgress, SameRoute
<1>8. ASSUME w.applied # desired
      PROVE  LET d == [w EXCEPT !.segment = NoSegment,
                       !.revision = @ + 1,
                       !.transition = [revision |-> w.revision + 1,
                                       profile |-> desired,
                                       sent |-> up, confirmed |-> {}]]
             IN /\ Sound(d) /\ HasProgress(d) /\ SameRoute(s, d)
                /\ Goes(s, d) /\ Keeps(s, d)
  <2> DEFINE tr == [revision |-> w.revision + 1, profile |-> desired,
                    sent |-> up, confirmed |-> {}]
             d == [w EXCEPT !.segment = NoSegment, !.revision = w.revision + 1,
                            !.transition = tr]
  <2> HIDE DEF w, desired
  <2>1. tr \in Transitions /\ tr.revision = w.revision + 1 /\ tr.profile = desired
        /\ tr.confirmed = {}
    BY <1>4, <1>6 DEF Transitions
  <2>2. NoSegment \in Segments
    BY DEF NoSegment, Segments
  <2> HIDE DEF tr
  <2>3. /\ d \in Members /\ d.segment = NoSegment /\ d.sequence = w.sequence
        /\ d.position = w.position /\ d.floor = w.floor /\ d.complete = w.complete
        /\ d.transition = tr /\ d.signature = w.signature
        /\ d.revision = w.revision + 1 /\ d.applied = w.applied
        /\ SameRoute(w, d)
    <3>1. w.revision + 1 \in Nat /\ w \in Members
      BY <1>2, <1>6
    <3>2. d \in Members
      BY <2>1, <2>2, <3>1 DEF Members
    <3> QED  BY <3>1, <3>2 DEF Members, SameRoute
  <2>4. d = [w EXCEPT !.segment = NoSegment,
                       !.revision = @ + 1,
                       !.transition = [revision |-> w.revision + 1,
                                       profile |-> desired,
                                       sent |-> up, confirmed |-> {}]]
    BY DEF tr
  <2> HIDE DEF d
  <2>5. Pending(d)
    BY <1>6, <2>1, <2>3 DEF Pending
  <2>6. Progress(d)
    BY <1>2, <1>4, <1>6, <2>1, <2>3, <2>5 DEF Progress, HasProgress, TargetCount
  <2>7. Goes(s, d)
    BY <1>2, <1>3, <1>6, <2>1, <2>3 DEF Goes
  <2>8. Keeps(s, d)
    BY <2>3, <2>5 DEF Keeps
  <2>9. Sound(d) /\ HasProgress(d) /\ SameRoute(s, d)
    BY <1>3, <1>6, <2>3, <2>6 DEF Sound, HasProgress, SameRoute
  <2> QED  BY <2>4, <2>7, <2>8, <2>9
<1> QED  BY <1>5, <1>7, <1>8

\* A complete transition becomes the applied profile, and a window follows.
LEMMA FinishStep ==
  ASSUME NEW s, Sound(s), NEW up \in SUBSET Nodes
  PROVE  LET d == finishProfileTransitionIfReady(s, up)
         IN Sound(d) /\ SameRoute(s, d) /\ Goes(s, d) /\ Keeps(s, d)
<1> DEFINE ready == Pending(s) /\ s.transition.confirmed = Nodes /\ s.located # Nowhere
           k == [s EXCEPT !.applied = s.transition.profile,
                          !.transition = NoTransition]
           d == requestPlannerWindow(k, s.located, up)
<1>1. s \in Members /\ Progress(s) /\ s.located \in Int
  BY DEF Sound, Members
<1>2. finishProfileTransitionIfReady(s, up) = IF ready THEN d ELSE s
  BY DEF finishProfileTransitionIfReady, FinishTransition
<1>3. Goes(s, s) /\ SameRoute(s, s)
  <2>1. s.revision \in Nat
    BY <1>1 DEF Members
  <2> QED  BY <2>1 DEF Goes, SameRoute
<1>4. CASE ~ ready
  <2>1. Keeps(s, s)
    BY <1>1, KeepsSame
  <2> QED  BY <1>2, <1>3, <1>4, <2>1
<1>5. CASE ready
  <2>1. s.transition.profile \in Profiles /\ s.transition \in Transitions
    BY <1>1, <1>5 DEF Progress, Members
  <2>2. /\ k \in Members /\ k.transition = NoTransition
        /\ k.applied = s.transition.profile /\ k.revision = s.revision
        /\ k.segment = s.segment /\ k.sequence = s.sequence
        /\ k.position = s.position /\ k.floor = s.floor
        /\ k.complete = s.complete /\ k.signature = s.signature
        /\ SameRoute(s, k)
    <3>1. NoTransition \in Transitions
      BY DEF NoTransition, Transitions
    <3> QED  BY <1>1, <2>1, <3>1 DEF Members, SameRoute
  <2> HIDE DEF k
  <2>3. ~ Pending(k)
    BY <2>2 DEF Pending, NoTransition
  <2>4. Free(k)
    BY <1>1, <1>5, <2>2, <2>3
       DEF Free, Sound, Progress, HasProgress, TargetCount
  <2>5. Goes(s, k)
    BY <1>1, <2>2 DEF Goes, Members
  <2>6. Keeps(s, k)
    <3>1. s.segment = NoSegment
      BY <1>1, <1>5 DEF Progress
    <3>2. Known(s, k.applied)
      BY <1>5, <2>1, <2>2 DEF Known, Profiles
    <3> QED  BY <2>2, <3>1, <3>2 DEF Keeps
  <2>7. Sound(d) /\ SameRoute(k, d) /\ Goes(k, d) /\ Keeps(k, d)
    BY <1>1, <2>4, WindowStep
  <2> HIDE DEF d
  <2>8. Keeps(s, d)
    BY <2>3, <2>6, <2>7, KeepsOn
  <2>9. Goes(s, d)
    <3>1. d \in Members
      BY <2>7 DEF Sound
    <3>2. s.revision \in Nat /\ k.revision = s.revision
          /\ k.transition = NoTransition
      BY <1>1, <2>2 DEF Members
    <3> QED  BY <2>7, <3>1, <3>2 DEF Goes, NoTransition
  <2>10. SameRoute(s, d)
    BY <2>2, <2>7 DEF SameRoute
  <2> QED  BY <1>2, <1>5, <2>7, <2>8, <2>9, <2>10
<1> QED  BY <1>4, <1>5

\* Reaching a target moves the required one on, or completes the goal.
LEMMA AdvanceStep ==
  ASSUME NEW s, Sound(s), HasProgress(s), ~ Pending(s), NEW x \in Int,
         NEW up \in SUBSET Nodes
  PROVE  LET d == advanceProgress(s, x, up)
         IN Sound(d) /\ SameRoute(s, d) /\ Goes(s, d) /\ Keeps(s, d)
<1>1. s \in Members /\ Progress(s) /\ s.revision \in Nat
  BY DEF Sound, Members
<1>2. SameRoute(s, s) /\ Goes(s, s) /\ Keeps(s, s)
  BY <1>1, KeepsSame DEF Goes, SameRoute
<1> DEFINE e == [s EXCEPT !.complete = TRUE, !.segment = NoSegment]
           k == [s EXCEPT !.position = s.position + 1]
<1>3. /\ e \in Members /\ e.transition = s.transition /\ e.revision = s.revision
      /\ e.segment = NoSegment /\ e.applied = s.applied /\ e.sequence = s.sequence
      /\ e.position = s.position /\ e.floor = s.floor /\ e.signature = s.signature
      /\ SameRoute(s, e)
  <2>1. NoSegment \in Segments
    BY DEF NoSegment, Segments
  <2> QED  BY <1>1, <2>1 DEF Members, SameRoute
<1> HIDE DEF e
<1>4. Sound(e) /\ Goes(s, e) /\ Keeps(s, e)
  <2>1. Progress(e)
    BY <1>1, <1>3 DEF Progress, Pending, HasProgress, TargetCount
  <2>2. Goes(s, e)
    BY <1>1, <1>3 DEF Goes
  <2>3. Keeps(s, e)
    BY <1>3 DEF Keeps, Known, Pending
  <2> QED  BY <1>3, <2>1, <2>2, <2>3 DEF Sound
<1>5. ASSUME ~ s.complete, ~ RequiredIsGoal(s)
      PROVE  LET d == requestPlannerWindow(k, x, up)
             IN Sound(d) /\ SameRoute(s, d) /\ Goes(s, d) /\ Keeps(s, d)
  <2>1. /\ s.sequence \in Seq(Nat) /\ s.position \in Nat \ {0}
        /\ s.position \in DOMAIN s.sequence /\ s.floor \in 1 .. s.position
    BY <1>1 DEF Members, Progress
  <2>2. s.position + 1 \in DOMAIN s.sequence
    BY <1>5, <2>1, LenProperties DEF RequiredIsGoal
  <2>3. /\ k \in Members /\ k.transition = s.transition /\ k.revision = s.revision
        /\ k.segment = s.segment /\ k.applied = s.applied /\ k.sequence = s.sequence
        /\ k.position = s.position + 1 /\ k.floor = s.floor
        /\ k.signature = s.signature /\ k.complete = s.complete
        /\ SameRoute(s, k)
    <3>1. s.position + 1 \in Nat \ {0}
      BY <2>1
    <3>2. k \in Members
      BY <1>1, <3>1 DEF Members
    <3> QED  BY <1>1, <3>2 DEF Members, SameRoute
  <2> HIDE DEF k
  <2>4. Free(k)
    <3>1. s.floor \in 1 .. s.position + 1
      BY <2>1
    <3> QED  BY <1>1, <1>5, <2>2, <2>3, <3>1
             DEF Free, Sound, Progress, Pending, HasProgress, TargetCount
  <2> DEFINE d == requestPlannerWindow(k, x, up)
  <2>5. Sound(d) /\ SameRoute(k, d) /\ Goes(k, d) /\ Keeps(k, d)
    BY <2>4, WindowStep
  <2> HIDE DEF d
  <2>6. Goes(s, d)
    BY <2>3, <2>5 DEF Goes
  <2>7. Keeps(s, d)
    BY <2>3, <2>5, AlikeKeeps DEF Alike
  <2>8. SameRoute(s, d)
    BY <2>3, <2>5 DEF SameRoute
  <2> QED  BY <2>5, <2>6, <2>7, <2>8 DEF d
<1>6. advanceProgress(s, x, up) =
        IF s.complete \/ ~ Reached(s, x) THEN s
        ELSE IF RequiredIsGoal(s) THEN e ELSE requestPlannerWindow(k, x, up)
  BY DEF advanceProgress, e
<1> HIDE DEF k
<1> QED  BY <1>2, <1>3, <1>4, <1>5, <1>6

\* A pending goal is dropped, refused, or taken with the way to it.
LEMMA GoalStep ==
  ASSUME NEW s, Sound(s), ~ Pending(s), NEW up \in SUBSET Nodes,
         TargetCount(s) \in Nat
  PROVE  LET d == tryActivatePendingGoal(s, up)
         IN Sound(d) /\ SameRoute(s, d) /\ Goes(s, d) /\ Keeps(s, d)
<1> DEFINE x == s.located
           near == nearestTarget(x, [i \in 1 .. TargetCount(s) |-> i])
           c == [s EXCEPT !.goal = 0]
           a == AcceptGoal(c, near, s.goal)
           w == requestPlannerWindow(a, x, up)
<1>1. s \in Members /\ Progress(s) /\ x \in Int /\ s.revision \in Nat
  BY DEF Sound, Members
<1>2. /\ c \in Members /\ c.transition = s.transition /\ c.revision = s.revision
      /\ c.segment = s.segment /\ c.applied = s.applied /\ c.sequence = s.sequence
      /\ c.position = s.position /\ c.floor = s.floor /\ c.signature = s.signature
      /\ c.complete = s.complete /\ SameRoute(s, c)
  <2>1. c \in Members
    <3>1. 0 \in Int
      OBVIOUS
    <3> QED  BY <1>1, <3>1, GoalTypes
  <2> QED  BY <1>1, <2>1 DEF Members, SameRoute
<1> HIDE DEF c, x
<1>3. Sound(c) /\ Goes(s, c) /\ Keeps(s, c) /\ ~ Pending(c)
  <2>1. Progress(c) /\ ~ Pending(c)
    BY <1>1, <1>2 DEF Progress, Pending, HasProgress, TargetCount
  <2>2. Goes(s, c)
    BY <1>1, <1>2 DEF Goes
  <2>3. Keeps(c, c) /\ Alike(s, c)
    BY <1>2, <2>1, KeepsSame DEF Alike
  <2> QED  BY <1>2, <2>1, <2>2, <2>3, AlikeKeeps DEF Sound
<1>4. LET d == RejectTooFar(c) IN Sound(d) /\ SameRoute(s, d) /\ Goes(s, d) /\ Keeps(s, d)
  <2> DEFINE d == RejectTooFar(c)
  <2>1. /\ d \in Members /\ d.transition = c.transition /\ d.revision = c.revision
        /\ d.segment = NoSegment /\ d.applied = c.applied /\ d.sequence = <<>>
        /\ d.position = 1 /\ d.floor = 1 /\ d.complete = FALSE
        /\ d.signature = c.signature /\ SameRoute(c, d)
    <3>1. NoSegment \in Segments /\ <<>> \in Seq(Nat)
      BY DEF NoSegment, Segments
    <3>2. d = [c EXCEPT !.sequence = <<>>, !.position = 1, !.complete = FALSE,
                        !.floor = 1, !.segment = NoSegment]
      BY DEF RejectTooFar
    <3> HIDE DEF d
    <3>3. d \in Members
      <4> DEFINE e == [c EXCEPT !.sequence = <<>>, !.position = 1,
                                !.complete = FALSE, !.floor = 1]
      <4>1. 1 \in Nat \ {0} /\ FALSE \in BOOLEAN /\ <<>> \in Seq(Nat)
        OBVIOUS
      <4>2. e \in Members
        BY <1>2, <4>1, WayTypes
      <4>3. d = [e EXCEPT !.segment = NoSegment]
        BY <3>2
      <4> HIDE DEF e
      <4> QED  BY <3>1, <4>2, <4>3, WithdrawTypes
    <3> QED  BY <1>2, <3>2, <3>3 DEF Members, SameRoute
  <2> HIDE DEF d
  <2>2. Progress(d)
    BY <1>3, <2>1 DEF Sound, Progress, Pending, HasProgress
  <2>3. Goes(s, d)
    BY <1>1, <1>2, <2>1 DEF Goes
  <2>4. Keeps(s, d)
    BY <1>2, <2>1 DEF Keeps, Known, Pending
  <2>5. SameRoute(s, d)
    BY <1>2, <2>1 DEF SameRoute
  <2> QED  BY <2>1, <2>2, <2>3, <2>4, <2>5 DEF Sound, d
<1>5. ASSUME s.goal \in 1 .. TargetCount(s)
      PROVE  Sound(w) /\ HasProgress(w) /\ SameRoute(s, w) /\ Goes(s, w) /\ Keeps(s, w)
  <2> DEFINE count == TargetCount(s)
             way == orderedTargetIndices(near, s.goal)
  <2>1. near \in 1 .. count
    <3> DEFINE at == [i \in 1 .. count |-> i]
    <3>1. 1 \in Nat /\ count \in Nat /\ 1 <= count
      BY <1>5
    <3> HIDE DEF count
    <3>2. at \in [1 .. count -> Int]
      OBVIOUS
    <3> HIDE DEF at
    <3>3. nearestTarget(x, at) \in 1 .. count
      BY <1>1, <3>1, <3>2, NearestType
    <3> QED  BY <3>3 DEF at, count
  <2> HIDE DEF near
  <2>2. /\ way \in Seq(Nat) /\ way # <<>> /\ 1 \in DOMAIN way
        /\ \A i \in DOMAIN way : way[i] \in 1 .. count
    <3>1. count \in Nat /\ s.goal \in 1 .. count
      BY <1>5
    <3> HIDE DEF count
    <3> QED  BY <2>1, <3>1, OrderedType
  <2> HIDE DEF way
  <2>3. /\ a \in Members /\ a.transition = c.transition /\ a.revision = c.revision
        /\ a.segment = c.segment /\ a.applied = c.applied /\ a.sequence = way
        /\ a.position = 1 /\ a.floor = 1 /\ a.complete = FALSE
        /\ a.signature = c.signature /\ SameRoute(c, a)
    <3>1. a = [c EXCEPT !.sequence = way, !.position = 1, !.complete = FALSE,
                        !.floor = 1]
      BY DEF AcceptGoal, way
    <3> HIDE DEF a
    <3>2. a \in Members
      <4>1. 1 \in Nat \ {0} /\ FALSE \in BOOLEAN
        OBVIOUS
      <4> QED  BY <1>2, <2>2, <3>1, <4>1, WayTypes
    <3> QED  BY <1>2, <3>1, <3>2 DEF Members, SameRoute
  <2> HIDE DEF a
  <2>4. Free(a)
    <3>1. TargetCount(a) = count
      BY <1>2, <2>3 DEF TargetCount
    <3>2. 1 \in 1 .. 1
      OBVIOUS
    <3>3. HasProgress(a) /\ ~ Pending(a)
      BY <1>3, <2>2, <2>3 DEF HasProgress, Pending
    <3> HIDE DEF count
    <3>4. Progress(a)
      BY <1>3, <2>2, <2>3, <3>1, <3>2, <3>3 DEF Progress, Sound
    <3> QED  BY <2>3, <3>3, <3>4 DEF Free, Sound
  <2>5. Sound(w) /\ HasProgress(w) /\ SameRoute(a, w) /\ Goes(a, w) /\ Keeps(a, w)
    BY <1>1, <2>4, WindowStep
  <2> HIDE DEF w
  <2>6. Goes(s, w)
    BY <1>2, <2>3, <2>5 DEF Goes
  <2>7. Keeps(s, w)
    BY <1>2, <2>3, <2>5, AlikeKeeps DEF Alike
  <2>8. SameRoute(s, w)
    BY <1>2, <2>3, <2>5 DEF SameRoute
  <2> QED  BY <2>5, <2>6, <2>7, <2>8
<1>6. ASSUME s.goal \in 1 .. TargetCount(s), ~ Pending(w)
      PROVE  LET d == advanceProgress(w, x, up)
             IN Sound(d) /\ SameRoute(s, d) /\ Goes(s, d) /\ Keeps(s, d)
  <2> HIDE DEF w
  <2> DEFINE d == advanceProgress(w, x, up)
  <2>1. Sound(w) /\ HasProgress(w) /\ SameRoute(s, w) /\ Goes(s, w) /\ Keeps(s, w)
    BY <1>5, <1>6
  <2>2. Sound(d) /\ SameRoute(w, d) /\ Goes(w, d) /\ Keeps(w, d)
    BY <1>1, <1>6, <2>1, AdvanceStep
  <2> HIDE DEF d
  <2>3. Keeps(s, d)
    BY <1>6, <2>1, <2>2, KeepsOn
  <2>4. Goes(s, d)
    <3>1. s.transition.revision <= s.revision
      <4>1. s.transition = NoTransition
        BY <1>1 DEF Progress
      <4> QED  BY <1>1, <4>1 DEF NoTransition
    <3> QED  BY <1>1, <2>1, <2>2, <3>1, GoesOn DEF Sound
  <2>5. SameRoute(s, d)
    BY <2>1, <2>2 DEF SameRoute
  <2> QED  BY <2>2, <2>3, <2>4, <2>5 DEF d
<1>7. tryActivatePendingGoal(s, up) =
        IF s.goal \notin 1 .. TargetCount(s) THEN c
        ELSE IF Distance(x, near) > MaxStart THEN RejectTooFar(c)
        ELSE IF Pending(w) \/ ~ Reached(w, x) THEN w
        ELSE advanceProgress(w, x, up)
  BY DEF tryActivatePendingGoal, c, x
<1> HIDE DEF w, near
<1>8. SameRoute(s, c)
  BY <1>2
<1> QED  BY <1>3, <1>4, <1>5, <1>6, <1>7, <1>8

-----------------------------------------------------------------------------
(* The answers and the parameter services                                    *)

\* An answer that is dropped, or no longer there, disturbs nothing.
LEMMA DroppedAnswer ==
  ASSUME NEW c \in Members, NEW q, NEW reps, NEW fewer \in SUBSET reps,
         Calls(c, q, reps)
  PROVE  /\ Calls(c, q, fewer)
         /\ \A p : Runs(c, reps, p) => Runs(c, fewer, p)
<1>1. \A n \in Nodes : /\ Answers(c, fewer, n) \subseteq Answers(c, reps, n)
                       /\ Believed(c, fewer, n) => Believed(c, reps, n)
  BY DEF Answers, Believed
<1> QED  BY <1>1 DEF Calls, Numbered, Unsent, YoungestCall, Served, Runs

Refused(c, n) == [c EXCEPT !.transition.sent = @ \ {n}]

\* A refusal of the pending revision: the node counts as not asked.
LEMMA RefusedAnswer ==
  ASSUME NEW c \in Members, NEW q, NEW reps \in SUBSET Replies, NEW r \in reps,
         Calls(c, q, reps), r.revision = c.transition.revision, Pending(c), ~r.success
  PROVE  /\ Calls(Refused(c, r.node), q, reps \ {r})
         /\ \A p : Runs(c, reps, p) => Runs(Refused(c, r.node), reps \ {r}, p)
<1> DEFINE d == Refused(c, r.node)
           fewer == reps \ {r}
<1>1. /\ d.transition.revision = c.transition.revision
      /\ d.transition.profile = c.transition.profile
      /\ d.transition.confirmed = c.transition.confirmed
      /\ d.transition.sent = c.transition.sent \ {r.node}
      /\ d.revision = c.revision
  BY DEF Refused, Members, Transitions
<1>2. r \in Answers(c, reps, r.node) /\ r.node \in Nodes /\ c.transition.revision # 0
  BY DEF Answers, Pending, Replies
<1>3. /\ q[r.node] = <<>> /\ r.node \notin c.transition.confirmed
      /\ \A s \in Answers(c, reps, r.node) : ~s.success
  BY <1>2 DEF Calls, Served, Believed
<1>4. Answers(c, fewer, r.node) = {}
  <2> SUFFICES ASSUME NEW s \in Answers(c, fewer, r.node)
               PROVE  FALSE
    OBVIOUS
  <2>1. s \in Replies /\ s # r /\ s.node = r.node /\ s.revision = r.revision
    BY DEF Answers
  <2>2. s.success = FALSE /\ r.success = FALSE
    <3>1. s.success \in BOOLEAN /\ r.success \in BOOLEAN
      BY <2>1 DEF Replies
    <3>2. s \in Answers(c, reps, r.node)
      BY DEF Answers
    <3> QED  BY <1>3, <3>1, <3>2
  <2> QED  BY <2>1, <2>2 DEF Replies
<1> HIDE DEF d
<1>5. \A n \in Nodes : /\ Answers(d, fewer, n) = Answers(c, fewer, n)
                       /\ Believed(d, fewer, n) <=> Believed(c, fewer, n)
  BY <1>1 DEF Answers, Believed
<1>6. /\ Calls(c, q, fewer)
      /\ \A p : Runs(c, reps, p) => Runs(c, fewer, p)
  BY DroppedAnswer
<1> HIDE DEF fewer
<1>7. Numbered(d, q, fewer)
  BY <1>1, <1>2, <1>6 DEF Calls, Numbered
<1>8. Unsent(d, q, fewer)
  <2> SUFFICES ASSUME NEW n \in Nodes \ d.transition.sent
               PROVE  /\ n \notin d.transition.confirmed
                      /\ Answers(d, fewer, n) = {}
                      /\ \A i \in DOMAIN q[n] : q[n][i].revision # d.transition.revision
    BY DEF Unsent
  <2>1. CASE n = r.node
    BY <1>1, <1>3, <1>4, <1>5, <2>1
  <2>2. CASE n # r.node
    BY <1>1, <1>5, <1>6, <2>2 DEF Calls, Unsent
  <2> QED  BY <2>1, <2>2
<1>9. YoungestCall(d, q) /\ Served(d, q, fewer)
  BY <1>1, <1>5, <1>6 DEF Calls, YoungestCall, Served
<1>10. \A p : Runs(c, reps, p) => Runs(d, fewer, p)
  BY <1>1, <1>5, <1>6 DEF Runs
<1> QED  BY <1>7, <1>8, <1>9, <1>10 DEF Calls, d, fewer

Confirmed(c, n) == [c EXCEPT !.transition.confirmed = @ \cup {n}]

\* A confirmation of the pending revision: the node is believed as before.
LEMMA ConfirmedAnswer ==
  ASSUME NEW c \in Members, NEW q, NEW reps \in SUBSET Replies, NEW r \in reps,
         Calls(c, q, reps), r.revision = c.transition.revision, Pending(c), r.success
  PROVE  /\ Calls(Confirmed(c, r.node), q, reps \ {r})
         /\ \A p : Runs(c, reps, p) => Runs(Confirmed(c, r.node), reps \ {r}, p)
<1> DEFINE d == Confirmed(c, r.node)
           fewer == reps \ {r}
<1>1. /\ d.transition.revision = c.transition.revision
      /\ d.transition.profile = c.transition.profile
      /\ d.transition.confirmed = c.transition.confirmed \cup {r.node}
      /\ d.transition.sent = c.transition.sent
      /\ d.revision = c.revision
  BY DEF Confirmed, Members, Transitions
<1>2. r \in Answers(c, reps, r.node) /\ r.node \in Nodes /\ c.transition.revision # 0
  BY DEF Answers, Pending, Replies
<1>3. /\ q[r.node] = <<>> /\ r.node \in c.transition.sent
      /\ Believed(c, reps, r.node)
  BY <1>2 DEF Calls, Served, Unsent, Believed
<1> HIDE DEF d
<1>4. \A n \in Nodes : /\ Answers(d, fewer, n) \subseteq Answers(c, reps, n)
                       /\ Believed(d, fewer, n) => Believed(c, reps, n)
  BY <1>1, <1>3 DEF Answers, Believed
<1> HIDE DEF fewer
<1>5. Numbered(d, q, fewer)
  BY <1>1, <1>2 DEF Calls, Numbered, fewer
<1>6. Unsent(d, q, fewer)
  BY <1>1, <1>3, <1>4 DEF Calls, Unsent
<1>7. YoungestCall(d, q)
  BY <1>1 DEF Calls, YoungestCall
<1>8. Served(d, q, fewer)
  BY <1>1, <1>3, <1>4 DEF Calls, Served
<1>9. \A p : Runs(c, reps, p) => Runs(d, fewer, p)
  BY <1>1, <1>4 DEF Runs
<1> QED  BY <1>5, <1>6, <1>7, <1>8, <1>9 DEF Calls, d, fewer

\* Node n takes its oldest call and answers.
Took(n, success) ==
  /\ requests[n] # <<>>
  /\ requests' = [requests EXCEPT ![n] = Tail(@)]
  /\ replies' = replies \cup {[node |-> n, revision |-> Head(requests[n]).revision,
                               success |-> success]}
  /\ params' = IF success
               THEN [params EXCEPT ![n] = Head(requests[n]).profile] ELSE params

\* A call is served: the oldest one of node n, and the answer goes back.
LEMMA ServeCalls ==
  ASSUME SequencerTypes, Calls(seq, requests, replies), NEW n \in Nodes,
         NEW success \in BOOLEAN, Took(n, success)
  PROVE  /\ Calls(seq, requests', replies')
         /\ Runs(seq, replies, params) => Runs(seq, replies', params')
<1> DEFINE h == Head(requests[n])
           a == [node |-> n, revision |-> h.revision, success |-> success]
           rev == seq.transition.revision
<1>1. /\ requests \in [Nodes -> Seq(Requests)] /\ requests[n] # <<>>
      /\ params \in [Nodes -> Profiles \cup {"launch"}]
      /\ replies' = replies \cup {a}
      /\ requests' = [requests EXCEPT ![n] = Tail(requests[n])]
      /\ params' = IF success THEN [params EXCEPT ![n] = h.profile] ELSE params
  BY DEF SequencerTypes, Took
<1>2. requests[n] \in Seq(Requests)
  BY <1>1
<1>3. /\ Len(requests[n]) \in Nat \ {0} /\ h = requests[n][1]
      /\ DOMAIN requests[n] = 1..Len(requests[n])
      /\ 1 \in DOMAIN requests[n]
      /\ Len(requests'[n]) = Len(requests[n]) - 1
      /\ DOMAIN requests'[n] = 1..(Len(requests[n]) - 1)
      /\ \A i \in 1..(Len(requests[n]) - 1) : requests'[n][i] = requests[n][i + 1]
  <2>1. requests'[n] = Tail(requests[n])
    BY <1>1
  <2> QED  BY <1>1, <1>2, <2>1, HeadTailProperties, LenProperties, EmptySeq
<1>4. \A m \in Nodes \ {n} : requests'[m] = requests[m]
  BY <1>1
<1>5. /\ n \notin seq.transition.confirmed
      /\ Answers(seq, replies, n) = {}
  BY <1>1 DEF Calls, Served
<1>6. /\ \A m \in Nodes \ {n} : /\ Answers(seq, replies', m) = Answers(seq, replies, m)
                                /\ Believed(seq, replies', m)
                                     <=> Believed(seq, replies, m)
      /\ h.revision # rev => Answers(seq, replies', n) = {}
      /\ h.revision = rev => Answers(seq, replies', n) = {a}
  BY <1>1, <1>5 DEF Answers, Believed
<1>7. h.revision = rev =>
        /\ h.profile = seq.transition.profile /\ n \in seq.transition.sent
        /\ Len(requests[n]) = 1
  BY <1>3, ZenonT(30) DEF Calls, YoungestCall, Unsent
<1>8. h.revision = rev => requests'[n] = <<>>
  <2>1. requests'[n] \in Seq(Requests)
    BY <1>1, <1>2, HeadTailProperties
  <2> QED  BY <1>3, <1>7, <2>1, EmptySeq, LenProperties
<1> HIDE DEF h
<1>9. Numbered(seq, requests', replies')
  <2>1. \A m \in Nodes : \A i \in DOMAIN requests'[m] :
          requests'[m][i].revision \in 1..seq.revision
    <3> TAKE m \in Nodes
    <3>1. CASE m = n
      <4> TAKE i \in DOMAIN requests'[m]
      <4>1. requests'[n][i] = requests[n][i + 1] /\ i + 1 \in DOMAIN requests[n]
        BY <1>3, <3>1
      <4> QED  BY <3>1, <4>1 DEF Calls, Numbered
    <3>2. CASE m # n
      BY <1>4, <3>2 DEF Calls, Numbered
    <3> QED  BY <3>1, <3>2
  <2>2. a.revision \in 1..seq.revision
    BY <1>3 DEF Calls, Numbered
  <2> QED  BY <1>1, <2>1, <2>2 DEF Calls, Numbered
<1>10. Unsent(seq, requests', replies')
  <2> SUFFICES ASSUME NEW m \in Nodes \ seq.transition.sent
               PROVE  /\ m \notin seq.transition.confirmed
                      /\ Answers(seq, replies', m) = {}
                      /\ \A i \in DOMAIN requests'[m] :
                           requests'[m][i].revision # rev
    BY DEF Unsent
  <2>1. CASE m = n
    <3>1. \A i \in DOMAIN requests'[n] :
            requests'[n][i] = requests[n][i + 1] /\ i + 1 \in DOMAIN requests[n]
      BY <1>3
    <3> QED  BY <1>5, <1>6, <1>7, <2>1, <3>1 DEF Calls, Unsent
  <2>2. CASE m # n
    BY <1>4, <1>6, <2>2 DEF Calls, Unsent
  <2> QED  BY <2>1, <2>2
<1>11. YoungestCall(seq, requests')
  <2> SUFFICES ASSUME NEW m \in Nodes, NEW i \in DOMAIN requests'[m],
                      requests'[m][i].revision = rev
               PROVE  /\ i = Len(requests'[m])
                      /\ requests'[m][i].profile = seq.transition.profile
    BY DEF YoungestCall
  <2>1. CASE m = n
    <3>1. /\ requests'[n][i] = requests[n][i + 1] /\ i + 1 \in DOMAIN requests[n]
          /\ i \in Nat
      BY <1>3, <2>1
    <3>2. i + 1 = Len(requests[n]) /\ requests[n][i + 1].profile = seq.transition.profile
      BY <2>1, <3>1 DEF Calls, YoungestCall
    <3> QED  BY <1>3, <2>1, <3>1, <3>2
  <2>2. CASE m # n
    BY <1>4, <2>2 DEF Calls, YoungestCall
  <2> QED  BY <2>1, <2>2
<1>12. Served(seq, requests', replies')
  <2> SUFFICES ASSUME NEW m \in Nodes
               PROVE  /\ m \in seq.transition.confirmed \/ Answers(seq, replies', m) # {}
                           => requests'[m] = <<>>
                      /\ Believed(seq, replies', m) =>
                           \A r \in Answers(seq, replies', m) : r.success
    BY DEF Served
  <2>1. CASE m = n
    BY <1>5, <1>6, <1>8, <2>1 DEF Believed
  <2>2. CASE m # n
    BY <1>4, <1>6, <2>2 DEF Calls, Served
  <2> QED  BY <2>1, <2>2
<1>13. ASSUME Runs(seq, replies, params), NEW m \in Nodes, Believed(seq, replies', m)
       PROVE  params'[m] = seq.transition.profile
  <2>1. CASE m = n
    <3>1. h.revision = rev /\ success
      BY <1>5, <1>6, <1>13, <2>1 DEF Believed
    <3> QED  BY <1>1, <1>7, <2>1, <3>1
  <2>2. CASE m # n
    <3>1. params'[m] = params[m]
      BY <1>1, <2>2
    <3> QED  BY <1>6, <1>13, <2>2, <3>1 DEF Runs
  <2> QED  BY <2>1, <2>2
<1> QED  BY <1>9, <1>10, <1>11, <1>12, <1>13 DEF Calls, Runs

-----------------------------------------------------------------------------
(* The timer                                                                 *)

LEMMA MarkTypes ==
  ASSUME NEW s \in Members, NEW b \in BOOLEAN, NEW x \in Int
  PROVE  /\ [s EXCEPT !.fresh = b] \in Members
         /\ [s EXCEPT !.located = x] \in Members
         /\ [s EXCEPT !.odom = x, !.fresh = b] \in Members
BY DEF Members

\* Records that differ only in where the robot is and which goal waits.
SameWay(c, d) ==
  /\ SameRoute(c, d) /\ SameSwitch(c, d)
  /\ d.segment = c.segment /\ d.applied = c.applied /\ d.sequence = c.sequence
  /\ d.position = c.position /\ d.floor = c.floor /\ d.complete = c.complete

LEMMA SameWayStep ==
  ASSUME NEW c, Sound(c), NEW d \in Members, SameWay(c, d)
  PROVE  Sound(d) /\ SameRoute(c, d) /\ Goes(c, d) /\ Alike(c, d) /\ Keeps(c, d)
<1>1. c \in Members /\ Progress(c)
  BY DEF Sound
<1>2. Progress(d)
  BY <1>1 DEF SameWay, SameRoute, SameSwitch, Progress, Pending, HasProgress,
              TargetCount
<1>3. Goes(c, d)
  BY <1>1, SameGoes DEF SameWay
<1>4. Alike(c, d)
  BY DEF SameWay, SameSwitch, Alike
<1>5. Keeps(c, d)
  BY <1>2, <1>4, KeepsSame, AlikeKeeps
<1> QED  BY <1>2, <1>3, <1>4, <1>5 DEF SameWay, Sound

\* The timer sends the calls that could not be sent before.
LEMMA DispatchStep ==
  ASSUME NEW s, Sound(s), NEW up \in SUBSET Nodes
  PROVE  LET d == dispatchProfileRequests(s, up)
         IN Sound(d) /\ SameRoute(s, d) /\ Goes(s, d) /\ Alike(s, d)
<1> DEFINE tr == [s.transition EXCEPT !.sent = @ \cup up]
           k == [s EXCEPT !.transition = tr]
<1>1. s \in Members /\ Progress(s) /\ s.transition \in Transitions /\ s.revision \in Nat
  BY DEF Sound, Members
<1>2. dispatchProfileRequests(s, up) = IF Pending(s) THEN k ELSE s
  BY DEF dispatchProfileRequests
<1>3. /\ tr \in Transitions /\ tr.revision = s.transition.revision
      /\ tr.profile = s.transition.profile
      /\ tr.confirmed = s.transition.confirmed
      /\ s.transition.sent \subseteq tr.sent
  BY <1>1 DEF Transitions
<1> HIDE DEF tr
<1>4. k \in Members
  BY <1>1, <1>3 DEF Members
<1>5. /\ k.transition = tr /\ k.revision = s.revision /\ SameRoute(s, k)
      /\ k.segment = s.segment /\ k.applied = s.applied /\ k.sequence = s.sequence
      /\ k.position = s.position /\ k.floor = s.floor /\ k.complete = s.complete
  BY <1>1 DEF Members, SameRoute
<1> HIDE DEF k
<1>6. ASSUME Pending(s)
      PROVE  Sound(k) /\ SameRoute(s, k) /\ Goes(s, k) /\ Alike(s, k)
  <2>1. Progress(k)
    BY <1>1, <1>3, <1>5, <1>6
       DEF Progress, Pending, HasProgress, TargetCount, SameRoute
  <2>2. Goes(s, k)
    BY <1>1, <1>3, <1>5, <1>6 DEF Goes, Pending
  <2>3. Alike(s, k)
    BY <1>3, <1>5 DEF Alike
  <2> QED  BY <1>4, <1>5, <2>1, <2>2, <2>3 DEF Sound
<1>7. Sound(s) /\ SameRoute(s, s) /\ Goes(s, s) /\ Alike(s, s)
  BY <1>1 DEF SameRoute, Goes, Alike
<1> QED  BY <1>2, <1>6, <1>7

\* Then it finishes the transition, or takes a goal, or looks at the progress.
LEMMA PositionStep ==
  ASSUME NEW s, Sound(s), NEW up \in SUBSET Nodes, TargetCount(s) \in Nat,
         s.transition.revision <= s.revision
  PROVE  LET d == TimerWithPosition(s, up)
         IN Sound(d) /\ SameRoute(s, d) /\ Goes(s, d) /\ Keeps(s, d)
<1> DEFINE f == finishProfileTransitionIfReady(s, up)
<1>1. Sound(f) /\ SameRoute(s, f) /\ Goes(s, f) /\ Keeps(s, f)
  BY FinishStep
<1> HIDE DEF f
<1>2. f \in Members /\ s \in Members /\ f.located \in Int
  BY <1>1 DEF Sound, Members
<1>3. ASSUME ~ Pending(f), NEW d, Sound(d), SameRoute(f, d), Goes(f, d), Keeps(f, d)
      PROVE  Sound(d) /\ SameRoute(s, d) /\ Goes(s, d) /\ Keeps(s, d)
  <2>1. Goes(s, d)
    BY <1>1, <1>2, <1>3, GoesOn DEF Sound
  <2>2. Keeps(s, d)
    BY <1>1, <1>3, KeepsOn
  <2> QED  BY <1>1, <1>3, <2>1, <2>2 DEF SameRoute
<1>4. ASSUME ~ Pending(f)
      PROVE  LET d == tryActivatePendingGoal(f, up)
             IN Sound(d) /\ SameRoute(f, d) /\ Goes(f, d) /\ Keeps(f, d)
  <2>1. TargetCount(f) = TargetCount(s)
    BY <1>1 DEF SameRoute, TargetCount
  <2> QED  BY <1>1, <1>4, <2>1, GoalStep
<1>5. ASSUME ~ Pending(f), HasProgress(f)
      PROVE  LET d == advanceProgress(f, f.located, up)
             IN Sound(d) /\ SameRoute(f, d) /\ Goes(f, d) /\ Keeps(f, d)
  BY <1>1, <1>2, <1>5, AdvanceStep
<1>6. TimerWithPosition(s, up) =
        IF Pending(f) THEN f
        ELSE IF f.goal # 0 THEN tryActivatePendingGoal(f, up)
        ELSE IF ~ HasProgress(f) THEN f
        ELSE advanceProgress(f, f.located, up)
  BY DEF TimerWithPosition, f
<1>7. Pending(f) \/ ~ HasProgress(f) => Sound(f)
  BY <1>1
<1>8. CASE ~ Pending(f) /\ f.goal # 0
  BY <1>3, <1>4, <1>6, <1>8
<1>9. CASE ~ Pending(f) /\ f.goal = 0 /\ HasProgress(f)
  BY <1>3, <1>5, <1>6, <1>9
<1>10. CASE Pending(f) \/ (f.goal = 0 /\ ~ HasProgress(f))
  BY <1>1, <1>6, <1>10
<1> QED  BY <1>8, <1>9, <1>10

\* The whole of it.
LEMMA TimerStep ==
  ASSUME NEW s, Sound(s), NEW up \in SUBSET Nodes, NEW transformed \in BOOLEAN,
         TargetCount(s) \in Nat, s.transition.revision <= s.revision
  PROVE  LET d == updateTimerResult(s, up, transformed)
         IN Sound(d) /\ SameRoute(s, d) /\ Goes(s, d) /\ Keeps(s, d)
<1> DEFINE d == dispatchProfileRequests(s, up)
           p == [d EXCEPT !.fresh = FALSE]
           k == [p EXCEPT !.located = p.odom]
           e == TimerWithPosition(k, up)
<1>1. Sound(d) /\ SameRoute(s, d) /\ Goes(s, d) /\ Alike(s, d)
  BY DispatchStep
<1> HIDE DEF d
<1>2. d \in Members /\ Progress(d) /\ s \in Members
  BY <1>1 DEF Sound
<1>3. p \in Members /\ SameWay(d, p) /\ p.odom \in Int
  <2>1. p \in Members
    <3>1. FALSE \in BOOLEAN /\ 0 \in Int
      OBVIOUS
    <3> QED  BY <1>2, <3>1, MarkTypes
  <2> QED  BY <1>2, <2>1 DEF Members, SameWay, SameRoute, SameSwitch
<1> HIDE DEF p
<1>4. k \in Members /\ SameWay(p, k)
  <2>1. k \in Members
    <3>1. FALSE \in BOOLEAN
      OBVIOUS
    <3> QED  BY <1>3, <3>1, MarkTypes
  <2> QED  BY <1>3, <2>1 DEF Members, SameWay, SameRoute, SameSwitch
<1> HIDE DEF k
<1>5. ASSUME NEW m \in Members, SameWay(d, m)
      PROVE  Sound(m) /\ SameRoute(s, m) /\ Goes(s, m) /\ Alike(s, m) /\ Keeps(s, m)
  <2>1. Sound(m) /\ SameRoute(d, m) /\ Alike(d, m) /\ Keeps(d, m) /\ SameSwitch(d, m)
    BY <1>1, <1>5, SameWayStep DEF SameWay
  <2>2. SameRoute(s, m) /\ Alike(s, m)
    BY <1>1, <2>1 DEF SameRoute, Alike
  <2>3. Keeps(s, m)
    BY <1>1, <2>1, AlikeKeeps
  <2>4. Goes(s, m)
    BY <1>1, <2>1 DEF Goes, SameSwitch
  <2> QED  BY <2>1, <2>2, <2>3, <2>4
<1>6. SameWay(d, k) /\ SameWay(d, d)
  BY <1>3, <1>4 DEF SameWay, SameRoute, SameSwitch
<1>7. Sound(e) /\ SameRoute(s, e) /\ Goes(s, e) /\ Keeps(s, e)
  <2>1. Sound(k) /\ SameRoute(s, k) /\ Goes(s, k) /\ Alike(s, k)
    BY <1>4, <1>5, <1>6
  <2>2. TargetCount(k) = TargetCount(s)
    BY <2>1 DEF SameRoute, TargetCount
  <2>3. k.transition.revision <= k.revision
    <3>1. /\ k.revision \in Nat /\ s.revision \in Nat /\ k.revision >= s.revision
          /\ k.transition.revision = s.transition.revision
          /\ s.transition.revision \in Nat
      BY <1>2, <1>4, <2>1 DEF Members, Transitions, Goes, Alike
    <3> QED  BY <3>1
  <2>4. Sound(e) /\ SameRoute(k, e) /\ Goes(k, e) /\ Keeps(k, e)
    BY <2>1, <2>2, <2>3, PositionStep
  <2> HIDE DEF e
  <2>5. Goes(s, e)
    BY <1>2, <2>1, <2>4, GoesOn DEF Sound
  <2>6. Keeps(s, e)
    BY <2>1, <2>4, AlikeKeeps
  <2>7. SameRoute(s, e)
    BY <2>1, <2>4 DEF SameRoute
  <2> QED  BY <2>4, <2>5, <2>6, <2>7
<1>8. updateTimerResult(s, up, transformed) =
        IF d.odom = Nowhere \/ (~ d.fresh /\ d.goal = 0) THEN d
        ELSE IF d.signature = 0 \/ ~ transformed THEN p ELSE e
  BY DEF updateTimerResult, d, p, k
<1>9. /\ Sound(d) /\ SameRoute(s, d) /\ Goes(s, d) /\ Keeps(s, d)
      /\ Sound(p) /\ SameRoute(s, p) /\ Goes(s, p) /\ Keeps(s, p)
  BY <1>2, <1>3, <1>5, <1>6
<1> HIDE DEF e
<1> QED  BY <1>7, <1>8, <1>9

-----------------------------------------------------------------------------
(* The invariant                                                             *)

SequencerInv ==
  /\ SequencerTypes
  /\ Calls(seq, requests, replies)
  /\ Runs(seq, replies, params)
  /\ Held(seq, requests, params)

\* A route has a number of targets.
LEMMA CountType ==
  ASSUME SequencerAssumption, SequencerTypes
  PROVE  TargetCount(seq) \in Nat
<1>1. Len(Recordings) \in Nat /\ DOMAIN Recordings = 1 .. Len(Recordings)
  BY LenProperties DEF SequencerAssumption
<1>2. published \in Nat /\ published <= Len(Recordings) /\ seq.signature \in 0 .. published
  BY <1>1 DEF SequencerTypes, Published
<1>3. ASSUME seq.signature # 0
      PROVE  Len(Recordings[seq.signature].types) \in Nat
  <2>1. seq.signature \in Nat /\ seq.signature <= published
    BY <1>2
  <2>2. seq.signature \in 1 .. Len(Recordings)
    BY <1>1, <1>2, <1>3, <2>1, SMTT(30)
  <2>3. Recordings[seq.signature]
          \in [types : Seq({"normal", "corner"}), slope : Seq(BOOLEAN)]
    BY <2>2, ElementOfSeq DEF SequencerAssumption
  <2>4. Recordings[seq.signature].types \in Seq({"normal", "corner"})
    BY <2>3
  <2> QED  BY <2>4, LenProperties
<1> QED  BY <1>3 DEF TargetCount

\* A new route keeps the types.
LEMMA RouteTypes ==
  ASSUME NEW s \in Members
  PROVE  /\ \A a, b, c \in Nat :
              [s EXCEPT !.signature = a, !.types = b, !.flags = c] \in Members
         /\ \A tr \in Transitions, p \in Profiles \cup {"none"} :
              [s EXCEPT !.transition = tr, !.applied = p] \in Members
BY DEF Members

\* A callback that sends nothing leaves the queues alone.
LEMMA SendsNothing ==
  ASSUME SequencerTypes, NEW d, SameSwitch(seq, d) \/ d.transition = NoTransition
  PROVE  Posted(requests, seq, d) = requests
<1>1. NewlySent(seq, d) = {}
  BY DEF SameSwitch, NewlySent, NoTransition
<1> QED  BY <1>1, PostedNothing DEF SequencerTypes

\* What is left to show of a callback that answers nothing.
LEMMA CallbackInv ==
  ASSUME SequencerInv, Sound(seq'), Goes(seq, seq'), Published(seq)',
         requests' = Posted(requests, seq, seq'), Held(seq', requests', params),
         UNCHANGED <<published, replies, params, body>>
  PROVE  SequencerInv'
<1>1. /\ seq \in Members /\ seq' \in Members /\ Progress(seq')
      /\ requests \in [Nodes -> Seq(Requests)] /\ replies \in SUBSET Replies
      /\ Calls(seq, requests, replies) /\ Runs(seq, replies, params) /\ Real(requests)
  BY DEF SequencerInv, SequencerTypes, Sound
<1>2. Calls(seq', requests', replies) /\ Runs(seq', replies, params)
  BY <1>1, GoesCalls
<1>3. requests' \in [Nodes -> Seq(Requests)] /\ Real(requests')
  BY <1>1, PostedType
<1>4. SequencerTypes'
  BY <1>3 DEF SequencerInv, SequencerTypes
<1> QED  BY <1>2, <1>4 DEF SequencerInv

\* And when it keeps the window as Keeps says.
LEMMA KeepingInv ==
  ASSUME SequencerInv, Sound(seq'), SameRoute(seq, seq'), Goes(seq, seq'),
         Keeps(seq, seq'), requests' = Posted(requests, seq, seq'),
         UNCHANGED <<published, replies, params, body>>
  PROVE  SequencerInv'
<1>1. /\ seq \in Members /\ seq' \in Members /\ Progress(seq) /\ Progress(seq')
      /\ requests \in [Nodes -> Seq(Requests)] /\ replies \in SUBSET Replies
      /\ Calls(seq, requests, replies) /\ Runs(seq, replies, params)
      /\ Held(seq, requests, params)
  BY DEF SequencerInv, SequencerTypes, Sound
<1>2. Held(seq', requests', params)
  BY <1>1, KeepsHeld
<1>3. Published(seq)'
  BY DEF SequencerInv, SequencerTypes, Published, SameRoute
<1> QED  BY <1>2, <1>3, CallbackInv

LEMMA InitInv ==
  ASSUME SequencerAssumption, Init
  PROVE  SequencerInv
<1>1. /\ NoTransition \in Transitions /\ NoSegment \in Segments /\ Nowhere \in Int
      /\ <<>> \in Seq(Nat)
  BY DEF NoTransition, NoSegment, Nowhere, Transitions, Segments
<1>2. seq = InitSeq
  BY DEF Init
<1>3. seq \in Members
  BY <1>1, <1>2 DEF InitSeq, Members
<1>4. /\ seq.sequence = <<>> /\ seq.position = 1 /\ seq.floor = 1
      /\ seq.transition = NoTransition /\ seq.segment = NoSegment
      /\ seq.applied = "none" /\ seq.revision = 0 /\ seq.signature = 0
      /\ seq.types = 0 /\ seq.flags = 0 /\ \A t \in Topics : seq.received[t] = 0
  BY <1>2 DEF InitSeq
<1>5. NoTransition.revision = 0 /\ NoTransition.sent = {} /\ NoTransition.confirmed = {}
  BY DEF NoTransition
<1>6. Progress(seq)
  BY <1>4, <1>5 DEF Progress, HasProgress, Pending
<1>7. /\ published = 0 /\ Len(Recordings) \in Nat
      /\ requests = [n \in Nodes |-> <<>>] /\ replies = {}
      /\ params = [n \in Nodes |-> "launch"] /\ body \in Int
  BY LenProperties DEF Init, SequencerAssumption
<1>8. requests \in [Nodes -> Seq(Requests)] /\ Real(requests) /\ Quiet(requests)
  BY <1>7 DEF Real, Quiet
<1>9. SequencerTypes
  BY <1>3, <1>4, <1>6, <1>7, <1>8 DEF SequencerTypes, Sound, Published
<1>10. Calls(seq, requests, replies)
  BY <1>4, <1>5, <1>7
     DEF Calls, Numbered, Unsent, YoungestCall, Served, Answers, Believed
<1>11. Runs(seq, replies, params) /\ Held(seq, requests, params)
  BY <1>4, <1>5, <1>7 DEF Runs, Held, Believed, Answers
<1> QED  BY <1>9, <1>10, <1>11 DEF SequencerInv

-----------------------------------------------------------------------------
(* The actions                                                               *)

LEMMA PublishInv ==
  ASSUME SequencerAssumption, SequencerInv, Publish
  PROVE  SequencerInv'
<1>1. Len(Recordings) \in Nat
  BY LenProperties DEF SequencerAssumption
<1>2. published' \in 0 .. Len(Recordings) /\ 0 .. published \subseteq 0 .. published'
  BY <1>1, SMTT(30) DEF SequencerInv, SequencerTypes, Publish
<1>3. UNCHANGED <<seq, requests, replies, params, body>>
  BY DEF Publish, nodes
<1>4. SequencerTypes'
  BY <1>2, <1>3 DEF SequencerInv, SequencerTypes, Published
<1> QED  BY <1>3, <1>4 DEF SequencerInv

\* A new route abandons the transition and forgets what was applied: the window
\* that is still exposed keeps its profile.
LEMMA ReceiveInv ==
  ASSUME SequencerAssumption, SequencerInv, NEW t \in Topics, Receive(t)
  PROVE  SequencerInv'
<1> DEFINE s == [seq EXCEPT !.received[t] = published]
           d == [s EXCEPT !.signature = s.received["targets"],
                          !.types = s.received["types"],
                          !.flags = s.received["slope_flags"],
                          !.sequence = <<>>, !.position = 1, !.complete = FALSE,
                          !.floor = 1, !.transition = NoTransition,
                          !.applied = "none"]
<1>1. /\ seq \in Members /\ Progress(seq) /\ published \in Nat /\ Published(seq)
      /\ Held(seq, requests, params) /\ seq.revision \in Nat
  BY LenProperties DEF SequencerInv, SequencerTypes, Sound, Members, SequencerAssumption
<1>2. /\ seq' = tryInitializeRoute(s)
      /\ UNCHANGED <<published, requests, replies, params, body>>
  BY DEF Receive, nodes
<1>3. /\ s \in Members /\ SameSwitch(seq, s)
      /\ s.signature = seq.signature /\ s.types = seq.types /\ s.flags = seq.flags
      /\ s.segment = seq.segment /\ s.applied = seq.applied /\ s.sequence = seq.sequence
      /\ s.position = seq.position /\ s.floor = seq.floor /\ s.complete = seq.complete
      /\ \A u \in Topics : s.received[u] \in 0 .. published
  <2>1. /\ [seq.received EXCEPT ![t] = published] \in [Topics -> Nat]
        /\ \A u \in Topics :
             [seq.received EXCEPT ![t] = published][u] \in 0 .. published
    BY <1>1, SMTT(30) DEF Members, Published
  <2>2. s.received = [seq.received EXCEPT ![t] = published]
    BY <1>1 DEF Members
  <2>3. s \in Members
    BY <1>1, <2>1 DEF Members
  <2> QED  BY <1>1, <2>1, <2>2, <2>3 DEF Members, SameSwitch
<1> HIDE DEF s
<1>4. ASSUME NewRoute(s)
      PROVE  /\ d \in Members /\ d.transition = NoTransition /\ d.applied = "none"
             /\ d.revision = seq.revision /\ d.segment = seq.segment
             /\ d.sequence = <<>> /\ d.position = 1 /\ d.floor = 1
             /\ d.received = s.received /\ d.signature = s.received["targets"]
             /\ d.types = s.received["types"] /\ d.flags = s.received["slope_flags"]
  <2>1. /\ <<>> \in Seq(Nat) /\ 1 \in Nat \ {0} /\ FALSE \in BOOLEAN
        /\ NoTransition \in Transitions /\ "none" \in Profiles \cup {"none"}
    BY DEF NoTransition, Transitions
  <2>2. /\ s.received["targets"] \in Nat /\ s.received["types"] \in Nat
        /\ s.received["slope_flags"] \in Nat
    BY <1>3 DEF Members, Topics
  <2> DEFINE e == [s EXCEPT !.signature = s.received["targets"],
                            !.types = s.received["types"],
                            !.flags = s.received["slope_flags"]]
             f == [e EXCEPT !.sequence = <<>>, !.position = 1, !.complete = FALSE,
                            !.floor = 1]
  <2>3. /\ e \in Members /\ e.received = s.received
        /\ e.signature = s.received["targets"] /\ e.types = s.received["types"]
        /\ e.flags = s.received["slope_flags"] /\ e.segment = s.segment
        /\ e.revision = s.revision
    BY <1>3, <2>2, RouteTypes DEF Members
  <2>4. d = [f EXCEPT !.transition = NoTransition, !.applied = "none"]
    OBVIOUS
  <2> HIDE DEF d, e
  <2>5. f \in Members
    BY <2>1, <2>3, WayTypes
  <2>6. /\ f.received = e.received /\ f.signature = e.signature /\ f.types = e.types
        /\ f.flags = e.flags /\ f.segment = e.segment /\ f.revision = e.revision
        /\ f.sequence = <<>> /\ f.position = 1 /\ f.floor = 1
    BY <2>3, <2>5 DEF Members
  <2> HIDE DEF f
  <2>7. d \in Members
    BY <2>1, <2>4, <2>5, RouteTypes
  <2>8. /\ d.received = f.received /\ d.signature = f.signature /\ d.types = f.types
        /\ d.flags = f.flags /\ d.segment = f.segment /\ d.revision = f.revision
        /\ d.sequence = f.sequence /\ d.position = f.position /\ d.floor = f.floor
        /\ d.transition = NoTransition /\ d.applied = "none"
    BY <2>4, <2>5, <2>7 DEF Members
  <2> QED  BY <1>3, <2>3, <2>6, <2>7, <2>8 DEF SameSwitch
<1>5. tryInitializeRoute(s) = IF ~ NewRoute(s) THEN s ELSE d
  BY DEF tryInitializeRoute
<1> HIDE DEF d
<1>6. CASE ~ NewRoute(s)
  <2>1. seq' = s
    BY <1>2, <1>5, <1>6
  <2>2. Progress(s)
    BY <1>1, <1>3 DEF Progress, Pending, HasProgress, TargetCount, SameSwitch
  <2>3. Goes(seq, s)
    BY <1>1, <1>3, SameGoes
  <2>4. Held(s, requests, params)
    BY <1>1, <1>3 DEF Held, Pending, SameSwitch
  <2>5. Published(s)
    BY <1>1, <1>3 DEF Published
  <2>6. Posted(requests, seq, s) = requests
    BY <1>3, SendsNothing DEF SequencerInv
  <2>7. Published(seq)'
    BY <1>2, <2>1, <2>5 DEF Published
  <2> QED  BY <1>2, <1>3, <2>1, <2>2, <2>3, <2>4, <2>6, <2>7, CallbackInv DEF Sound
<1>7. CASE NewRoute(s)
  <2>1. seq' = d
    BY <1>2, <1>5, <1>7
  <2>2. ~ Pending(d) /\ ~ HasProgress(d)
    BY <1>4, <1>7 DEF Pending, NoTransition, HasProgress
  <2>3. Progress(d)
    <3>1. d.segment # NoSegment => d.segment.needs \in Profiles
      BY <1>1, <1>4, <1>7 DEF Progress
    <3> QED  BY <1>4, <1>7, <2>2, <3>1 DEF Progress
  <2>4. Goes(seq, d)
    BY <1>1, <1>4, <1>7 DEF Goes
  <2>5. Held(d, requests, params)
    BY <1>1, <1>4, <1>7 DEF Held
  <2>6. Published(d)
    BY <1>3, <1>4, <1>7 DEF Published, Topics
  <2>7. Posted(requests, seq, d) = requests
    BY <1>4, <1>7, SendsNothing DEF SequencerInv
  <2>8. Published(seq)'
    BY <1>2, <2>1, <2>6 DEF Published
  <2> QED  BY <1>2, <1>4, <1>7, <2>1, <2>3, <2>4, <2>5, <2>7, <2>8, CallbackInv
           DEF Sound
<1> QED  BY <1>6, <1>7

LEMMA odomInv ==
  ASSUME SequencerInv, odomCallback
  PROVE  SequencerInv'
<1> DEFINE d == [seq EXCEPT !.odom = body, !.fresh = TRUE]
<1>1. Sound(seq) /\ seq \in Members /\ body \in Int /\ TRUE \in BOOLEAN
  BY DEF SequencerInv, SequencerTypes, Sound
<1>2. d \in Members
  BY <1>1, MarkTypes
<1>3. SameWay(seq, d)
  BY <1>1, <1>2 DEF Members, SameWay, SameRoute, SameSwitch
<1>4. seq' = d /\ UNCHANGED <<published, requests, replies, params, body>>
  BY DEF odomCallback, nodes
<1> HIDE DEF d
<1>5. Sound(d) /\ SameRoute(seq, d) /\ Goes(seq, d) /\ Keeps(seq, d)
  BY <1>1, <1>2, <1>3, SameWayStep
<1>6. Posted(requests, seq, d) = requests
  BY <1>3, SendsNothing DEF SequencerInv, SameWay
<1> QED  BY <1>4, <1>5, <1>6, KeepingInv

LEMMA goalInv ==
  ASSUME SequencerInv, NEW goal \in Int, goalCallback(goal)
  PROVE  SequencerInv'
<1> DEFINE d == [seq EXCEPT !.goal = goal]
<1>1. Sound(seq) /\ seq \in Members
  BY DEF SequencerInv, SequencerTypes, Sound
<1>2. d \in Members
  BY <1>1, GoalTypes
<1>3. SameWay(seq, d) /\ SameWay(seq, seq)
  BY <1>1, <1>2 DEF Members, SameWay, SameRoute, SameSwitch
<1>4. /\ seq' = d \/ seq' = seq
      /\ UNCHANGED <<published, requests, replies, params, body>>
  BY DEF goalCallback, nodes
<1> HIDE DEF d
<1>5. /\ Sound(d) /\ SameRoute(seq, d) /\ Goes(seq, d) /\ Keeps(seq, d)
      /\ Sound(seq) /\ SameRoute(seq, seq) /\ Goes(seq, seq) /\ Keeps(seq, seq)
  BY <1>1, <1>2, <1>3, SameWayStep
<1>6. Posted(requests, seq, d) = requests /\ Posted(requests, seq, seq) = requests
  BY <1>3, SendsNothing DEF SequencerInv, SameWay
<1> QED  BY <1>4, <1>5, <1>6, KeepingInv

LEMMA TimerInv ==
  ASSUME SequencerAssumption, SequencerInv,
         NEW up \in SUBSET Nodes, NEW transformed \in BOOLEAN,
         updateTimer(up, transformed)
  PROVE  SequencerInv'
<1>1. Sound(seq) /\ TargetCount(seq) \in Nat
  BY CountType DEF SequencerInv, SequencerTypes
<1>2. seq.transition.revision <= seq.revision
  BY DEF SequencerInv, Calls, Numbered
<1>3. /\ seq' = updateTimerResult(seq, up, transformed)
      /\ UNCHANGED <<published, replies, params, body>>
  BY DEF updateTimer
<1>4. Sound(seq') /\ SameRoute(seq, seq') /\ Goes(seq, seq') /\ Keeps(seq, seq')
  BY <1>1, <1>2, <1>3, TimerStep
<1>5. requests' = Posted(requests, seq, seq')
  BY SendsPosted DEF updateTimer
<1> QED  BY <1>3, <1>4, <1>5, KeepingInv

\* A node that has a call to take holds nothing back: no window is exposed then.
LEMMA ServeInv ==
  ASSUME SequencerInv, NEW n \in Nodes, Serve(n)
  PROVE  SequencerInv'
<1>1. PICK success \in BOOLEAN : Took(n, success)
  <2>1. Took(n, TRUE) \/ Took(n, FALSE)
    BY DEF Serve, Took
  <2> QED  BY <2>1
<1>2. /\ SequencerTypes /\ Calls(seq, requests, replies) /\ Runs(seq, replies, params)
      /\ Held(seq, requests, params) /\ UNCHANGED <<seq, published, body>>
  BY DEF SequencerInv, Serve
<1>3. Calls(seq, requests', replies') /\ Runs(seq, replies', params')
  BY <1>1, <1>2, ServeCalls
<1>4. ~ Quiet(requests)
  BY <1>1 DEF Took, Quiet
<1>5. Held(seq, requests', params')
  BY <1>2, <1>4 DEF Held
<1>6. /\ requests[n] \in Seq(Requests) /\ requests[n] # <<>>
      /\ requests \in [Nodes -> Seq(Requests)] /\ Real(requests)
      /\ replies \subseteq Replies /\ params \in [Nodes -> Profiles \cup {"launch"}]
  BY <1>1, <1>2 DEF SequencerTypes, Took
<1>7. /\ Head(requests[n]) \in Requests /\ Tail(requests[n]) \in Seq(Requests)
      /\ Head(requests[n]).profile \in Profiles
      /\ \A i \in DOMAIN Tail(requests[n]) : Tail(requests[n])[i].profile \in Profiles
  <2>1. /\ Head(requests[n]) \in Requests /\ Head(requests[n]) = requests[n][1]
        /\ Tail(requests[n]) \in Seq(Requests)
        /\ Len(Tail(requests[n])) = Len(requests[n]) - 1
        /\ \A i \in 1 .. Len(Tail(requests[n])) : Tail(requests[n])[i] = requests[n][i + 1]
        /\ Len(requests[n]) \in Nat \ {0}
        /\ DOMAIN requests[n] = 1 .. Len(requests[n])
        /\ DOMAIN Tail(requests[n]) = 1 .. Len(Tail(requests[n]))
    BY <1>6, HeadTailProperties, LenProperties, EmptySeq
  <2>2. \A i \in DOMAIN requests[n] : requests[n][i].profile \in Profiles
    BY <1>6 DEF Real
  <2> HIDE DEF Requests
  <2>3. 1 \in DOMAIN requests[n]
    BY <2>1
  <2>4. \A i \in DOMAIN Tail(requests[n]) :
          i + 1 \in DOMAIN requests[n] /\ Tail(requests[n])[i] = requests[n][i + 1]
    BY <2>1
  <2> QED  BY <2>1, <2>2, <2>3, <2>4
<1>8. requests' \in [Nodes -> Seq(Requests)] /\ Real(requests')
  <2>1. requests' = [requests EXCEPT ![n] = Tail(requests[n])]
    BY <1>1 DEF Took
  <2> QED  BY <1>6, <1>7, <2>1 DEF Real
<1>9. replies' \subseteq Replies
  <2>1. [node |-> n, revision |-> Head(requests[n]).revision, success |-> success]
          \in Replies
    BY <1>7 DEF Requests, Replies
  <2> QED  BY <1>1, <1>6, <2>1 DEF Took
<1>10. params' \in [Nodes -> Profiles \cup {"launch"}]
  BY <1>1, <1>6, <1>7 DEF Took
<1>11. SequencerTypes'
  BY <1>2, <1>8, <1>9, <1>10 DEF SequencerTypes, Published
<1> QED  BY <1>2, <1>3, <1>5, <1>11 DEF SequencerInv

LEMMA DriveInv ==
  ASSUME SequencerInv, Drive
  PROVE  SequencerInv'
<1>1. seq \in Members /\ body \in Int
  BY DEF SequencerInv, SequencerTypes, Sound
<1>2. body' \in Int
  BY <1>1 DEF Drive, Towards, Members, Segments
<1>3. UNCHANGED <<seq, published, requests, replies, params>>
  BY DEF Drive, nodes
<1>4. SequencerTypes'
  BY <1>2, <1>3 DEF SequencerInv, SequencerTypes, Published
<1> QED  BY <1>3, <1>4 DEF SequencerInv

\* A stale answer is dropped, a refusal is asked again, a confirmation may be the
\* last one of its transition.
LEMMA ResponseInv ==
  ASSUME SequencerInv, NEW reply, NEW up \in SUBSET Nodes,
         handleProfileResponse(reply, up)
  PROVE  SequencerInv'
<1> DEFINE fewer == replies \ {reply}
           refused == Refused(seq, reply.node)
           k == Confirmed(seq, reply.node)
           d == finishProfileTransitionIfReady(k, up)
<1>1. /\ Sound(seq) /\ seq \in Members /\ Progress(seq)
      /\ requests \in [Nodes -> Seq(Requests)] /\ Real(requests)
      /\ replies \in SUBSET Replies /\ reply \in replies /\ reply.node \in Nodes
      /\ Calls(seq, requests, replies) /\ Runs(seq, replies, params)
      /\ Held(seq, requests, params) /\ Published(seq)
  BY DEF SequencerInv, SequencerTypes, Sound, handleProfileResponse, Replies
<1>2. /\ replies' = fewer /\ UNCHANGED <<published, params, body>>
      /\ seq' = Answered(reply, up) /\ requests' = Posted(requests, seq, seq')
      /\ fewer \subseteq Replies
  BY <1>1, SendsPosted DEF handleProfileResponse
<1>3. Answered(reply, up) =
        IF Stale(reply) THEN seq ELSE IF ~ reply.success THEN refused ELSE d
  BY DEF Answered, Refused, Confirmed
<1> HIDE DEF fewer
<1>4. ASSUME Sound(seq'), SameRoute(seq, seq'),
             requests' \in [Nodes -> Seq(Requests)], Real(requests'),
             Calls(seq', requests', fewer), Runs(seq', fewer, params),
             Held(seq', requests', params)
      PROVE  SequencerInv'
  <2>1. Published(seq)'
    BY <1>1, <1>2, <1>4 DEF Published, SameRoute
  <2>2. SequencerTypes'
    BY <1>2, <1>4, <2>1 DEF SequencerInv, SequencerTypes
  <2> QED  BY <1>2, <1>4, <2>2 DEF SequencerInv
<1>5. CASE Stale(reply)
  <2>1. seq' = seq /\ SameSwitch(seq, seq) /\ SameRoute(seq, seq)
    BY <1>2, <1>3, <1>5 DEF SameSwitch, SameRoute
  <2>2. requests' = requests
    BY <1>2, <2>1, SendsNothing DEF SequencerInv
  <2>3. Calls(seq, requests, fewer) /\ Runs(seq, fewer, params)
    BY <1>1, DroppedAnswer DEF fewer
  <2> QED  BY <1>1, <1>4, <2>1, <2>2, <2>3
<1>6. ASSUME ~ Stale(reply)
      PROVE  Pending(seq) /\ reply.revision = seq.transition.revision
             /\ seq.segment = NoSegment
  BY <1>1, <1>6 DEF Stale, Progress
<1>7. CASE ~ Stale(reply) /\ ~ reply.success
  <2>1. seq' = refused
    BY <1>2, <1>3, <1>7
  <2>2. Calls(refused, requests, fewer) /\ Runs(refused, fewer, params)
    BY <1>1, <1>6, <1>7, RefusedAnswer DEF fewer
  <2> DEFINE tr == [seq.transition EXCEPT !.sent = @ \ {reply.node}]
  <2>3. /\ tr \in Transitions /\ tr.revision = seq.transition.revision
        /\ tr.profile = seq.transition.profile
        /\ tr.confirmed = seq.transition.confirmed
        /\ tr.sent \subseteq seq.transition.sent
    BY <1>1 DEF Members, Transitions
  <2>4. refused = [seq EXCEPT !.transition = tr]
    BY DEF Refused
  <2> HIDE DEF tr
  <2>5. refused \in Members
    BY <1>1, <2>3, <2>4 DEF Members
  <2>6. /\ refused.transition = tr /\ SameRoute(seq, refused)
        /\ refused.segment = seq.segment /\ refused.applied = seq.applied
        /\ refused.sequence = seq.sequence /\ refused.position = seq.position
        /\ refused.floor = seq.floor /\ refused.complete = seq.complete
    BY <1>1, <2>4 DEF Members, SameRoute
  <2> HIDE DEF refused
  <2>7. Pending(refused) /\ Progress(refused)
    BY <1>1, <1>6, <1>7, <2>3, <2>6
       DEF Progress, Pending, HasProgress, TargetCount, SameRoute
  <2>8. Posted(requests, seq, refused) = requests
    <3>1. NewlySent(seq, refused) = {}
      BY <2>3, <2>6 DEF NewlySent
    <3> QED  BY <1>1, <3>1, PostedNothing
  <2>9. Held(refused, requests, params)
    BY <1>6, <1>7, <2>6, <2>7 DEF Held
  <2> QED  BY <1>1, <1>2, <1>4, <2>1, <2>2, <2>5, <2>6, <2>7, <2>8, <2>9 DEF Sound
<1>8. CASE ~ Stale(reply) /\ reply.success
  <2>1. seq' = d
    BY <1>2, <1>3, <1>8
  <2>2. Calls(k, requests, fewer) /\ Runs(k, fewer, params)
    BY <1>1, <1>6, <1>8, ConfirmedAnswer DEF fewer
  <2> DEFINE tr == [seq.transition EXCEPT !.confirmed = @ \cup {reply.node}]
  <2>3. /\ tr \in Transitions /\ tr.revision = seq.transition.revision
        /\ tr.profile = seq.transition.profile
        /\ tr.sent = seq.transition.sent
    BY <1>1 DEF Members, Transitions
  <2>4. k = [seq EXCEPT !.transition = tr]
    BY DEF Confirmed
  <2> HIDE DEF tr
  <2>5. k \in Members
    BY <1>1, <2>3, <2>4 DEF Members
  <2>6. /\ k.transition = tr /\ SameRoute(seq, k)
        /\ k.segment = seq.segment /\ k.applied = seq.applied
        /\ k.sequence = seq.sequence /\ k.position = seq.position
        /\ k.floor = seq.floor /\ k.complete = seq.complete
    BY <1>1, <2>4 DEF Members, SameRoute
  <2> HIDE DEF k
  <2>7. Pending(k) /\ Progress(k)
    BY <1>1, <1>6, <1>8, <2>3, <2>6
       DEF Progress, Pending, HasProgress, TargetCount, SameRoute
  <2>8. Held(k, requests, params)
    BY <1>6, <1>8, <2>6, <2>7 DEF Held
  <2>9. Sound(d) /\ SameRoute(k, d) /\ Goes(k, d) /\ Keeps(k, d)
    BY <2>5, <2>7, FinishStep DEF Sound
  <2> HIDE DEF d
  <2>10. Posted(requests, seq, d) = Posted(requests, k, d)
    <3>1. NewlySent(seq, d) = NewlySent(k, d)
      BY <2>3, <2>6 DEF NewlySent
    <3> QED  BY <3>1 DEF Posted
  <2>11. d \in Members /\ Progress(d)
    BY <2>9 DEF Sound
  <2>12. fewer \in SUBSET Replies
    BY <1>2
  <2>13. Calls(d, Posted(requests, k, d), fewer) /\ Runs(d, fewer, params)
    BY <1>1, <2>2, <2>5, <2>9, <2>11, <2>12, GoesCalls
  <2>14. Held(d, Posted(requests, k, d), params)
    BY <1>1, <2>2, <2>5, <2>7, <2>8, <2>9, <2>11, <2>12, KeepsHeld
  <2>15. /\ Posted(requests, k, d) \in [Nodes -> Seq(Requests)]
         /\ Real(Posted(requests, k, d))
    BY <1>1, <2>5, <2>9, PostedType
  <2>16. SameRoute(seq, d)
    BY <2>6, <2>9 DEF SameRoute
  <2> QED  BY <1>2, <1>4, <2>1, <2>9, <2>10, <2>13, <2>14, <2>15, <2>16
<1> QED  BY <1>5, <1>7, <1>8

-----------------------------------------------------------------------------
(* The theorems                                                              *)

\* The invariant holds of every state.
THEOREM SequencerInvariant == Spec => []SequencerInv
<1>1. Init => SequencerInv
  BY InitInv, SequencerAssumption
<1>2. SequencerInv /\ [Next]_vars => SequencerInv'
  <2> SUFFICES ASSUME SequencerInv, [Next]_vars
               PROVE  SequencerInv'
    OBVIOUS
  <2>1. CASE Publish
    BY <2>1, PublishInv, SequencerAssumption
  <2>2. ASSUME NEW t \in Topics, Receive(t)
        PROVE  SequencerInv'
    BY <2>2, ReceiveInv, SequencerAssumption
  <2>3. CASE odomCallback
    BY <2>3, odomInv
  <2>4. ASSUME NEW goal \in Goals, goalCallback(goal)
        PROVE  SequencerInv'
    <3>1. goal \in Int
      BY SequencerAssumption DEF SequencerAssumption
    <3> QED  BY <2>4, <3>1, goalInv
  <2>5. ASSUME NEW up \in SUBSET Nodes, NEW transformed \in BOOLEAN,
               updateTimer(up, transformed)
        PROVE  SequencerInv'
    BY <2>5, TimerInv, SequencerAssumption
  <2>6. ASSUME NEW n \in Nodes, Serve(n)
        PROVE  SequencerInv'
    BY <2>6, ServeInv
  <2>7. ASSUME NEW reply \in replies, NEW up \in SUBSET Nodes,
               handleProfileResponse(reply, up)
        PROVE  SequencerInv'
    BY <2>7, ResponseInv
  <2>8. CASE Drive
    BY <2>8, DriveInv
  <2>9. CASE UNCHANGED vars
    <3>1. UNCHANGED <<seq, published, requests, replies, params, body>>
      BY <2>9 DEF vars, nodes
    <3>2. SequencerTypes'
      BY <3>1 DEF SequencerInv, SequencerTypes, Published
    <3> QED  BY <3>1, <3>2 DEF SequencerInv
  <2> QED  BY <2>1, <2>2, <2>3, <2>4, <2>5, <2>6, <2>7, <2>8, <2>9 DEF Next
<1> QED  BY <1>1, <1>2, PTL DEF Spec

\* SequencerSafe: progress stays inside the sequence that was loaded, and while
\* the planner has a stretch to plan on every node runs with the profile that the
\* stretch needs (requestPlannerWindow), whatever was abandoned or answered late.
THEOREM SequencerCorrect == Spec => []SequencerSafe
<1>1. SequencerInv => SequencerSafe
  <2> SUFFICES ASSUME SequencerInv
               PROVE  SequencerSafe
    OBVIOUS
  <2>1. seq \in Members /\ Progress(seq) /\ Published(seq)
        /\ Held(seq, requests, params)
        /\ params \in [Nodes -> Profiles \cup {"launch"}]
    BY DEF SequencerInv, SequencerTypes, Sound
  <2>2. seq.received \in [Topics -> 0 .. published]
    BY <2>1 DEF Members, Published
  <2>3. seq.transition.sent \cup seq.transition.confirmed \subseteq Nodes
        /\ seq.applied \in Profiles \cup {"none"}
    BY <2>1 DEF Members, Transitions
  <2>4. \A w \in Windows : w = seq.segment /\ seq.segment # NoSegment
    BY DEF Windows
  <2>5. SequencerTypeOK
    BY <2>1, <2>2, <2>3, <2>4 DEF SequencerTypeOK, Progress, Published
  <2>6. SegmentUnderItsProfile
    BY <2>1, <2>4 DEF SegmentUnderItsProfile, Held
  <2> QED  BY <2>5, <2>6 DEF SequencerSafe
<1> QED  BY <1>1, SequencerInvariant, PTL
=============================================================================
