------------------------------ MODULE RelayProofs ------------------------------
(***************************************************************************)
(* Proofs about the two ways a stream goes from one server to another.     *)
(*                                                                         *)
(* RtmpRelay: for any number of targets, whatever is said on the outbound  *)
(* connections and in whatever order they end, what is configured to be    *)
(* kept alive is in a queue or on a connection.  The property is not       *)
(* inductive.  A job that is lost from a queue need not have been that of  *)
(* its target, unless each queue has only jobs of its kind (QueuesApart)   *)
(* and the variables their types; and that there is exactly one puller is  *)
(* kept only with the two ways of it told apart (OnePuller): a job and no  *)
(* connection, or a connection and no job, until the pull has been         *)
(* refused.  OnePuller speaks of positions in sequences, the property of   *)
(* how many there are: OnePullerIsCounted goes from one to the other.      *)
(*                                                                         *)
(* RtpMedia: for every range of the sequence numbers and of the times, the *)
(* NAL units are whole and in order and the counters exact.  The receiver  *)
(* sees a number modulo the range: that the packet in step is the next one *)
(* follows because what is on its way is within a quarter behind and a     *)
(* half ahead of the newest one (WireHolds, NextInWindow), that a smaller  *)
(* number is a roll because what is a little older is dropped              *)
(* (NewestGrows), and that a roll of the time is seen because the top bit  *)
(* falls only there (LineGoesOn).  What is kept of a unit is its beginning *)
(* (NaluHolds) because consecutive packets fit together (PacketsFit).      *)
(***************************************************************************)
EXTENDS RtmpRelay, RtpMedia, FiniteSetTheorems, TLAPS

Destinations == Targets \cup {Pull}
Jobs == [to : Destinations, auth : BOOLEAN]
Stages == {"dialing", "shaking", "up", "doomed"}
Invokes == {"connect", "FCSubscribe", "createStream", "play", "publish"}
Links == [to : Destinations, auth : BOOLEAN, uid : Nat, stage : Stages,
          tracked : Seq(Invokes), streams : [RtmpIds -> {"none", "neutral", "in", "out"}],
          feeds : BOOLEAN]

RelayTypes ==
  /\ pulls \in Seq(Jobs) /\ pushes \in Seq(Jobs) /\ links \in Seq(Links)
  /\ source \in Nat /\ registrations \in Nat

\* Each queue has the jobs of its kind, and only pushes are of a stream.
QueuesApart ==
  /\ \A n \in DOMAIN pulls : pulls[n].to = Pull
  /\ \A n \in DOMAIN pushes : pushes[n].to # Pull
  /\ \A i \in DOMAIN links : links[i].to = Pull => links[i].uid = 0

PullGivenUp == <<Pull, 0>> \in refused

\* One job or one connection pulls, until the pull is given up.
OnePuller ==
  Pull \in KeepAlive =>
    /\ PullGivenUp => /\ pulls = <<>>
                      /\ \A i \in DOMAIN links : links[i].to # Pull
    /\ Len(pulls) <= 1
    /\ pulls # <<>> => \A i \in DOMAIN links : links[i].to # Pull
    /\ \A i, j \in DOMAIN links :
         links[i].to = Pull /\ links[j].to = Pull => i = j
    /\ ~PullGivenUp /\ pulls = <<>> => \E i \in DOMAIN links : links[i].to = Pull

RelayInv == RelayTypes /\ QueuesApart /\ OnePuller /\ PushNeverForgotten

-----------------------------------------------------------------------------
(* Sequences *)

\* SetToSeq lists the elements of a finite set.
LEMMA SetIsListed ==
  ASSUME NEW S, IsFiniteSet(S)
  PROVE  /\ SetToSeq(S) \in Seq(S)
         /\ \A x \in S : \E n \in DOMAIN SetToSeq(S) : SetToSeq(S)[n] = x
<1> DEFINE D == 1 .. Cardinality(S)
           q == SetToSeq(S)
<1>1. Cardinality(S) \in Nat /\ ExistsBijection(D, S)
  BY FS_CardinalityType
<1>2. PICK b \in Bijection(D, S) : TRUE
  BY <1>1 DEF ExistsBijection
<1>3. b \in [D -> S] /\ IsInjective(b)
  BY <1>2 DEF Bijection, Injection
<1>4. q \in [D -> S] /\ IsInjective(q)
  BY <1>3, Zenon DEF SetToSeq
<1>5. q \in Injection(D, S)
  BY <1>4 DEF Injection
<1>6. Cardinality(D) = Cardinality(S)
  BY <1>1, FS_Interval
<1>7. q \in Surjection(D, S)
  BY <1>5, <1>6, FS_Injection
<1>8. q \in Seq(S)
  BY <1>1, <1>4
<1>9. DOMAIN q = D
  BY <1>4
<1> QED
  BY <1>7, <1>8, <1>9 DEF Surjection

\* The set of jobs for all targets is one of jobs, and finite.
LEMMA JobsAreListed ==
  /\ IsFiniteSet({Job(t, FALSE) : t \in Targets})
  /\ {Job(t, FALSE) : t \in Targets} \subseteq Jobs
<1> DEFINE S == {Job(t, FALSE) : t \in Targets}
           f == [t \in Targets |-> Job(t, FALSE)]
<1>1. f \in Surjection(Targets, S)
  BY DEF Surjection
<1>2. IsFiniteSet(Targets)
  BY RelayAssumption
<1>3. IsFiniteSet(S)
  BY <1>1, <1>2, FS_Surjection
<1>4. \A t \in Targets : Job(t, FALSE) \in Jobs
  BY DEF Job, Jobs, Destinations
<1> QED
  BY <1>3, <1>4

\* What is left when one element of a sequence is removed.
LEMMA Removed ==
  ASSUME NEW S, NEW s \in Seq(S), NEW i \in 1 .. Len(s)
  PROVE  /\ RemoveAt(s, i) \in Seq(S) /\ Len(RemoveAt(s, i)) = Len(s) - 1
         /\ \A j \in 1 .. i - 1 : RemoveAt(s, i)[j] = s[j]
         /\ \A j \in i .. Len(s) - 1 : RemoveAt(s, i)[j] = s[j + 1]
<1> DEFINE a == SubSeq(s, 1, i - 1)
           b == SubSeq(s, i + 1, Len(s))
<1>1. a \in Seq(S) /\ Len(a) = i - 1 /\ \A j \in 1 .. i - 1 : a[j] = s[j]
  OBVIOUS
<1>2. b \in Seq(S) /\ Len(b) = Len(s) - i /\ \A j \in 1 .. Len(s) - i : b[j] = s[j + i]
  OBVIOUS
<1>3. RemoveAt(s, i) = a \o b
  BY DEF RemoveAt
<1> HIDE DEF a, b
<1>4. a \o b \in Seq(S) /\ Len(a \o b) = Len(a) + Len(b)
  <2>1. a \in Seq(S) /\ b \in Seq(S)
    BY <1>1, <1>2
  <2>2. a \o b \in Seq(S)
    BY <2>1
  <2>3. Len(a \o b) = Len(a) + Len(b)
    BY <2>1
  <2> QED
    BY <2>2, <2>3
<1>5. ASSUME NEW j \in 1 .. i - 1
      PROVE  (a \o b)[j] = s[j]
  <2>1. j \in 1 .. Len(a) /\ j \in 1 .. Len(a) + Len(b)
    BY <1>1, <1>2
  <2>2. (a \o b)[j] = a[j]
    BY <1>1, <1>2, <2>1
  <2> QED
    BY <1>1, <2>2
<1>6. ASSUME NEW j \in i .. Len(s) - 1
      PROVE  (a \o b)[j] = s[j + 1]
  <2>1. j \in Len(a) + 1 .. Len(a) + Len(b) /\ j - Len(a) \in 1 .. Len(s) - i
    BY <1>1, <1>2
  <2>2. (a \o b)[j] = b[j - Len(a)]
    BY <1>1, <1>2, <2>1
  <2>3. b[j - Len(a)] = s[j - Len(a) + i]
    BY <1>2, <2>1
  <2>4. j - Len(a) + i = j + 1
    BY <1>1
  <2> QED
    BY <2>2, <2>3, <2>4
<1>7. /\ RemoveAt(s, i) \in Seq(S) /\ Len(RemoveAt(s, i)) = Len(s) - 1
  BY <1>1, <1>2, <1>3, <1>4
<1> QED
  BY <1>3, <1>5, <1>6, <1>7

\* The elements of two sequences are those of their concatenation.
LEMMA Joined ==
  ASSUME NEW S, NEW s \in Seq(S), NEW t \in Seq(S)
  PROVE  /\ s \o t \in Seq(S) /\ Len(s \o t) = Len(s) + Len(t)
         /\ \A i \in DOMAIN s : i \in DOMAIN (s \o t) /\ (s \o t)[i] = s[i]
         /\ \A i \in DOMAIN t : /\ Len(s) + i \in DOMAIN (s \o t)
                                /\ (s \o t)[Len(s) + i] = t[i]
         /\ \A i \in DOMAIN (s \o t) :
              \/ i \in DOMAIN s
              \/ i - Len(s) \in DOMAIN t /\ (s \o t)[i] = t[i - Len(s)]
<1>0. Len(s) \in Nat /\ Len(t) \in Nat
  OBVIOUS
<1>1. DOMAIN s = 1 .. Len(s) /\ DOMAIN t = 1 .. Len(t)
      /\ DOMAIN (s \o t) = 1 .. Len(s) + Len(t)
  OBVIOUS
<1>2. s \o t \in Seq(S) /\ Len(s \o t) = Len(s) + Len(t)
  OBVIOUS
<1>3. \A i \in 1 .. Len(s) : (s \o t)[i] = s[i]
  OBVIOUS
<1>4. ASSUME NEW i \in 1 .. Len(t)
      PROVE  (s \o t)[Len(s) + i] = t[i]
  OBVIOUS
<1>5. ASSUME NEW i \in 1 .. Len(s) + Len(t), i \notin 1 .. Len(s)
      PROVE  i - Len(s) \in 1 .. Len(t) /\ (s \o t)[i] = t[i - Len(s)]
  <2>1. i \in Nat /\ Len(s) < i /\ i <= Len(s) + Len(t)
    BY <1>0, <1>5
  <2> DEFINE k == i - Len(s)
  <2>2. k \in 1 .. Len(t) /\ Len(s) + k = i
    BY <1>0, <2>1
  <2> HIDE DEF k
  <2>3. (s \o t)[i] = t[k]
    BY <1>4, <2>2
  <2> QED
    BY <2>2, <2>3 DEF k
<1> QED
  BY <1>1, <1>2, <1>3, <1>4, <1>5

-----------------------------------------------------------------------------
(* The steps *)

LEMMA InitRelays == RelayInit => RelayInv
<1> SUFFICES ASSUME RelayInit PROVE RelayInv
  OBVIOUS
<1> DEFINE l == Dialed(Job(Pull, FALSE), 0)
<1>1. l \in Links /\ l.to = Pull /\ l.uid = 0
  BY DEF Dialed, Job, Links, Destinations, Stages
<1>2. /\ links = <<l>> /\ pulls = <<>> /\ pushes = <<>> /\ source = 0
      /\ registrations = 0 /\ refused = {}
  BY DEF RelayInit
<1> HIDE DEF l
<1>3. Len(links) = 1 /\ links[1] = l /\ links \in Seq(Links) /\ DOMAIN links = {1}
  BY <1>1, <1>2
<1>4. RelayTypes
  BY <1>2, <1>3 DEF RelayTypes
<1>5. QueuesApart
  BY <1>1, <1>2, <1>3 DEF QueuesApart
<1>6. OnePuller
  BY <1>1, <1>2, <1>3 DEF OnePuller, PullGivenUp
<1>7. PushNeverForgotten
  BY <1>2 DEF PushNeverForgotten
<1> QED
  BY <1>4, <1>5, <1>6, <1>7 DEF RelayInv

\* A stream that is registered has a push waiting for every target.
LEMMA RegisteringRelays ==
  ASSUME RelayInv, SignalStreamRegistered, pulls' = pulls, refused' = refused,
         links' \in Seq(Links), Len(links') = Len(links),
         \A i \in DOMAIN links : /\ links'[i].to = links[i].to
                                 /\ links'[i].uid = links[i].uid
  PROVE  RelayInv'
<1> DEFINE S == {Job(t, FALSE) : t \in Targets}
           q == SetToSeq(S)
<1>1. pushes \in Seq(Jobs) /\ pushes' = pushes \o q
  BY DEF RelayInv, RelayTypes, SignalStreamRegistered
<1>2. q \in Seq(S) /\ \A x \in S : \E n \in DOMAIN q : q[n] = x
  BY SetIsListed, JobsAreListed, Zenon
<1>20. \A x \in S : x \in Jobs /\ x.to # Pull
  BY JobsAreListed, RelayAssumption DEF Job
<1>21. ASSUME NEW t \in Targets
       PROVE  \E x \in S : x.to = t
  <2>1. Job(t, FALSE) \in S
    OBVIOUS
  <2>2. Job(t, FALSE).to = t
    BY DEF Job
  <2> QED
    BY <2>1, <2>2
<1> HIDE DEF q, S
<1>3. q \in Seq(Jobs)
  BY <1>2, <1>20
<1>4. \A n \in DOMAIN q : q[n].to # Pull
  BY <1>2, <1>20
<1>5. ASSUME NEW t \in Targets
      PROVE  \E n \in DOMAIN q : q[n].to = t
  <2>1. PICK x \in S : x.to = t
    BY <1>21
  <2> QED
    BY <1>2, <2>1
<1>6. DOMAIN links = 1 .. Len(links) /\ DOMAIN links' = DOMAIN links
  BY DEF RelayInv, RelayTypes
<1>7. pushes' \in Seq(Jobs)
  BY <1>1, <1>3, Joined
<1>8. RelayTypes'
  BY <1>7 DEF RelayInv, RelayTypes, SignalStreamRegistered
<1>9. \A n \in DOMAIN pushes' : pushes'[n].to # Pull
  BY <1>1, <1>3, <1>4, Joined DEF RelayInv, QueuesApart
<1>10. QueuesApart'
  BY <1>6, <1>9 DEF RelayInv, QueuesApart
<1>11. OnePuller'
  BY <1>6 DEF RelayInv, OnePuller, PullGivenUp
<1>12. ASSUME NEW t \in Targets
       PROVE  \E n \in DOMAIN pushes' : pushes'[n].to = t
  <2>1. PICK n \in DOMAIN q : q[n].to = t
    BY <1>5
  <2>2. /\ Len(pushes) + n \in DOMAIN pushes'
        /\ pushes'[Len(pushes) + n] = q[n]
    BY <1>1, <1>3, Joined
  <2> QED
    BY <2>1, <2>2
<1>13. PushNeverForgotten'
  BY <1>12 DEF PushNeverForgotten
<1> QED
  BY <1>8, <1>10, <1>11, <1>13 DEF RelayInv

\* A connection that only goes on relays what it did.
LEMMA BecomingRelays ==
  ASSUME RelayInv, NEW i \in DOMAIN links, NEW l \in Links,
         l.to = links[i].to, l.uid = links[i].uid, Become(i, l)
  PROVE  RelayInv'
<1>1. /\ links' = [links EXCEPT ![i] = l]
      /\ UNCHANGED <<pulls, pushes, source, registrations, refused>>
  BY DEF Become
<1>2. links \in Seq(Links)
  BY DEF RelayInv, RelayTypes
<1>3. /\ links' \in Seq(Links) /\ DOMAIN links' = DOMAIN links
      /\ \A j \in DOMAIN links : /\ links'[j].to = links[j].to
                                 /\ links'[j].uid = links[j].uid
  BY <1>1, <1>2
<1>4. RelayTypes'
  BY <1>1, <1>3 DEF RelayInv, RelayTypes
<1>5. QueuesApart'
  BY <1>1, <1>3 DEF RelayInv, QueuesApart
<1>6. OnePuller'
  BY <1>1, <1>3 DEF RelayInv, OnePuller, PullGivenUp
<1>7. PushNeverForgotten'
  BY <1>1, <1>3 DEF RelayInv, PushNeverForgotten
<1> QED
  BY <1>4, <1>5, <1>6, <1>7 DEF RelayInv

LEMMA DoomedRelays ==
  ASSUME RelayInv, NEW i \in DOMAIN links, Doomed(i)
  PROVE  RelayInv'
<1>1. links[i] \in Links
  BY DEF RelayInv, RelayTypes
<1> DEFINE l == [links[i] EXCEPT !.stage = "doomed"]
<1>2. l \in Links /\ l.to = links[i].to /\ l.uid = links[i].uid
  BY <1>1 DEF Links, Stages
<1> QED
  BY <1>2, BecomingRelays DEF Doomed

\* Where an element that is left comes from.
From(i, k) == IF k < i THEN k ELSE k + 1

LEMMA WhatIsLeft ==
  ASSUME NEW S, NEW s \in Seq(S), NEW i \in DOMAIN s
  PROVE  /\ RemoveAt(s, i) \in Seq(S)
         /\ \A k \in DOMAIN RemoveAt(s, i) :
              /\ k \in Nat /\ From(i, k) \in DOMAIN s \ {i}
              /\ RemoveAt(s, i)[k] = s[From(i, k)]
         /\ \A j \in DOMAIN s \ {i} :
              \E k \in DOMAIN RemoveAt(s, i) : RemoveAt(s, i)[k] = s[j]
<1> DEFINE q == RemoveAt(s, i)
<1>1. i \in 1 .. Len(s) /\ DOMAIN s = 1 .. Len(s) /\ Len(s) \in Nat
  OBVIOUS
<1>2. /\ q \in Seq(S) /\ Len(q) = Len(s) - 1
      /\ \A j \in 1 .. i - 1 : q[j] = s[j]
      /\ \A j \in i .. Len(s) - 1 : q[j] = s[j + 1]
  BY <1>1, Removed
<1> HIDE DEF q
<1>3. DOMAIN q = 1 .. Len(s) - 1
  BY <1>1, <1>2
<1>4. ASSUME NEW k \in DOMAIN q
      PROVE  k \in Nat /\ From(i, k) \in DOMAIN s \ {i} /\ q[k] = s[From(i, k)]
  <2>1. CASE k < i
    BY <1>1, <1>2, <1>3, <2>1 DEF From
  <2>2. CASE ~(k < i)
    <3>1. k \in i .. Len(s) - 1
      BY <1>1, <1>3, <2>2
    <3> QED
      BY <1>1, <1>2, <1>3, <2>2, <3>1 DEF From
  <2> QED
    BY <2>1, <2>2
<1>5. ASSUME NEW j \in DOMAIN s \ {i}
      PROVE  \E k \in DOMAIN q : q[k] = s[j]
  <2>1. CASE j < i
    <3>1. j \in DOMAIN q /\ q[j] = s[j]
      BY <1>1, <1>2, <1>3, <2>1
    <3> QED
      BY <3>1
  <2>2. CASE ~(j < i)
    <3>1. j - 1 \in i .. Len(s) - 1 /\ j - 1 + 1 = j
      BY <1>1, <2>2
    <3>2. q[j - 1] = s[j]
      BY <1>2, <3>1
    <3>3. j - 1 \in DOMAIN q
      BY <1>1, <1>3, <3>1
    <3> QED
      BY <3>2, <3>3
  <2> QED
    BY <2>1, <2>2
<1> QED
  BY <1>2, <1>4, <1>5 DEF q

LEMMA FailedRelays ==
  ASSUME RelayInv, NEW i \in DOMAIN links, OutboundConnectionFailed(i)
  PROVE  RelayInv'
<1>1. /\ links' = RemoveAt(links, i)
      /\ refused' = refused \cup {<<links[i].to, links[i].uid>>}
      /\ UNCHANGED <<pulls, pushes, source, registrations>>
  BY DEF OutboundConnectionFailed
<1>2. links \in Seq(Links)
  BY DEF RelayInv, RelayTypes
<1>3. /\ links' \in Seq(Links)
      /\ \A k \in DOMAIN links' :
           /\ k \in Nat /\ From(i, k) \in DOMAIN links \ {i}
           /\ links'[k] = links[From(i, k)]
      /\ \A j \in DOMAIN links \ {i} : \E k \in DOMAIN links' : links'[k] = links[j]
  BY <1>1, <1>2, WhatIsLeft
<1>4. RelayTypes'
  BY <1>1, <1>3 DEF RelayInv, RelayTypes
<1>5. QueuesApart'
  BY <1>1, <1>3 DEF RelayInv, QueuesApart
<1>6. OnePuller'
  <2>1. SUFFICES ASSUME Pull \in KeepAlive
                 PROVE  OnePuller'
    BY DEF OnePuller
  <2>2. CASE links[i].to = Pull
    <3>1. \A j \in DOMAIN links \ {i} : links[j].to # Pull
      BY <2>1, <2>2 DEF RelayInv, OnePuller
    <3>2. pulls = <<>> /\ Len(pulls) <= 1
      BY <2>1, <2>2 DEF RelayInv, OnePuller
    <3>3. <<Pull, 0>> \in refused'
      BY <1>1, <2>2 DEF RelayInv, QueuesApart
    <3> QED
      BY <1>1, <1>3, <3>1, <3>2, <3>3 DEF OnePuller, PullGivenUp
  <2>3. CASE links[i].to # Pull
    <3>1. PullGivenUp' <=> PullGivenUp
      BY <1>1, <2>3 DEF PullGivenUp
    <3>2. ASSUME NEW j \in DOMAIN links', NEW k \in DOMAIN links', From(i, j) = From(i, k)
          PROVE  j = k
      <4>1. i \in Nat
        BY <1>2
      <4> QED
        BY <1>3, <3>2, <4>1 DEF From
    <3>3. ASSUME NEW j \in DOMAIN links', NEW k \in DOMAIN links',
                 links'[j].to = Pull, links'[k].to = Pull
          PROVE  j = k
      BY <1>3, <2>1, <3>2, <3>3 DEF RelayInv, OnePuller
    <3>4. ~PullGivenUp /\ pulls = <<>> => \E k \in DOMAIN links' : links'[k].to = Pull
      BY <1>3, <2>1, <2>3 DEF RelayInv, OnePuller
    <3>5. PullGivenUp \/ pulls # <<>> => \A k \in DOMAIN links' : links'[k].to # Pull
      BY <1>3, <2>1 DEF RelayInv, OnePuller
    <3> QED
      BY <1>1, <2>1, <3>1, <3>3, <3>4, <3>5 DEF RelayInv, OnePuller
  <2> QED
    BY <2>2, <2>3
<1>7. PushNeverForgotten'
  <2>1. SUFFICES ASSUME source # 0, NEW t \in (Targets \cap KeepAlive) \ Unnamed
                 PROVE  \/ \E n \in DOMAIN pushes : pushes[n].to = t
                        \/ \E k \in DOMAIN links' : /\ links'[k].to = t
                                                    /\ links'[k].uid = source
                        \/ <<t, source>> \in refused'
    BY <1>1 DEF PushNeverForgotten
  <2>2. \/ \E n \in DOMAIN pushes : pushes[n].to = t
        \/ \E j \in DOMAIN links : links[j].to = t /\ links[j].uid = source
        \/ <<t, source>> \in refused
    BY <2>1 DEF RelayInv, PushNeverForgotten
  <2>3. CASE \E j \in DOMAIN links : links[j].to = t /\ links[j].uid = source
    <3>1. PICK j \in DOMAIN links : links[j].to = t /\ links[j].uid = source
      BY <2>3
    <3>2. CASE j = i
      BY <1>1, <3>1, <3>2
    <3>3. CASE j # i
      BY <1>3, <3>1, <3>3
    <3> QED
      BY <3>2, <3>3
  <2> QED
    BY <1>1, <2>2, <2>3
<1> QED
  BY <1>4, <1>5, <1>6, <1>7 DEF RelayInv

\* A protocol that ends leaves a job, if its destination is kept alive.
LEMMA UnRegisteredRelays ==
  ASSUME RelayInv, NEW i \in DOMAIN links, UnRegisterProtocol(i)
  PROVE  RelayInv'
<1> DEFINE job == Job(links[i].to, links[i].auth)
           again == IF Retried(links[i]) THEN <<job>> ELSE <<>>
<1>1. /\ links' = RemoveAt(links, i)
      /\ pulls' = IF links[i].to = Pull THEN pulls \o again ELSE pulls
      /\ pushes' = IF links[i].to # Pull THEN pushes \o again ELSE pushes
      /\ source' = IF links[i].feeds THEN 0 ELSE source
      /\ UNCHANGED <<registrations, refused>>
  BY DEF UnRegisterProtocol
<1>2. links \in Seq(Links) /\ pulls \in Seq(Jobs) /\ pushes \in Seq(Jobs)
  BY DEF RelayInv, RelayTypes
<1>3. /\ links' \in Seq(Links)
      /\ \A k \in DOMAIN links' :
           /\ k \in Nat /\ From(i, k) \in DOMAIN links \ {i}
           /\ links'[k] = links[From(i, k)]
      /\ \A j \in DOMAIN links \ {i} : \E k \in DOMAIN links' : links'[k] = links[j]
  BY <1>1, <1>2, WhatIsLeft
<1>4. job \in Jobs /\ job.to = links[i].to
  <2>1. links[i] \in Links
    BY <1>2
  <2> QED
    BY <2>1 DEF Job, Jobs, Links
<1>5. Retried(links[i]) <=> links[i].to \in KeepAlive
  BY DEF Retried
<1> HIDE DEF job
<1>6. again \in Seq(Jobs) /\ (Retried(links[i]) => Len(again) = 1 /\ again[1] = job)
      /\ (~Retried(links[i]) => again = <<>>)
  BY <1>4
<1>7. \A n \in DOMAIN again : again[n].to = links[i].to
  <2>1. CASE Retried(links[i])
    BY <1>4, <1>6, <2>1
  <2>2. CASE ~Retried(links[i])
    BY <1>6, <2>2
  <2> QED
    BY <2>1, <2>2
<1> HIDE DEF again
<1>8. pulls' \in Seq(Jobs) /\ pushes' \in Seq(Jobs)
  BY <1>1, <1>2, <1>6, Joined
<1>9. RelayTypes'
  BY <1>1, <1>3, <1>8 DEF RelayInv, RelayTypes
<1>10. QueuesApart'
  <2>1. \A n \in DOMAIN pulls' : pulls'[n].to = Pull
    BY <1>1, <1>2, <1>6, <1>7, Joined DEF RelayInv, QueuesApart
  <2>2. \A n \in DOMAIN pushes' : pushes'[n].to # Pull
    BY <1>1, <1>2, <1>6, <1>7, Joined DEF RelayInv, QueuesApart
  <2>3. \A k \in DOMAIN links' : links'[k].to = Pull => links'[k].uid = 0
    BY <1>3 DEF RelayInv, QueuesApart
  <2> QED
    BY <2>1, <2>2, <2>3 DEF QueuesApart
<1>11. OnePuller'
  <2>1. SUFFICES ASSUME Pull \in KeepAlive
                 PROVE  OnePuller'
    BY DEF OnePuller
  <2>2. CASE links[i].to = Pull
    <3>1. \A j \in DOMAIN links \ {i} : links[j].to # Pull
      BY <2>1, <2>2 DEF RelayInv, OnePuller
    <3>2. pulls = <<>> /\ ~PullGivenUp
      BY <2>1, <2>2 DEF RelayInv, OnePuller
    <3>3. pulls' = <<>> \o again
      BY <1>1, <2>2, <3>2
    <3>4. Len(again) = 1
      BY <1>5, <1>6, <2>1, <2>2
    <3>5. Len(pulls') = 1 /\ pulls' # <<>>
      BY <1>6, <3>3, <3>4
    <3>6. \A k \in DOMAIN links' : links'[k].to # Pull
      BY <1>3, <3>1
    <3>7. ~PullGivenUp'
      BY <1>1, <3>2 DEF PullGivenUp
    <3> QED
      BY <3>5, <3>6, <3>7 DEF OnePuller
  <2>3. CASE links[i].to # Pull
    <3>1. pulls' = pulls /\ (PullGivenUp' <=> PullGivenUp)
      BY <1>1, <2>3 DEF PullGivenUp
    <3>2. ASSUME NEW j \in DOMAIN links', NEW k \in DOMAIN links', From(i, j) = From(i, k)
          PROVE  j = k
      <4>1. i \in Nat
        BY <1>2
      <4> QED
        BY <1>3, <3>2, <4>1 DEF From
    <3>3. ASSUME NEW j \in DOMAIN links', NEW k \in DOMAIN links',
                 links'[j].to = Pull, links'[k].to = Pull
          PROVE  j = k
      BY <1>3, <2>1, <3>2, <3>3 DEF RelayInv, OnePuller
    <3>4. ~PullGivenUp /\ pulls = <<>> => \E k \in DOMAIN links' : links'[k].to = Pull
      BY <1>3, <2>1, <2>3 DEF RelayInv, OnePuller
    <3>5. PullGivenUp \/ pulls # <<>> => \A k \in DOMAIN links' : links'[k].to # Pull
      BY <1>3, <2>1 DEF RelayInv, OnePuller
    <3> QED
      BY <2>1, <3>1, <3>3, <3>4, <3>5 DEF RelayInv, OnePuller
  <2> QED
    BY <2>2, <2>3
<1>12. PushNeverForgotten'
  <2>1. SUFFICES ASSUME source' # 0, NEW t \in (Targets \cap KeepAlive) \ Unnamed
                 PROVE  \/ \E n \in DOMAIN pushes' : pushes'[n].to = t
                        \/ \E k \in DOMAIN links' : /\ links'[k].to = t
                                                    /\ links'[k].uid = source'
                        \/ <<t, source'>> \in refused'
    BY DEF PushNeverForgotten
  <2>2. source' = source
    BY <1>1, <2>1
  <2>3. \/ \E n \in DOMAIN pushes : pushes[n].to = t
        \/ \E j \in DOMAIN links : links[j].to = t /\ links[j].uid = source
        \/ <<t, source>> \in refused
    BY <2>1, <2>2 DEF RelayInv, PushNeverForgotten
  <2>4. \A n \in DOMAIN pushes : n \in DOMAIN pushes' /\ pushes'[n] = pushes[n]
    BY <1>1, <1>2, <1>6, Joined
  <2>5. CASE \E j \in DOMAIN links : links[j].to = t /\ links[j].uid = source
    <3>1. PICK j \in DOMAIN links : links[j].to = t /\ links[j].uid = source
      BY <2>5
    <3>2. CASE j = i
      <4>1. t # Pull
        BY <2>1, RelayAssumption
      <4>2. pushes' = pushes \o again /\ Len(again) = 1 /\ again[1] = job /\ job.to = t
        BY <1>1, <1>4, <1>5, <1>6, <2>1, <3>1, <3>2, <4>1
      <4>3. 1 \in DOMAIN again
        BY <1>6, <4>2
      <4>4. Len(pushes) + 1 \in DOMAIN pushes' /\ pushes'[Len(pushes) + 1] = again[1]
        BY <1>2, <1>6, <4>2, <4>3, Joined
      <4> QED
        BY <4>2, <4>4
    <3>3. CASE j # i
      BY <1>3, <2>2, <3>1, <3>3
    <3> QED
      BY <3>2, <3>3
  <2> QED
    BY <1>1, <2>2, <2>3, <2>4, <2>5
<1> QED
  BY <1>9, <1>10, <1>11, <1>12 DEF RelayInv

\* The jobs of both queues become connections, but for the pushes that find no
\* stream: those are of no stream that lives, or of a target without a name.
LEMMA ElapsedRelays ==
  ASSUME RelayInv, TimePeriodElapsed
  PROVE  RelayInv'
<1> DEFINE S == {n \in DOMAIN pushes : CanPush(pushes[n])}
           ready == SetToSeq(S)
           a == [n \in DOMAIN pulls |-> Dialed(pulls[n], 0)]
           b == [n \in DOMAIN ready |-> Dialed(pushes[ready[n]], source)]
<1>1. /\ links' = links \o (a \o b) /\ pulls' = <<>> /\ pushes' = <<>>
      /\ UNCHANGED <<source, registrations, refused>>
  BY DEF TimePeriodElapsed, Cleared
<1>2. links \in Seq(Links) /\ pulls \in Seq(Jobs) /\ pushes \in Seq(Jobs) /\ source \in Nat
  BY DEF RelayInv, RelayTypes
<1>3. ready \in Seq(S) /\ \A n \in S : \E m \in DOMAIN ready : ready[m] = n
  <2>1. IsFiniteSet(DOMAIN pushes) /\ S \subseteq DOMAIN pushes
    <3>1. DOMAIN pushes = 1 .. Len(pushes) /\ Len(pushes) \in Int
      BY <1>2
    <3> QED
      BY <3>1, FS_Interval
  <2>2. IsFiniteSet(S)
    BY <2>1, FS_Subset
  <2> QED
    BY <2>2, SetIsListed
<1>4. \A n \in S : n \in DOMAIN pushes /\ CanPush(pushes[n])
  OBVIOUS
<1>5. \A n \in DOMAIN pushes : CanPush(pushes[n]) => n \in S
  OBVIOUS
<1> HIDE DEF S, ready
<1>6. ASSUME NEW job \in Jobs, NEW uid \in Nat
      PROVE  /\ Dialed(job, uid) \in Links
             /\ Dialed(job, uid).to = job.to /\ Dialed(job, uid).uid = uid
  <2> DEFINE l == Dialed(job, uid)
             none == [s \in RtmpIds |-> "none"]
  <2>1. l = [to |-> job.to, auth |-> job.auth, uid |-> uid, stage |-> "dialing",
             tracked |-> <<>>, streams |-> none, feeds |-> FALSE]
    BY DEF Dialed
  <2>2. none \in [RtmpIds -> {"none", "neutral", "in", "out"}]
    OBVIOUS
  <2>3. job.to \in Destinations /\ job.auth \in BOOLEAN
    BY DEF Jobs
  <2> HIDE DEF l, none
  <2>4. l \in Links
    BY <2>1, <2>2, <2>3 DEF Links, Stages
  <2>5. l.to = job.to /\ l.uid = uid
    BY <2>1
  <2> QED
    BY <2>4, <2>5 DEF l
<1>7. /\ a \in Seq(Links) /\ DOMAIN a = DOMAIN pulls /\ Len(a) = Len(pulls)
      /\ \A n \in DOMAIN pulls : a[n].to = pulls[n].to /\ a[n].uid = 0
  <2>1. DOMAIN pulls = 1 .. Len(pulls) /\ \A n \in DOMAIN pulls : pulls[n] \in Jobs
    BY <1>2
  <2>2. \A n \in DOMAIN pulls : a[n] \in Links /\ a[n].to = pulls[n].to /\ a[n].uid = 0
    BY <1>6, <2>1
  <2> QED
    BY <2>1, <2>2
<1>8. /\ b \in Seq(Links)
      /\ DOMAIN b = DOMAIN ready
      /\ \A n \in DOMAIN ready : /\ ready[n] \in DOMAIN pushes
                                 /\ b[n].to = pushes[ready[n]].to /\ b[n].uid = source
  <2>1. /\ DOMAIN ready = 1 .. Len(ready) /\ Len(ready) \in Nat
        /\ \A n \in DOMAIN ready : ready[n] \in DOMAIN pushes
    BY <1>3, <1>4
  <2>2. \A n \in DOMAIN ready : pushes[ready[n]] \in Jobs
    BY <1>2, <2>1
  <2>3. \A n \in DOMAIN ready : /\ b[n] \in Links /\ b[n].to = pushes[ready[n]].to
                                /\ b[n].uid = source
    BY <1>2, <1>6, <2>2
  <2> QED
    BY <2>1, <2>3
<1> HIDE DEF a, b
<1> DEFINE d == a \o b
<1>9. /\ d \in Seq(Links)
      /\ \A n \in DOMAIN a : n \in DOMAIN d /\ d[n] = a[n]
      /\ \A n \in DOMAIN b : Len(a) + n \in DOMAIN d /\ d[Len(a) + n] = b[n]
      /\ \A n \in DOMAIN d : \/ n \in DOMAIN a
                             \/ n - Len(a) \in DOMAIN b /\ d[n] = b[n - Len(a)]
  BY <1>7, <1>8, Joined
<1> HIDE DEF d
<1>10. /\ links' \in Seq(Links)
       /\ \A n \in DOMAIN links : n \in DOMAIN links' /\ links'[n] = links[n]
       /\ \A n \in DOMAIN d : Len(links) + n \in DOMAIN links' /\ links'[Len(links) + n] = d[n]
       /\ \A n \in DOMAIN links' :
            \/ n \in DOMAIN links
            \/ n - Len(links) \in DOMAIN d /\ links'[n] = d[n - Len(links)]
  <2>1. links' = links \o d
    BY <1>1 DEF d
  <2> QED
    BY <1>2, <1>9, <2>1, Joined
<1>11. RelayTypes'
  BY <1>1, <1>10 DEF RelayInv, RelayTypes
<1>12. \A n \in DOMAIN a : a[n].to = Pull /\ a[n].uid = 0
  BY <1>7 DEF RelayInv, QueuesApart
<1>13. \A n \in DOMAIN b : b[n].to # Pull
  BY <1>8 DEF RelayInv, QueuesApart
<1>14. QueuesApart'
  <2>1. \A n \in DOMAIN d : d[n].to = Pull => d[n].uid = 0
    BY <1>9, <1>12, <1>13
  <2>2. \A n \in DOMAIN links' : links'[n].to = Pull => links'[n].uid = 0
    BY <1>10, <2>1 DEF RelayInv, QueuesApart
  <2>3. DOMAIN pulls' = {} /\ DOMAIN pushes' = {}
    BY <1>1
  <2> QED
    BY <2>2, <2>3 DEF QueuesApart
<1>15. OnePuller'
  <2>1. SUFFICES ASSUME Pull \in KeepAlive
                 PROVE  OnePuller'
    BY DEF OnePuller
  <2>2. pulls' = <<>> /\ Len(pulls') <= 1 /\ (PullGivenUp' <=> PullGivenUp)
    BY <1>1 DEF PullGivenUp
  <2>3. CASE pulls = <<>>
    <3>1. DOMAIN a = {}
      BY <1>7, <2>3
    <3>2. \A n \in DOMAIN d : d[n].to # Pull
      BY <1>9, <1>13, <3>1
    <3>3. \A n \in DOMAIN links' : links'[n].to = Pull => n \in DOMAIN links
      BY <1>10, <3>2
    <3> QED
      BY <1>10, <2>1, <2>2, <2>3, <3>3 DEF RelayInv, OnePuller
  <2>4. CASE pulls # <<>>
    <3>1. Len(pulls) = 1 /\ ~PullGivenUp /\ \A i \in DOMAIN links : links[i].to # Pull
      <4>1. Len(pulls) \in Nat /\ Len(pulls) # 0 /\ Len(pulls) <= 1
        BY <1>2, <2>1, <2>4 DEF RelayInv, OnePuller
      <4>2. Len(pulls) = 1
        BY <4>1
      <4>3. ~PullGivenUp /\ \A i \in DOMAIN links : links[i].to # Pull
        BY <2>1, <2>4 DEF RelayInv, OnePuller
      <4> QED
        BY <4>2, <4>3
    <3>2. DOMAIN a = {1}
      BY <1>2, <1>7, <3>1
    <3>3. 1 \in DOMAIN d /\ d[1].to = Pull /\ \A n \in DOMAIN d : d[n].to = Pull => n = 1
      BY <1>9, <1>12, <1>13, <3>2
    <3>4. /\ Len(links) + 1 \in DOMAIN links' /\ links'[Len(links) + 1].to = Pull
      BY <1>10, <3>3
    <3>5. ASSUME NEW n \in DOMAIN links', links'[n].to = Pull
          PROVE  n = Len(links) + 1
      <4>1. n - Len(links) = 1
        BY <1>10, <3>1, <3>3, <3>5
      <4>2. n \in Nat /\ Len(links) \in Nat
        BY <1>2, <1>10
      <4> QED
        BY <4>1, <4>2
    <3> QED
      BY <2>2, <3>1, <3>4, <3>5 DEF OnePuller
  <2> QED
    BY <2>3, <2>4
<1>16. PushNeverForgotten'
  <2>1. SUFFICES ASSUME source # 0, NEW t \in (Targets \cap KeepAlive) \ Unnamed
                 PROVE  \/ \E k \in DOMAIN links' : /\ links'[k].to = t
                                                    /\ links'[k].uid = source
                        \/ <<t, source>> \in refused
    BY <1>1 DEF PushNeverForgotten
  <2>2. \/ \E n \in DOMAIN pushes : pushes[n].to = t
        \/ \E j \in DOMAIN links : links[j].to = t /\ links[j].uid = source
        \/ <<t, source>> \in refused
    BY <2>1 DEF RelayInv, PushNeverForgotten
  <2>3. CASE \E n \in DOMAIN pushes : pushes[n].to = t
    <3>1. PICK n \in DOMAIN pushes : pushes[n].to = t
      BY <2>3
    <3>2. n \in S
      BY <1>5, <2>1, <3>1 DEF CanPush
    <3>3. PICK m \in DOMAIN ready : ready[m] = n
      BY <1>3, <3>2
    <3>4. m \in DOMAIN b /\ b[m].to = t /\ b[m].uid = source
      BY <1>8, <3>1, <3>3
    <3>5. Len(a) + m \in DOMAIN d /\ d[Len(a) + m] = b[m]
      BY <1>9, <3>4
    <3> DEFINE k == Len(a) + m
    <3> HIDE DEF k
    <3>6. k \in DOMAIN d /\ d[k] = b[m]
      BY <3>5 DEF k
    <3>7. Len(links) + k \in DOMAIN links' /\ links'[Len(links) + k] = d[k]
      BY <1>10, <3>6
    <3> QED
      BY <3>4, <3>6, <3>7
  <2> QED
    BY <1>10, <2>2, <2>3
<1> QED
  BY <1>11, <1>14, <1>15, <1>16 DEF RelayInv

\* What a server answers changes the stage and the requests of a connection, and
\* registers a stream when a pull starts.
LEMMA AnsweredRelays ==
  ASSUME RelayInv, NEW i \in DOMAIN links,
         \/ SignalProtocolCreated(i) \/ OutboundConnectionEstablished(i)
         \/ ProcessInvokeConnectResult(i) \/ ProcessInvokeCreateStreamResult(i)
         \/ \E s \in RtmpIds : OnStatusPlayStart(i, s) \/ OnStatusPublishStart(i, s)
         \/ Hangup(i)
  PROVE  RelayInv'
<1>1. links[i] \in Links /\ links \in Seq(Links)
  BY DEF RelayInv, RelayTypes
<1>2. CASE SignalProtocolCreated(i)
  <2> DEFINE l == [links[i] EXCEPT !.stage = "shaking"]
  <2>1. l \in Links /\ l.to = links[i].to /\ l.uid = links[i].uid
    BY <1>1 DEF Links, Stages
  <2> QED
    BY <1>2, <2>1, BecomingRelays DEF SignalProtocolCreated
<1>3. ASSUME NEW invokes \in Seq(Invokes), NEW link \in Links
      PROVE  /\ SendsInvoke(link, invokes) \in Links
             /\ SendsInvoke(link, invokes).to = link.to
             /\ SendsInvoke(link, invokes).uid = link.uid
  <2>1. link.tracked \o invokes \in Seq(Invokes)
    BY DEF Links
  <2> QED
    BY <2>1 DEF SendsInvoke, Links
<1>4. CASE OutboundConnectionEstablished(i)
  <2> DEFINE up == [links[i] EXCEPT !.stage = "up"]
             l == SendsInvoke(up, <<"connect">>)
  <2>1. up \in Links /\ up.to = links[i].to /\ up.uid = links[i].uid
    BY <1>1 DEF Links, Stages
  <2>2. <<"connect">> \in Seq(Invokes)
    BY DEF Invokes
  <2> HIDE DEF up
  <2>3. l \in Links /\ l.to = links[i].to /\ l.uid = links[i].uid
    BY <1>3, <2>1, <2>2
  <2>4. Become(i, l)
    BY <1>4 DEF OutboundConnectionEstablished, up
  <2> HIDE DEF l
  <2> QED
    BY <2>3, <2>4, BecomingRelays
<1>5. CASE ProcessInvokeConnectResult(i)
  <2> DEFINE invokes == IF links[i].to = Pull THEN <<"FCSubscribe", "createStream">>
                        ELSE <<"createStream">>
             l == SendsInvoke(links[i], invokes)
             m == [links[i] EXCEPT !.stage = "doomed", !.auth = TRUE]
  <2>5. /\ <<"FCSubscribe", "createStream">> \in Seq(Invokes)
        /\ <<"createStream">> \in Seq(Invokes)
    BY DEF Invokes
  <2>1. invokes \in Seq(Invokes)
    BY <2>5
  <2>2. Become(i, l) \/ Become(i, m) \/ Doomed(i)
    BY <1>5 DEF ProcessInvokeConnectResult
  <2> HIDE DEF invokes
  <2>3. l \in Links /\ l.to = links[i].to /\ l.uid = links[i].uid
    BY <1>1, <1>3, <2>1
  <2>4. m \in Links /\ m.to = links[i].to /\ m.uid = links[i].uid
    BY <1>1 DEF Links, Stages
  <2> HIDE DEF l, m
  <2> QED
    BY <2>2, <2>3, <2>4, BecomingRelays, DoomedRelays
<1>6. CASE ProcessInvokeCreateStreamResult(i)
  <2>1. CASE Doomed(i)
    BY <2>1, DoomedRelays
  <2>2. CASE ~Doomed(i)
    <3> DEFINE invokes == <<IF links[i].to = Pull THEN "play" ELSE "publish">>
               k(t) == [links[i] EXCEPT !.streams[t] = "neutral"]
    <3>1. PICK t \in RtmpIds : Become(i, SendsInvoke(k(t), invokes))
      BY <1>6, <2>2 DEF ProcessInvokeCreateStreamResult
    <3>2. k(t) \in Links /\ k(t).to = links[i].to /\ k(t).uid = links[i].uid
      BY <1>1 DEF Links
    <3>3. invokes \in Seq(Invokes)
      BY DEF Invokes
    <3> HIDE DEF invokes, k
    <3> DEFINE l == SendsInvoke(k(t), invokes)
    <3>4. l \in Links /\ l.to = links[i].to /\ l.uid = links[i].uid
      BY <1>3, <3>2, <3>3
    <3> QED
      BY <3>1, <3>4, BecomingRelays
  <2> QED
    BY <2>1, <2>2
<1>7. ASSUME NEW s \in RtmpIds, OnStatusPlayStart(i, s)
      PROVE  RelayInv'
  <2>1. CASE Doomed(i)
    BY <2>1, DoomedRelays
  <2>2. CASE ~Doomed(i)
    <3>1. /\ SignalStreamRegistered /\ UNCHANGED <<pulls, refused>>
          /\ links' = [links EXCEPT ![i].streams[s] = "in", ![i].feeds = TRUE]
      BY <1>7, <2>2 DEF OnStatusPlayStart
    <3> DEFINE l == [links[i] EXCEPT !.streams[s] = "in", !.feeds = TRUE]
    <3>2. l \in Links /\ l.to = links[i].to /\ l.uid = links[i].uid
      BY <1>1 DEF Links
    <3>3. links' = [links EXCEPT ![i] = l]
      BY <3>1
    <3> HIDE DEF l
    <3>4. /\ links' \in Seq(Links) /\ Len(links') = Len(links)
          /\ \A j \in DOMAIN links : /\ links'[j].to = links[j].to
                                     /\ links'[j].uid = links[j].uid
      BY <1>1, <3>2, <3>3
    <3> QED
      BY <3>1, <3>4, RegisteringRelays
  <2> QED
    BY <2>1, <2>2
<1>8. ASSUME NEW s \in RtmpIds, OnStatusPublishStart(i, s)
      PROVE  RelayInv'
  <2> DEFINE l == [links[i] EXCEPT !.streams[s] = "out"]
  <2>1. Doomed(i) \/ Become(i, l)
    BY <1>8 DEF OnStatusPublishStart
  <2>2. l \in Links /\ l.to = links[i].to /\ l.uid = links[i].uid
    BY <1>1 DEF Links
  <2> HIDE DEF l
  <2> QED
    BY <2>1, <2>2, BecomingRelays, DoomedRelays
<1>9. CASE Hangup(i)
  BY <1>9, DoomedRelays DEF Hangup
<1> QED
  BY <1>2, <1>4, <1>5, <1>6, <1>7, <1>8, <1>9

LEMMA StepRelays == RelayInv /\ [RelayNext]_relayVars => RelayInv'
<1> SUFFICES ASSUME RelayInv, [RelayNext]_relayVars
             PROVE  RelayInv'
  OBVIOUS
<1>1. links \in Seq(Links)
  BY DEF RelayInv, RelayTypes
<1>2. CASE Publish
  BY <1>1, <1>2, RegisteringRelays DEF Publish
<1>3. CASE Unpublish
  BY <1>3 DEF Unpublish, RelayInv, RelayTypes, QueuesApart, OnePuller, PullGivenUp,
              PushNeverForgotten
<1>4. CASE TimePeriodElapsed
  BY <1>4, ElapsedRelays
<1>5. ASSUME NEW i \in DOMAIN links,
             \/ OutboundConnectionFailed(i) \/ SignalProtocolCreated(i)
             \/ OutboundConnectionEstablished(i)
             \/ ProcessInvokeConnectResult(i) \/ ProcessInvokeCreateStreamResult(i)
             \/ \E s \in RtmpIds : OnStatusPlayStart(i, s) \/ OnStatusPublishStart(i, s)
             \/ Hangup(i) \/ UnRegisterProtocol(i)
      PROVE  RelayInv'
  BY <1>5, FailedRelays, UnRegisteredRelays, AnsweredRelays
<1>6. CASE UNCHANGED relayVars
  BY <1>6 DEF relayVars, RelayInv, RelayTypes, QueuesApart, OnePuller, PullGivenUp,
              PushNeverForgotten
<1> QED
  BY <1>2, <1>3, <1>4, <1>5, <1>6 DEF RelayNext

-----------------------------------------------------------------------------
\* One who pulls is counted as one.
LEMMA OnePullerIsCounted == RelayInv => PulledOnce
<1> SUFFICES ASSUME RelayInv, Pull \in KeepAlive
             PROVE  Cardinality(Pullers) = IF PullGivenUp THEN 0 ELSE 1
  BY DEF PulledOnce, PullGivenUp
<1> DEFINE L == {i \in DOMAIN links : links[i].to = Pull}
<1>1. Pullers = ({"job"} \X DOMAIN pulls) \cup ({"link"} \X L)
  BY DEF Pullers
<1>2. pulls \in Seq(Jobs)
  BY DEF RelayInv, RelayTypes
<1>3. CASE PullGivenUp
  <2>1. DOMAIN pulls = {} /\ L = {}
    BY <1>2, <1>3 DEF RelayInv, OnePuller
  <2>2. Pullers = {}
    BY <1>1, <2>1
  <2> QED
    BY <1>3, <2>2, FS_EmptySet
<1>4. CASE ~PullGivenUp /\ pulls = <<>>
  <2>1. PICK i \in DOMAIN links : L = {i}
    BY <1>4 DEF RelayInv, OnePuller
  <2>2. DOMAIN pulls = {}
    BY <1>4
  <2>3. Pullers = {<<"link", i>>}
    BY <1>1, <2>1, <2>2
  <2> QED
    BY <1>4, <2>3, FS_Singleton
<1>5. CASE ~PullGivenUp /\ pulls # <<>>
  <2>1. L = {}
    BY <1>5 DEF RelayInv, OnePuller
  <2>2. Len(pulls) \in Nat /\ Len(pulls) # 0 /\ Len(pulls) <= 1
    BY <1>2, <1>5 DEF RelayInv, OnePuller
  <2>5. Len(pulls) = 1
    <3> DEFINE n == Len(pulls)
    <3>1. n \in Nat /\ n # 0 /\ n <= 1
      BY <2>2
    <3> HIDE DEF n
    <3>2. n = 1
      BY <3>1
    <3> QED
      BY <3>2 DEF n
  <2>3. DOMAIN pulls = {1}
    BY <1>2, <2>5
  <2>4. Pullers = {<<"job", 1>>}
    BY <1>1, <2>1, <2>3
  <2> QED
    BY <1>5, <2>4, FS_Singleton
<1> QED
  BY <1>3, <1>4, <1>5

\* The inductive invariant of the relay.
THEOREM RelayInvariant == RelaySpec => []RelayInv
<1> QED
  BY InitRelays, StepRelays, PTL DEF RelaySpec

\* What keepAlive asks for is relayed through every end of a connection and every
\* tick of the jobs timer, for any number of targets.
THEOREM RelayIsKept == RelaySpec => []RelayGoesOn
<1>1. RelayInv => RelayGoesOn
  BY OnePullerIsCounted DEF RelayInv, RelayGoesOn
<1> QED
  BY RelayInvariant, <1>1, PTL

-----------------------------------------------------------------------------
(* Video over RTP: the inductive invariant. *)

Quarter == (SeqRange - 1) \div 4
NatOrNone == Nat \cup {-1}
Parts == {"whole", "start", "middle", "end"}
Packets == [num : Nat \ {0}, m : BOOLEAN, nal : Int \X Nat, time : Nat, part : Parts]
Shapes == [id : Nat, time : Nat, setup : BOOLEAN, pieces : {1, 2},
           nals : {<<>>, <<2>>, <<1, 3>>}, offset : {0, 2}]
Chunks == [message : Shapes, piece : {1, 2}]
Lines == [time : NatOrNone, rolls : Nat, epoch : NatOrNone]
Clocks == [presence : {"unknown", "absent", "available"}, started : BOOLEAN,
           time : NatOrNone, rtp : Nat, line : Lines, first : NatOrNone,
           firstTime : NatOrNone]
Outs == [packets : Seq(Packets), stamp : Int, time : Nat]

RtpTypes ==
  /\ feed.count \in Nat /\ feed.time \in NatOrNone /\ feed.piece \in {0, 2}
  /\ feed.piece = 2 => feed.message \in Shapes
  /\ held \in Seq(Chunks) /\ wire \in Seq(Packets) /\ nalu \in Seq(Packets)
  /\ sent \in [next : Nat \ {0}, first : Nat]
  /\ report \in NatOrNone
  /\ filter \in [last : 0 .. SeqRange - 1, rolls : Nat, first : NatOrNone,
                 newest : NatOrNone]
  /\ synced \in 0 .. SeqRange - 1
  /\ media \in Lines
  /\ rtcp \in Clocks /\ out \in Outs

\* Packets with consecutive numbers are of one NAL unit, or of two with the end of
\* the one and the beginning of the other.
WellFormed(p) == p.m <=> p.part \in {"whole", "end"}
Follows(p, q) ==
  IF p.m THEN q.part \in {"whole", "start"}
  ELSE q.part \in {"middle", "end"} /\ q.nal = p.nal

\* The packets on their way or kept, and what is known of any of them.
Known == {wire[i] : i \in DOMAIN wire} \cup {nalu[i] : i \in DOMAIN nalu}
PacketsFit ==
  /\ \A p \in Known : p.num < sent.next /\ (p.num = sent.next - 1 => p.m) /\ WellFormed(p)
  /\ \A p, q \in Known : q.num = p.num + 1 => Follows(p, q)
  /\ "tail" \notin trouble => \A p \in Known : p.nal[1] # -1

\* The packets are on their way in their order, none much behind the newest one.
WireHolds ==
  /\ \A i, j \in DOMAIN wire : i < j => wire[i].num < wire[j].num
  /\ \A i \in DOMAIN wire : filter.newest - wire[i].num <= Quarter
  /\ filter.newest < sent.next

\* The packets kept are the beginning of one unit, and the last of them is the one
\* the receiver is in step with.
NaluHolds ==
  "zero" \notin trouble /\ nalu # <<>> =>
     LET n == Len(nalu) IN
     /\ nalu[1].part = "start"
     /\ \A i \in 1 .. n : ~nalu[i].m /\ nalu[i].nal = nalu[1].nal
     /\ \A i \in 1 .. n : nalu[i].num = nalu[1].num + i - 1
     /\ synced # 0 /\ synced = nalu[n].num % SeqRange
     /\ filter.newest - Quarter <= nalu[n].num /\ nalu[n].num <= filter.newest

\* While nothing came late, the receiver is in step with the newest packet or not at
\* all, and what is kept is newer than what was fed.
OrderHolds ==
  {"zero", "late"} \cap trouble = {} =>
     /\ synced # 0 => filter.newest # -1 /\ synced = filter.newest % SeqRange
     /\ out.packets # <<>> => NumberOf(out) <= filter.newest
     /\ nalu # <<>> => nalu[1].num > NumberOf(out)

FilterHolds ==
  "late" \notin trouble =>
    IF filter.newest = -1
    THEN filter = [last |-> 0, rolls |-> 0, first |-> -1, newest |-> -1]
    ELSE /\ filter.first # -1 /\ filter.last = filter.newest % SeqRange
         /\ filter.rolls = (filter.newest \div SeqRange) - (filter.first \div SeqRange)

\* The rolls of a time line are the epochs since its first time.
LineHolds(line) ==
  IF line.time = -1 THEN line.rolls = 0 /\ line.epoch = -1
  ELSE line.epoch # -1 /\ line.rolls = Epoch(line.time) - line.epoch

\* What stamps are made from: the first unit without reports, the line of the
\* reports with them.
StampFacts ==
  /\ LineHolds(media) /\ LineHolds(rtcp.line)
  /\ rtcp.time = rtcp.line.time
  /\ rtcp.time # -1 => rtcp.rtp = Unwrapped(rtcp.line)
  /\ rtcp.presence \in {"unknown", "available"} => rtcp.first = -1
  /\ rtcp.presence = "available" => rtcp.time # -1
  /\ rtcp.first # -1 =>
       media.time # -1 /\ rtcp.first = rtcp.firstTime - TsRange * media.epoch
  /\ out.packets # <<>> =>
      /\ media.time # -1
      /\ \/ rtcp.presence = "absent" /\ rtcp.first # -1
            /\ out.stamp = out.time - rtcp.firstTime
         \/ rtcp.presence = "available"
            /\ (out.stamp = out.time \/ rtcp.line.epoch # media.epoch)
StampsHold == "back" \notin trouble => StampFacts

RtpInv ==
  RtpTypes /\ PacketsFit /\ WireHolds /\ NaluHolds /\ OrderHolds /\ FilterHolds /\ StampsHold

\* Consecutive packets from a number on, of whole NAL units.
Run(ps, first) ==
  /\ ps \in Seq(Packets)
  /\ \A i \in DOMAIN ps : ps[i].num = first + i - 1 /\ WellFormed(ps[i])
  /\ \A i, j \in DOMAIN ps : j = i + 1 => Follows(ps[i], ps[j])
  /\ ps # <<>> => ps[1].part \in {"whole", "start"} /\ ps[Len(ps)].m
OfMessage(ps, id) == \A i \in DOMAIN ps : ps[i].nal[1] = id

\* What feeding a piece does to the packets on their way.
Feeds ==
  /\ held' \in Seq(Chunks) /\ report' \in NatOrNone
  /\ trouble \subseteq trouble' /\ trouble' \subseteq trouble \cup {"tail"}
  /\ \E ps : /\ Run(ps, sent.next)
             /\ "tail" \notin trouble' => \A i \in DOMAIN ps : ps[i].nal[1] # -1
             /\ wire' = wire \o ps
             /\ sent' = [sent EXCEPT !.next = @ + Len(ps)]

\* A packet that is not dropped for being old.
Accepted(p) ==
  /\ p \in Known /\ filter.newest - p.num <= Quarter
  /\ NearNewest(p) /\ NearInTime(media, p.time) /\ ~IsOld(p)
  /\ filter' = Counts(p) /\ FeedVideoData(p)
  /\ trouble' = trouble
       \cup {x \in {"late"} : p.num \div SeqRange < filter.newest \div SeqRange}
       \cup {x \in {"zero"} : Seq16(p) = 0 /\ nalu' # <<>>}
       \cup {x \in {"back"} : media' # media /\ GoesBack(media, p.time)}

-----------------------------------------------------------------------------
(* Numbers modulo the range. *)

LEMMA RangeIs == SeqRange \in Nat /\ SeqRange >= 4 /\ SeqRange # 0
BY RtpAssumption

LEMMA Division ==
  ASSUME NEW r \in Nat, r > 0, NEW a \in Int
  PROVE  a = r * (a \div r) + (a % r)
BY SMT

LEMMA DivMod ==
  ASSUME NEW r \in Nat \ {0}, NEW a \in Int
  PROVE  /\ a % r \in Int /\ 0 <= a % r /\ a % r < r
         /\ a \div r \in Int /\ a = r * (a \div r) + (a % r)
<1>1. a % r \in Int /\ 0 <= a % r /\ a % r < r
  BY SMTT(30)
<1>2. a \div r \in Int
  BY SMTT(30)
<1>3. a = r * (a \div r) + (a % r)
  <2>1. r \in Nat /\ r > 0
    OBVIOUS
  <2> QED
    BY <2>1, Division
<1> QED
  BY <1>1, <1>2, <1>3

LEMMA Multiple ==
  ASSUME NEW r \in Nat \ {0}, NEW k \in Int, r * k < r, -(r * k) < r
  PROVE  k = 0
<1>1. CASE k >= 1
  <2>1. r * k >= r
    BY <1>1, Z3
  <2> QED
    BY <2>1
<1>2. CASE k <= -1
  <2>1. r * k <= -r
    BY <1>2, Z3
  <2> QED
    BY <2>1
<1> QED
  BY <1>1, <1>2

LEMMA Quotient ==
  ASSUME NEW r \in Nat \ {0}, NEW a \in Int, NEW q \in Int, NEW m \in Int,
         a = r * q + m, 0 <= m, m < r
  PROVE  a \div r = q /\ a % r = m
<1> DEFINE k == a \div r
           l == a % r
<1>1. l \in Int /\ 0 <= l /\ l < r /\ k \in Int /\ a = r * k + l
  BY DivMod
<1> HIDE DEF k, l
<1>2. r * (q - k) = l - m
  BY <1>1, Z3
<1>3. q - k = 0
  BY <1>1, <1>2, Multiple
<1>4. r * (q - k) = 0
  BY <1>3
<1>5. q = k /\ l = m
  BY <1>1, <1>2, <1>3, <1>4
<1> QED
  BY <1>5 DEF k, l

\* Numbers that are near and agree modulo the range are the same.
LEMMA Congruent ==
  ASSUME NEW r \in Nat \ {0}, NEW a \in Int, NEW b \in Int,
         a % r = b % r, a - b < r, b - a < r
  PROVE  a = b
<1> DEFINE k == a \div r
           l == b \div r
<1>1. k \in Int /\ l \in Int /\ a = r * k + (a % r) /\ b = r * l + (b % r)
      /\ a % r \in Int /\ b % r \in Int
  BY DivMod
<1> HIDE DEF k, l
<1>2. a - b = r * (k - l)
  <2>1. r * (k - l) = r * k - r * l
    BY <1>1, Z3
  <2> DEFINE x == r * k
             y == r * l
             u == a % r
             v == b % r
  <2>2. x \in Int /\ y \in Int /\ u \in Int /\ v \in Int /\ u = v /\ a = x + u /\ b = y + v
    BY <1>1
  <2>3. r * (k - l) = x - y
    BY <2>1
  <2> HIDE DEF x, y, u, v
  <2>4. a - b = x - y
    BY <2>2
  <2> QED
    BY <2>3, <2>4
<1>3. k - l = 0
  BY <1>1, <1>2, Multiple
<1>4. r * (k - l) = 0
  BY <1>3
<1> QED
  BY <1>2, <1>4

LEMMA NextModulo ==
  ASSUME NEW r \in Nat \ {0}, NEW a \in Int
  PROVE  ((a % r) + 1) % r = (a + 1) % r
<1> DEFINE k == a \div r
           l == a % r
<1>1. l \in Int /\ 0 <= l /\ l < r /\ k \in Int /\ a = r * k + l
  BY DivMod
<1> HIDE DEF k, l
<1>2. CASE l + 1 < r
  <2>1. a + 1 = r * k + (l + 1) /\ l + 1 = r * 0 + (l + 1)
    BY <1>1
  <2>2. (a + 1) % r = l + 1
    BY <1>1, <1>2, <2>1, Quotient
  <2>3. (l + 1) % r = l + 1
    BY <1>1, <1>2, <2>1, Quotient
  <2> QED
    BY <2>2, <2>3 DEF l
<1>3. CASE l + 1 = r
  <2>1. a + 1 = r * (k + 1) + 0 /\ l + 1 = r * 1 + 0
    BY <1>1, <1>3, Z3
  <2>2. (a + 1) % r = 0
    BY <1>1, <2>1, Quotient
  <2>3. (l + 1) % r = 0
    BY <1>1, <2>1, Quotient
  <2> QED
    BY <2>2, <2>3 DEF l
<1> QED
  BY <1>1, <1>2, <1>3

LEMMA DivisionGrows ==
  ASSUME NEW r \in Nat \ {0}, NEW a \in Int, NEW b \in Int, a <= b
  PROVE  a \div r <= b \div r /\ (b - a < r => b \div r <= (a \div r) + 1)
<1> DEFINE k == a \div r
           l == b \div r
           u == a % r
           v == b % r
           x == r * k
           y == r * l
<1>1. k \in Int /\ l \in Int /\ u \in Int /\ v \in Int /\ x \in Int /\ y \in Int
      /\ a = x + u /\ b = y + v /\ 0 <= u /\ u < r /\ 0 <= v /\ v < r
  <2>1. k \in Int /\ a = x + u /\ u \in Int /\ 0 <= u /\ u < r
    BY DivMod
  <2>2. l \in Int /\ b = y + v /\ v \in Int /\ 0 <= v /\ v < r
    BY DivMod
  <2>3. x \in Int /\ y \in Int
    BY <2>1, <2>2
  <2> QED
    BY <2>1, <2>2, <2>3
<1>2. k <= l
  <2> SUFFICES ASSUME l + 1 <= k  PROVE FALSE
    BY <1>1
  <2>1. r * (l + 1) <= r * k /\ r * (l + 1) = r * l + r
    <3> HIDE DEF k, l
    <3> QED
      BY <1>1, Z3
  <2> HIDE DEF u, v, k, l
  <2>2. y + r <= x
    BY <2>1
  <2> HIDE DEF x, y
  <2> QED
    BY <1>1, <2>2
<1>3. ASSUME b - a < r, k + 2 <= l  PROVE FALSE
  <2>1. r * (k + 2) <= r * l /\ r * (k + 2) = r * k + r + r
    <3> HIDE DEF k, l
    <3> QED
      BY <1>1, <1>3, Z3
  <2> HIDE DEF u, v, k, l
  <2>2. x + r + r <= y
    BY <2>1
  <2> HIDE DEF x, y
  <2> QED
    BY <1>1, <1>3, <2>2
<1> QED
  <2> HIDE DEF k, l
  <2>1. b - a < r => l <= k + 1
    BY <1>1, <1>3
  <2> QED
    BY <1>2, <2>1 DEF k, l

\* A number that is not much smaller than the newest, and would be dropped if it
\* were a little smaller, is not smaller; and it begins a round if its low part is.
LEMMA NewestGrows ==
  ASSUME NEW r \in Nat, r >= 4, NEW n \in Nat, NEW p \in Nat,
         n - p <= (r - 1) \div 4, p - n <= r \div 2, n \div r <= p \div r,
         ~(p % r < n % r /\ (n % r) - (p % r) <= (r - 1) \div 4)
  PROVE  p >= n /\ p \div r = IF p % r < n % r THEN (n \div r) + 1 ELSE n \div r
<1> DEFINE k == p \div r
           l == n \div r
           u == p % r
           v == n % r
           x == r * k
           y == r * l
           q == (r - 1) \div 4
           h == r \div 2
<1>1. k \in Int /\ l \in Int /\ u \in Int /\ v \in Int /\ x \in Int /\ y \in Int
      /\ p = x + u /\ n = y + v /\ 0 <= u /\ u < r /\ 0 <= v /\ v < r
  <2>1. k \in Int /\ p = x + u /\ u \in Int /\ 0 <= u /\ u < r
    BY DivMod
  <2>2. l \in Int /\ n = y + v /\ v \in Int /\ 0 <= v /\ v < r
    BY DivMod
  <2>3. x \in Int /\ y \in Int
    BY <2>1, <2>2
  <2> QED
    BY <2>1, <2>2, <2>3
<1>2. q \in Nat /\ 4 * q <= r - 1 /\ h \in Nat /\ 2 * h <= r
  OBVIOUS
<1>3. n - p <= q /\ p - n <= h /\ l <= k /\ ~(u < v /\ v - u <= q)
  OBVIOUS
<1>4. n <= p => k <= l + 1
  <2>1. n <= p => p - n < r
    BY <1>2, <1>3
  <2> QED
    BY <2>1, DivisionGrows
<1>5. k = l => x = y
  OBVIOUS
<1>6. k = l + 1 => x = y + r
  <2>1. r * (l + 1) = r * l + r
    <3> HIDE DEF l
    <3> QED
      BY <1>1, Z3
  <2> QED
    BY <2>1
<1>7. p < n => k <= l
  BY DivisionGrows
<1> SUFFICES p >= n /\ k = IF u < v THEN l + 1 ELSE l
  BY DEF k, l, u, v
<1> HIDE DEF k, l, u, v, x, y, q, h
<1>8. p >= n
  <2> SUFFICES ASSUME p < n  PROVE FALSE
    OBVIOUS
  <2>1. k = l /\ x = y
    BY <1>1, <1>3, <1>5, <1>7
  <2>2. u < v /\ v - u <= q
    BY <1>1, <1>2, <1>3, <2>1
  <2> QED
    BY <1>3, <2>2
<1>9. CASE k = l
  BY <1>1, <1>5, <1>8, <1>9
<1>10. CASE k = l + 1
  BY <1>1, <1>2, <1>3, <1>6, <1>8, <1>10
<1> QED
  BY <1>1, <1>3, <1>4, <1>8, <1>9, <1>10

\* Within the window a packet in step is the next one.
LEMMA NextInWindow ==
  ASSUME NEW r \in Nat, r >= 4, NEW n \in Int, NEW p \in Nat, NEW last \in Nat,
         n - last <= (r - 1) \div 4, last <= n,
         n - p <= (r - 1) \div 4, p - n <= r \div 2,
         p % r = ((last % r) + 1) % r
  PROVE  p = last + 1
<1>0. r \in Nat \ {0} /\ last \in Int /\ last + 1 \in Int /\ p \in Int
  OBVIOUS
<1>1. p % r = (last + 1) % r
  BY <1>0, NextModulo
<1>2. p - (last + 1) < r /\ (last + 1) - p < r
  <2> DEFINE q == (r - 1) \div 4
             h == r \div 2
  <2>1. q \in Nat /\ 4 * q <= r - 1 /\ h \in Nat /\ 2 * h <= r
    OBVIOUS
  <2>2. n - last <= q /\ n - p <= q /\ p - n <= h
    OBVIOUS
  <2> HIDE DEF q, h
  <2> QED
    BY <2>1, <2>2
<1> QED
  <2> DEFINE e == last + 1
  <2> HIDE DEF e
  <2>1. e \in Int /\ p % r = e % r /\ p - e < r /\ e - p < r
    BY <1>0, <1>1, <1>2 DEF e
  <2>2. p = e
    BY <1>0, <2>1, Congruent
  <2> QED
    BY <2>2 DEF e

LEMMA NextIsOther ==
  ASSUME NEW r \in Nat, r >= 4, NEW n \in Nat, NEW p \in Nat,
         p % r = ((n % r) + 1) % r
  PROVE  p # n
<1> SUFFICES ASSUME p = n  PROVE FALSE
  OBVIOUS
<1> DEFINE e == n + 1
<1>0. r \in Nat \ {0} /\ n \in Int /\ e \in Int /\ n - e < r /\ e - n < r /\ n # e
  OBVIOUS
<1>1. n % r = e % r
  BY <1>0, NextModulo
<1> HIDE DEF e
<1> QED
  BY <1>0, <1>1, Congruent

-----------------------------------------------------------------------------
(* The time line. *)

LEMMA HalfIs ==
  /\ TsRange \div 2 \in Nat \ {0} /\ TsRange = 2 * (TsRange \div 2)
  /\ TsRange \in Nat \ {0}
BY RtpAssumption

\* The epoch of a time is that of its half.
LEMMA EpochOfHalf ==
  ASSUME NEW t \in Nat
  PROVE  Half(t) \in Nat /\ Epoch(t) \in Nat /\ Epoch(t) = Half(t) \div 2
<1> DEFINE h == TsRange \div 2
           k == t \div h
           u == t % h
           e == k \div 2
           b == k % 2
<1>0. h \in Nat \ {0} /\ TsRange = 2 * h /\ TsRange \in Nat \ {0}
  BY HalfIs
<1> HIDE DEF h
<1>1. k \in Int /\ t = h * k + u /\ u \in Int /\ 0 <= u /\ u < h
  BY <1>0, DivMod
<1>2. k \in Nat
  BY <1>0
<1>3. e \in Nat /\ b \in {0, 1} /\ k = 2 * e + b
  <2> HIDE DEF k
  <2> QED
    BY <1>2
<1> HIDE DEF k, u, e, b
<1>4. t = TsRange * e + (h * b + u)
  <2>1. h * (2 * e + b) = 2 * h * e + h * b
    BY <1>0, <1>3, Z3
  <2>2. h * k = TsRange * e + h * b
    BY <1>0, <1>3, <2>1
  <2> QED
    BY <1>0, <1>1, <1>3, <2>2
<1>5. h * b + u \in Int /\ 0 <= h * b + u /\ h * b + u < TsRange
  <2>1. b = 0 => h * b = 0
    BY <1>0
  <2>2. b = 1 => h * b = h
    BY <1>0
  <2> QED
    BY <1>0, <1>1, <1>3, <2>1, <2>2
<1>6. t \div TsRange = e
  <2> DEFINE m == h * b + u
  <2>1. m \in Int /\ 0 <= m /\ m < TsRange /\ t = TsRange * e + m /\ e \in Int /\ t \in Int
    BY <1>3, <1>4, <1>5
  <2> HIDE DEF m
  <2> QED
    BY <1>0, <2>1, Quotient
<1> QED
  BY <1>2, <1>3, <1>6 DEF Half, Epoch, k, h, e

LEMMA LineIsComputed ==
  ASSUME NEW line \in Lines, NEW time \in Nat
  PROVE  /\ ComputeRTP(line, time) \in Lines /\ ComputeRTP(line, time).time = time
         /\ ComputeRTP(line, time).epoch # -1
         /\ line.epoch # -1 => ComputeRTP(line, time).epoch = line.epoch
         /\ Unwrapped(ComputeRTP(line, time)) \in Nat
<1> DEFINE c == ComputeRTP(line, time)
<1>1. Epoch(time) \in Nat
  BY EpochOfHalf
<1>2. /\ line.rolls \in Nat /\ line.epoch \in NatOrNone
      /\ c = [time |-> time, rolls |-> c.rolls, epoch |-> c.epoch]
      /\ c.time = time
      /\ c.rolls = IF line.time # -1 /\ High(line.time) /\ ~High(time)
                   THEN line.rolls + 1 ELSE line.rolls
      /\ c.epoch = IF line.epoch = -1 THEN Epoch(time) ELSE line.epoch
  BY DEF ComputeRTP, Lines
<1>3. c.rolls \in Nat /\ c.epoch \in NatOrNone /\ c.epoch # -1
  BY <1>1, <1>2 DEF NatOrNone
<1>4. c \in Lines
  BY <1>2, <1>3 DEF Lines, NatOrNone
<1>5. Unwrapped(c) \in Nat
  <2>1. Unwrapped(c) = c.rolls * TsRange + (time % TsRange)
    BY <1>2 DEF Unwrapped
  <2>2. time % TsRange \in Nat
    BY HalfIs
  <2>3. c.rolls * TsRange \in Nat
    BY <1>3, HalfIs
  <2> HIDE DEF c
  <2> QED
    BY <2>1, <2>2, <2>3
<1> QED
  BY <1>2, <1>3, <1>4, <1>5

\* A half of the range further at most, and not back across one: the top bit falls
\* when the epoch ends, and only then.
LEMMA LineGoesOn ==
  ASSUME NEW line \in Lines, NEW time \in Nat, LineHolds(line),
         NearInTime(line, time), ~GoesBack(line, time)
  PROVE  LineHolds(ComputeRTP(line, time))
<1> DEFINE c == ComputeRTP(line, time)
           k == Half(time)
           l == Half(line.time)
<1>1. k \in Nat /\ Epoch(time) \in Nat /\ Epoch(time) = k \div 2
  BY EpochOfHalf
<1>2. /\ c.time = time
      /\ c.rolls = IF line.time # -1 /\ l % 2 = 1 /\ ~(k % 2 = 1)
                   THEN line.rolls + 1 ELSE line.rolls
      /\ c.epoch = IF line.epoch = -1 THEN Epoch(time) ELSE line.epoch
  BY DEF ComputeRTP, High
<1>3. line.time \in NatOrNone /\ line.rolls \in Nat /\ line.epoch \in NatOrNone
  BY DEF Lines
<1> SUFFICES c.epoch # -1 /\ c.rolls = Epoch(time) - c.epoch
  <2>1. time # -1
    OBVIOUS
  <2> QED
    BY <1>2, <2>1 DEF LineHolds
<1>4. CASE line.time = -1
  <2>1. line.rolls = 0 /\ line.epoch = -1
    BY <1>4 DEF LineHolds
  <2> HIDE DEF c, k, l
  <2> QED
    BY <1>1, <1>2, <1>4, <2>1
<1>5. CASE line.time # -1
  <2>1. line.time \in Nat /\ line.epoch # -1 /\ line.rolls = Epoch(line.time) - line.epoch
    BY <1>3, <1>5 DEF LineHolds, NatOrNone
  <2>2. l \in Nat /\ Epoch(line.time) = l \div 2
    BY <2>1, EpochOfHalf
  <2>3. l <= k
    <3>1. ~(k < l)
      BY <1>5 DEF GoesBack
    <3> HIDE DEF k, l
    <3> QED
      BY <1>1, <2>2, <3>1
  <2>4. k <= l + 1
    <3> DEFINE h == TsRange \div 2
    <3>1. h \in Nat \ {0} /\ k = time \div h /\ l = line.time \div h
      BY HalfIs DEF Half
    <3>2. time - line.time <= h
      BY <1>5 DEF NearInTime
    <3> HIDE DEF h, k, l
    <3>3. CASE line.time <= time /\ time - line.time < h
      BY <2>1, <3>1, <3>3, DivisionGrows
    <3>4. CASE ~(line.time <= time)
      <4>1. time <= line.time
        BY <2>1, <3>4
      <4>2. k <= l
        BY <2>1, <3>1, <4>1, DivisionGrows
      <4> QED
        BY <1>1, <2>2, <4>2
    <3>5. CASE time - line.time = h
      <4> DEFINE u == line.time % h
      <4>1. u \in Int /\ 0 <= u /\ u < h /\ line.time = h * l + u /\ l \in Int
        BY <2>1, <3>1, DivMod
      <4>2. h * (l + 1) = h * l + h
        BY <3>1, <4>1, Z3
      <4>3. time = h * (l + 1) + u
        <5> DEFINE x == h * l
                   y == h * (l + 1)
        <5>1. /\ x \in Int /\ h \in Int /\ y = x + h /\ line.time = x + u
              /\ u \in Int /\ line.time \in Int /\ time - line.time = h
          <6>1. x \in Int /\ h \in Int
            BY <3>1, <4>1
          <6>2. y = x + h
            BY <4>2
          <6>3. line.time = x + u /\ u \in Int
            BY <4>1
          <6>4. line.time \in Int /\ time - line.time = h
            BY <2>1, <3>5
          <6> HIDE DEF x, y, u
          <6> QED
            BY <6>1, <6>2, <6>3, <6>4
        <5> HIDE DEF u, x, y
        <5>2. time = y + u
          BY <5>1
        <5> QED
          BY <5>2 DEF y
      <4>4. k = l + 1
        <5> DEFINE e == l + 1
        <5>1. e \in Int /\ time = h * e + u /\ time \in Int
          BY <4>1, <4>3
        <5> HIDE DEF u, e
        <5>2. time \div h = e
          BY <3>1, <4>1, <5>1, Quotient
        <5> QED
          BY <3>1, <5>2 DEF e
      <4> QED
        BY <1>1, <2>2, <4>4
    <3> QED
      BY <2>1, <3>1, <3>2, <3>3, <3>4, <3>5
  <2> DEFINE et == Epoch(time)
             el == Epoch(line.time)
  <2>5. /\ et = k \div 2 /\ el = l \div 2 /\ line.rolls = el - line.epoch
        /\ c.epoch = line.epoch
        /\ c.rolls = IF l % 2 = 1 /\ ~(k % 2 = 1) THEN line.rolls + 1 ELSE line.rolls
    BY <1>1, <1>2, <1>5, <2>1, <2>2
  <2> HIDE DEF c, k, l, et, el
  <2>6. et \in Nat /\ el \in Nat
    BY <1>1, <2>2, <2>5
  <2>7. CASE k = l
    <3>1. et = el /\ c.rolls = line.rolls
      BY <2>5, <2>7
    <3> QED
      BY <2>1, <2>5, <3>1 DEF et
  <2>8. CASE k = l + 1
    <3>1. CASE l % 2 = 1
      <4>1. k % 2 = 0 /\ et = el + 1
        BY <1>1, <2>2, <2>5, <2>8, <3>1
      <4>2. c.rolls = line.rolls + 1
        BY <2>5, <3>1, <4>1
      <4>3. line.epoch \in Int
        BY <1>3 DEF NatOrNone
      <4> QED
        BY <1>3, <2>1, <2>5, <2>6, <4>1, <4>2, <4>3 DEF et
    <3>2. CASE l % 2 # 1
      <4>1. et = el
        BY <1>1, <2>2, <2>5, <2>8, <3>2
      <4>2. c.rolls = line.rolls
        BY <2>5, <3>2
      <4> QED
        BY <2>1, <2>5, <4>1, <4>2 DEF et
    <3> QED
      BY <3>1, <3>2
  <2> QED
    BY <1>1, <2>2, <2>3, <2>4, <2>7, <2>8
<1> QED
  BY <1>3, <1>4, <1>5

\* What the receiver reckons is the time, counted from the beginning of an epoch.
LEMMA LineUnwraps ==
  ASSUME NEW line \in Lines, LineHolds(line), line.time # -1
  PROVE  /\ Unwrapped(line) = line.time - TsRange * line.epoch
         /\ line.time \in Nat /\ line.epoch \in Nat
<1> DEFINE u == line.time % TsRange
           e == Epoch(line.time)
<1>1. line.time \in Nat /\ line.epoch \in Nat /\ line.rolls = e - line.epoch
  BY DEF LineHolds, Lines, NatOrNone
<1>2. e \in Int /\ u \in Int /\ line.time = TsRange * e + u
  <2>1. TsRange \in Nat \ {0} /\ line.time \in Int
    BY <1>1, HalfIs
  <2> QED
    BY <2>1, DivMod DEF Epoch
<1>3. Unwrapped(line) = line.rolls * TsRange + u
  BY DEF Unwrapped
<1>4. (e - line.epoch) * TsRange = TsRange * e - TsRange * line.epoch
  <2>1. TsRange \in Int /\ line.epoch \in Int
    BY <1>1, HalfIs
  <2> HIDE DEF e
  <2> QED
    BY <1>2, <2>1, Z3
<1> DEFINE x == TsRange * e
           y == TsRange * line.epoch
<1>5. x \in Int /\ y \in Int
  BY <1>1, <1>2, HalfIs
<1>6. Unwrapped(line) = (x - y) + u /\ line.time = x + u
  BY <1>1, <1>2, <1>3, <1>4
<1> SUFFICES Unwrapped(line) = line.time - y
  BY <1>1
<1> HIDE DEF u, e, x, y
<1> QED
  BY <1>2, <1>5, <1>6

-----------------------------------------------------------------------------
(* What is sent. *)

LEMMA PacketizedRuns ==
  ASSUME NEW m, m.id \in Int, NEW k \in Nat, NEW size \in Nat \ {0},
         NEW first \in Nat \ {0}, NEW time \in Nat
  PROVE  /\ Run(Packetized(m, k, size, first, time), first)
         /\ OfMessage(Packetized(m, k, size, first, time), m.id)
         /\ Len(Packetized(m, k, size, first, time)) = size
<1> DEFINE ps == Packetized(m, k, size, first, time)
           Part(i) == IF size = 1 THEN "whole" ELSE IF i = 1 THEN "start"
                      ELSE IF i = size THEN "end" ELSE "middle"
           P(i) == [num |-> first + i - 1, m |-> i = size, nal |-> <<m.id, k>>,
                    time |-> time, part |-> Part(i)]
<1>1. ps = [i \in 1 .. size |-> P(i)]
  BY DEF Packetized
<1>2. ASSUME NEW i \in 1 .. size
      PROVE  P(i) \in Packets
  <2>1. Part(i) \in Parts
    BY DEF Parts
  <2>2. first + i - 1 \in Nat \ {0} /\ (i = size) \in BOOLEAN /\ <<m.id, k>> \in Int \X Nat
    OBVIOUS
  <2> HIDE DEF Part
  <2> QED
    BY <2>1, <2>2 DEF Packets
<1>3. ps \in [1 .. size -> Packets]
  <2> HIDE DEF P, ps
  <2> QED
    BY <1>1, <1>2
<1>4. ps \in Seq(Packets) /\ Len(ps) = size /\ DOMAIN ps = 1 .. size
  <2> HIDE DEF P, ps
  <2> QED
    BY <1>3
<1>5. ASSUME NEW i \in 1 .. size
      PROVE  /\ ps[i].num = first + i - 1 /\ ps[i].m = (i = size) /\ ps[i].part = Part(i)
             /\ ps[i].nal = <<m.id, k>> /\ ps[i].nal[1] = m.id
  <2>1. ps[i] = P(i)
    BY <1>1
  <2> HIDE DEF ps, Part
  <2> QED
    BY <2>1
<1> HIDE DEF ps, P
<1>6. ASSUME NEW i \in 1 .. size
      PROVE  WellFormed(ps[i])
  <2>1. (i = size) <=> Part(i) \in {"whole", "end"}
    OBVIOUS
  <2> QED
    BY <1>5, <2>1 DEF WellFormed
<1>7. ASSUME NEW i \in 1 .. size, NEW j \in 1 .. size, j = i + 1
      PROVE  Follows(ps[i], ps[j])
  <2>1. ~ps[i].m /\ ps[j].nal = ps[i].nal
    <3>1. i # size
      BY <1>7
    <3>2. ps[i].m = (i = size) /\ ps[i].nal = <<m.id, k>> /\ ps[j].nal = <<m.id, k>>
      BY <1>5
    <3>3. ~ps[i].m
      BY <3>1, <3>2, Zenon
    <3> QED
      BY <3>2, <3>3
  <2>2. Part(j) \in {"middle", "end"}
    BY <1>7
  <2> QED
    BY <1>5, <2>1, <2>2 DEF Follows
<1>8. ps[1].part \in {"whole", "start"} /\ ps[size].m
  <2>1. 1 \in 1 .. size /\ size \in 1 .. size
    OBVIOUS
  <2>2. ps[1].part = Part(1) /\ ps[size].m = (size = size)
    <3> HIDE DEF Part
    <3> QED
      BY <1>5, <2>1, Zenon
  <2>3. Part(1) \in {"whole", "start"}
    OBVIOUS
  <2>4. ps[size].m
    BY <2>2, Zenon
  <2> QED
    BY <2>2, <2>3, <2>4, Zenon
<1> QED
  BY <1>4, <1>5, <1>6, <1>7, <1>8 DEF Run, OfMessage, ps

LEMMA RunsJoin ==
  ASSUME NEW a, NEW b, NEW first \in Nat \ {0}, NEW id,
         Run(a, first), Run(b, first + Len(a))
  PROVE  /\ Run(a \o b, first) /\ Len(a \o b) = Len(a) + Len(b)
         /\ OfMessage(a, id) /\ OfMessage(b, id) => OfMessage(a \o b, id)
<1> DEFINE c == a \o b
           n == Len(a)
           both == OfMessage(a, id) /\ OfMessage(b, id)
<1>1. a \in Seq(Packets) /\ b \in Seq(Packets)
  BY DEF Run
<1>2. /\ c \in Seq(Packets) /\ Len(c) = n + Len(b) /\ n \in Nat /\ Len(b) \in Nat
      /\ DOMAIN a = 1 .. n /\ DOMAIN b = 1 .. Len(b) /\ DOMAIN c = 1 .. n + Len(b)
  BY <1>1
<1>3. /\ \A i \in 1 .. n : c[i] = a[i]
      /\ \A i \in 1 .. n + Len(b) : i > n => c[i] = b[i - n] /\ i - n \in 1 .. Len(b)
  BY <1>1
<1> HIDE DEF c, n
<1>4. ASSUME NEW i \in DOMAIN c
      PROVE  c[i].num = first + i - 1 /\ WellFormed(c[i]) /\ (both => c[i].nal[1] = id)
  <2>1. CASE i <= n
    <3>1. i \in DOMAIN a /\ c[i] = a[i]
      BY <1>2, <1>3, <2>1
    <3> QED
      BY <3>1 DEF Run, OfMessage
  <2>2. CASE i > n
    <3>1. i - n \in DOMAIN b /\ c[i] = b[i - n]
      BY <1>2, <1>3, <2>2
    <3>2. b[i - n].num = (first + n) + (i - n) - 1 /\ WellFormed(b[i - n])
          /\ (both => b[i - n].nal[1] = id)
      BY <3>1 DEF Run, OfMessage, n
    <3>3. (first + n) + (i - n) - 1 = first + i - 1
      BY <1>2
    <3> QED
      BY <3>1, <3>2, <3>3
  <2> QED
    BY <1>2, <2>1, <2>2
<1>5. ASSUME NEW i \in DOMAIN c, NEW j \in DOMAIN c, j = i + 1
      PROVE  Follows(c[i], c[j])
  <2>1. CASE j <= n
    <3>1. i \in DOMAIN a /\ j \in DOMAIN a /\ c[i] = a[i] /\ c[j] = a[j]
      BY <1>2, <1>3, <1>5, <2>1
    <3> QED
      BY <1>5, <3>1 DEF Run
  <2>2. CASE i = n
    <3>1. n \in DOMAIN a /\ 1 \in DOMAIN b /\ c[i] = a[n] /\ c[j] = b[j - n] /\ j - n = 1
      BY <1>2, <1>3, <1>5, <2>2
    <3>2. a # <<>> /\ b # <<>>
      BY <1>1, <3>1
    <3>3. a[n].m /\ b[1].part \in {"whole", "start"}
      BY <3>2 DEF Run, n
    <3> QED
      BY <3>1, <3>3 DEF Follows
  <2>3. CASE i > n
    <3>1. /\ i - n \in DOMAIN b /\ j - n \in DOMAIN b /\ j - n = (i - n) + 1
          /\ c[i] = b[i - n] /\ c[j] = b[j - n]
      BY <1>2, <1>3, <1>5, <2>3
    <3> QED
      BY <3>1 DEF Run
  <2> QED
    BY <1>2, <1>5, <2>1, <2>2, <2>3
<1>6. c # <<>> => c[1].part \in {"whole", "start"} /\ c[Len(c)].m
  <2> SUFFICES ASSUME c # <<>>  PROVE c[1].part \in {"whole", "start"} /\ c[Len(c)].m
    OBVIOUS
  <2>1. CASE Len(b) = 0
    <3>1. b = <<>> /\ c = a
      BY <1>1, <2>1 DEF c
    <3> QED
      BY <3>1 DEF Run
  <2>2. CASE Len(b) # 0 /\ n = 0
    <3>1. a = <<>> /\ c = b
      BY <1>1, <2>2 DEF c, n
    <3> QED
      BY <3>1 DEF Run
  <2>3. CASE Len(b) # 0 /\ n # 0
    <3>1. a # <<>> /\ b # <<>>
      BY <1>1, <2>3 DEF n
    <3>2. c[1] = a[1] /\ c[Len(c)] = b[Len(b)]
      <4>1. Len(c) - n = Len(b) /\ Len(c) > n /\ Len(c) \in 1 .. n + Len(b) /\ 1 \in 1 .. n
        BY <1>2, <2>3
      <4> QED
        BY <1>3, <4>1
    <3> QED
      BY <3>1, <3>2 DEF Run
  <2> QED
    BY <2>1, <2>2, <2>3
<1> QED
  BY <1>2, <1>4, <1>5, <1>6 DEF Run, OfMessage, c, n

LEMMA NoneRuns ==
  ASSUME NEW first, NEW id
  PROVE  Run(<<>>, first) /\ OfMessage(<<>>, id)
<1>1. <<>> \in Seq(Packets) /\ DOMAIN <<>> = {}
  OBVIOUS
<1> QED
  BY <1>1 DEF Run, OfMessage

\* The three ways to cut a message.
LEMMA CutIs ==
  ASSUME NEW m \in Shapes, NEW first, NEW time
  PROVE  LET whole == <<>> \o Packetized(m, 1, m.nals[1], first + Len(<<>>), time) IN
         /\ Len(m.nals) = 0 => CutAll(m, first, time) = <<>>
         /\ Len(m.nals) = 1 => CutAll(m, first, time) = whole
         /\ Len(m.nals) = 2 =>
              CutAll(m, first, time) =
                whole \o Packetized(m, 2, m.nals[2], first + Len(whole), time)
<1> DEFINE n == Len(m.nals)
           whole == <<>> \o Packetized(m, 1, m.nals[1], first + Len(<<>>), time)
           both == whole \o Packetized(m, 2, m.nals[2], first + Len(whole), time)
           Step(f, k) == IF k = 0 THEN <<>>
                         ELSE f[k - 1] \o Packetized(m, k, m.nals[k], first + Len(f[k - 1]), time)
           Is(f) == f = [k \in 0 .. n |-> Step(f, k)]
           cut == CHOOSE f : Is(f)
<1>1. CutAll(m, first, time) = cut[n]
  BY DEF CutAll
<1>2. n \in {0, 1, 2}
  BY DEF Shapes
<1> DEFINE w == [k \in 0 .. n |-> IF k = 0 THEN <<>> ELSE IF k = 1 THEN whole ELSE both]
<1>3. Is(w)
  <2>1. ASSUME NEW k \in 0 .. n
        PROVE  w[k] = Step(w, k)
    <3>1. CASE k = 0
      BY <3>1
    <3>2. CASE k = 1
      <4>1. 0 \in 0 .. n /\ k \in 0 .. n /\ k - 1 = 0
        BY <1>2, <3>2
      <4>2. w[0] = <<>> /\ w[k] = whole
        BY <3>2, <4>1
      <4> HIDE DEF w, n
      <4> QED
        BY <3>2, <4>1, <4>2
    <3>3. CASE k = 2
      <4>1. 1 \in 0 .. n /\ k \in 0 .. n /\ k - 1 = 1
        BY <1>2, <3>3
      <4>2. w[1] = whole /\ w[k] = both
        BY <3>3, <4>1
      <4>3. Step(w, k) = w[1] \o Packetized(m, 2, m.nals[2], first + Len(w[1]), time)
        <5> HIDE DEF w, n, whole
        <5> QED
          BY <3>3, <4>1
      <4> HIDE DEF w, n, whole
      <4> QED
        BY <4>2, <4>3
    <3> QED
      BY <1>2, <3>1, <3>2, <3>3
  <2>2. w = [k \in 0 .. n |-> w[k]]
    OBVIOUS
  <2> HIDE DEF w, Step, n
  <2> QED
    BY <2>1, <2>2
<1>4. Is(cut)
  <2> HIDE DEF Is, w
  <2> QED
    BY <1>3
<1> HIDE DEF cut
<1>5. ASSUME NEW k \in 0 .. n
      PROVE  cut[k] = Step(cut, k)
  <2> HIDE DEF Step, n
  <2> QED
    BY <1>4
<1>6. cut[0] = <<>>
  BY <1>2, <1>5
<1>7. n >= 1 => cut[1] = whole
  <2> SUFFICES ASSUME n >= 1  PROVE cut[1] = whole
    OBVIOUS
  <2>1. 1 \in 0 .. n /\ 1 - 1 = 0
    BY <1>2
  <2>2. cut[1] = cut[0] \o Packetized(m, 1, m.nals[1], first + Len(cut[0]), time)
    <3>1. cut[1] = Step(cut, 1)
      BY <1>5, <2>1
    <3> HIDE DEF n
    <3> QED
      BY <2>1, <3>1
  <2> QED
    BY <1>6, <2>2
<1>8. n >= 2 => cut[2] = both
  <2> SUFFICES ASSUME n >= 2  PROVE cut[2] = both
    OBVIOUS
  <2>1. 2 \in 0 .. n /\ 2 - 1 = 1 /\ n >= 1
    BY <1>2
  <2>2. cut[2] = cut[1] \o Packetized(m, 2, m.nals[2], first + Len(cut[1]), time)
    <3>1. cut[2] = Step(cut, 2)
      BY <1>5, <2>1
    <3> HIDE DEF n
    <3> QED
      BY <2>1, <3>1
  <2> HIDE DEF whole
  <2> QED
    BY <1>7, <2>1, <2>2
<1> SUFFICES (n = 0 => cut[n] = <<>>) /\ (n = 1 => cut[n] = whole) /\ (n = 2 => cut[n] = both)
  BY <1>1, Zenon
<1> HIDE DEF n, whole, both
<1> QED
  BY <1>6, <1>7, <1>8

LEMMA CutAllRuns ==
  ASSUME NEW m \in Shapes, NEW first \in Nat \ {0}, NEW time \in Nat
  PROVE  Run(CutAll(m, first, time), first) /\ OfMessage(CutAll(m, first, time), m.id)
<1> DEFINE a == Packetized(m, 1, m.nals[1], first, time)
           b == Packetized(m, 2, m.nals[2], first + Len(a), time)
<1>1. m.id \in Int /\ Len(m.nals) \in {0, 1, 2}
  BY DEF Shapes
<1>2. /\ Len(m.nals) >= 1 => m.nals[1] \in Nat \ {0}
      /\ Len(m.nals) = 2 => m.nals[2] \in Nat \ {0}
  BY DEF Shapes
<1>3. Len(m.nals) >= 1 => Run(a, first) /\ OfMessage(a, m.id) /\ Len(a) \in Nat
  <2> SUFFICES ASSUME Len(m.nals) >= 1
               PROVE Run(a, first) /\ OfMessage(a, m.id) /\ Len(a) \in Nat
    OBVIOUS
  <2>1. m.nals[1] \in Nat \ {0} /\ 1 \in Nat
    BY <1>2
  <2> DEFINE size == m.nals[1]
             one == 1
  <2>2. Len(a) = size /\ Run(a, first) /\ OfMessage(a, m.id)
    <3>1. size \in Nat \ {0} /\ one \in Nat /\ m.id \in Int /\ a = Packetized(m, one, size, first, time)
      BY <1>1, <2>1
    <3> HIDE DEF size, a, one
    <3>2. Len(Packetized(m, one, size, first, time)) = size
          /\ Run(Packetized(m, one, size, first, time), first)
          /\ OfMessage(Packetized(m, one, size, first, time), m.id)
      BY <3>1, PacketizedRuns
    <3> QED
      BY <3>1, <3>2
  <2> HIDE DEF a
  <2> QED
    BY <2>1, <2>2
<1>4. Len(m.nals) = 2 => Run(b, first + Len(a)) /\ OfMessage(b, m.id)
  <2> SUFFICES ASSUME Len(m.nals) = 2  PROVE Run(b, first + Len(a)) /\ OfMessage(b, m.id)
    OBVIOUS
  <2> DEFINE e == first + Len(a)
  <2>1. e \in Nat \ {0} /\ m.nals[2] \in Nat \ {0} /\ m.id \in Int
    <3> HIDE DEF a
    <3> QED
      BY <1>1, <1>2, <1>3
  <2> HIDE DEF e
  <2>2. Run(Packetized(m, 2, m.nals[2], e, time), e)
        /\ OfMessage(Packetized(m, 2, m.nals[2], e, time), m.id)
    BY <2>1, PacketizedRuns
  <2> QED
    BY <2>2 DEF e
<1>5. Len(m.nals) = 2 => Run(a \o b, first) /\ OfMessage(a \o b, m.id)
  <2> HIDE DEF a, b
  <2> QED
    BY <1>3, <1>4, RunsJoin
<1>6. CASE Len(m.nals) = 0
  <2>1. CutAll(m, first, time) = <<>>
    BY <1>6, CutIs
  <2> QED
    BY <2>1, NoneRuns
<1> DEFINE w == <<>> \o Packetized(m, 1, m.nals[1], first + Len(<<>>), time)
<1>7. ASSUME Len(m.nals) >= 1
      PROVE  w = a
  <2>1. first + Len(<<>>) = first
    OBVIOUS
  <2>2. a \in Seq(Packets)
    BY <1>3, <1>7 DEF Run
  <2>3. <<>> \o a = a
    <3> HIDE DEF a
    <3> QED
      BY <2>2
  <2> QED
    BY <2>1, <2>3
<1> HIDE DEF w
<1>8. CASE Len(m.nals) = 1
  <2>1. CutAll(m, first, time) = w
    BY <1>8, CutIs DEF w
  <2> QED
    BY <1>3, <1>7, <1>8, <2>1
<1>9. CASE Len(m.nals) = 2
  <2>1. CutAll(m, first, time) = w \o Packetized(m, 2, m.nals[2], first + Len(w), time)
    BY <1>9, CutIs DEF w
  <2>2. w = a
    BY <1>7, <1>9
  <2> QED
    BY <1>5, <1>9, <2>1, <2>2
<1> QED
  BY <1>1, <1>6, <1>8, <1>9

LEMMA SendsRun ==
  ASSUME RtpTypes, NEW ps, Run(ps, sent.next), Sends(ps)
  PROVE  /\ wire' = wire \o ps /\ report' \in NatOrNone
         /\ sent' = [sent EXCEPT !.next = @ + Len(ps)]
<1> DEFINE turns == {p \in Range(ps) : (p.num - sent.first) % ReportPeriod = 0}
<1>1. wire' = wire \o ps /\ sent' = [sent EXCEPT !.next = @ + Len(ps)]
  BY DEF Sends
<1>2. report' = IF turns # {} THEN (CHOOSE p \in turns : TRUE).time ELSE report
  BY DEF Sends
<1>3. turns \subseteq Packets
  <2>1. \A i \in DOMAIN ps : ps[i] \in Packets
    BY DEF Run
  <2> QED
    BY <2>1 DEF Range
<1> HIDE DEF turns
<1>4. report' \in NatOrNone
  <2>1. CASE turns # {}
    <3> DEFINE p == CHOOSE p \in turns : TRUE
    <3>1. p \in turns
      BY <2>1
    <3>2. p \in Packets
      BY <1>3, <3>1
    <3> HIDE DEF p
    <3>3. p.time \in Nat
      BY <3>2 DEF Packets
    <3> QED
      BY <1>2, <2>1, <3>3 DEF NatOrNone, p
  <2>2. CASE turns = {}
    BY <1>2, <2>2 DEF RtpTypes
  <2> QED
    BY <2>1, <2>2
<1> QED
  BY <1>1, <1>4

\* Nothing is sent.
LEMMA IdleFeeds ==
  ASSUME RtpTypes, held' \in Seq(Chunks), UNCHANGED <<sent, wire, report>>,
         trouble \subseteq trouble', trouble' \subseteq trouble \cup {"tail"}
  PROVE  Feeds
<1> DEFINE ps == <<>>
<1>1. Run(ps, sent.next) /\ \A i \in DOMAIN ps : ps[i].nal[1] # -1
  BY NoneRuns
<1>2. wire' = wire \o ps
  BY DEF RtpTypes
<1>3. sent' = [sent EXCEPT !.next = @ + Len(ps)]
  <2>1. sent \in [next : Nat \ {0}, first : Nat] /\ Len(ps) = 0
    BY DEF RtpTypes
  <2>2. sent.next + Len(ps) = sent.next
    BY <2>1
  <2>3. [sent EXCEPT !.next = sent.next] = sent
    BY <2>1
  <2> QED
    BY <2>2, <2>3
<1>4. report' \in NatOrNone
  BY DEF RtpTypes
<1> HIDE DEF ps
<1> QED
  BY <1>1, <1>2, <1>3, <1>4 DEF Feeds

LEMMA PieceFeeds ==
  ASSUME RtpTypes, NEW m \in Shapes, NEW k \in {1, 2}, FeedDataVideo(m, k)
  PROVE  Feeds
<1>1. CASE k = 1 /\ m.setup
  <2>1. UNCHANGED <<held, sent, wire, report, trouble>>
    BY <1>1 DEF FeedDataVideo
  <2>2. held' \in Seq(Chunks)
    BY <2>1 DEF RtpTypes
  <2> QED
    BY <2>1, <2>2, IdleFeeds
<1>2. CASE ~(k = 1 /\ m.setup)
  <2> DEFINE buffer == KeepsPiece(m, k)
             whole == WholeMessage(buffer)
             time == m.time + buffer[1].message.offset
             body == IF whole = <<>> THEN <<>> ELSE CutAll(whole[1], sent.next, time)
             tail == whole # <<m>>
             rest == Garbage(sent.next + Len(body), time)
  <2>1. /\ held' = buffer
        /\ IF k < m.pieces THEN UNCHANGED <<sent, wire, report, trouble>>
           ELSE /\ trouble' = IF tail THEN trouble \cup {"tail"} ELSE trouble
                /\ \/ Sends(body)
                   \/ tail /\ Sends(body \o rest)
    BY <1>2 DEF FeedDataVideo
  <2>2. buffer \in Seq(Chunks) /\ buffer[1] \in Chunks
    <3> DEFINE c == [message |-> m, piece |-> k]
    <3>1. c \in Chunks
      BY DEF Chunks
    <3>2. held \in Seq(Chunks)
      BY DEF RtpTypes
    <3> HIDE DEF c
    <3>3. CASE k = 1
      <4>1. buffer = <<>> \o <<c>>
        BY <3>3 DEF KeepsPiece, c
      <4>2. buffer = <<c>>
        BY <4>1
      <4> HIDE DEF buffer
      <4> QED
        BY <3>1, <4>2
    <3>4. CASE k = 2
      <4>1. buffer = held \o <<c>>
        BY <3>4 DEF KeepsPiece, c
      <4> HIDE DEF buffer
      <4>2. buffer \in Seq(Chunks) /\ Len(buffer) = Len(held) + 1 /\ Len(held) \in Nat
        BY <3>1, <3>2, <4>1
      <4> QED
        BY <4>2
    <3> QED
      BY <3>3, <3>4
  <2>3. time \in Nat
    <3>1. buffer[1].message \in Shapes
      BY <2>2 DEF Chunks
    <3> HIDE DEF buffer
    <3>2. buffer[1].message.offset \in Nat /\ m.time \in Nat
      BY <3>1 DEF Shapes
    <3> QED
      BY <3>2
  <2>4. whole = <<>> \/ whole = <<buffer[1].message>>
    BY DEF WholeMessage
  <2>5. sent.next \in Nat \ {0}
    BY DEF RtpTypes
  <2>6. Run(body, sent.next) /\ (~tail => OfMessage(body, m.id))
        /\ (whole = <<>> \/ OfMessage(body, buffer[1].message.id))
    <3> HIDE DEF buffer, time
    <3>1. CASE whole = <<>>
      <4>1. body = <<>>
        BY <3>1
      <4> QED
        BY <4>1, NoneRuns
    <3>2. CASE whole = <<buffer[1].message>> /\ whole # <<>>
      <4> DEFINE n == buffer[1].message
      <4>1. n \in Shapes /\ whole[1] = n /\ body = CutAll(n, sent.next, time)
        BY <2>2, <3>2 DEF Chunks
      <4> HIDE DEF n, whole
      <4>2. Run(body, sent.next) /\ OfMessage(body, n.id)
        <5>1. Run(CutAll(n, sent.next, time), sent.next) /\ OfMessage(CutAll(n, sent.next, time), n.id)
          BY <2>3, <2>5, <4>1, CutAllRuns
        <5> QED
          BY <4>1, <5>1
      <4>3. ~tail => n = m
        <5>1. ~tail => <<n>> = <<m>>
          BY <3>2 DEF n
        <5> QED
          BY <5>1
      <4> QED
        BY <4>2, <4>3 DEF n
    <3> QED
      BY <2>4, <3>1, <3>2
  <2>7. Run(body \o rest, sent.next)
    <3> DEFINE e == sent.next + Len(body)
               g == [id |-> -1]
    <3>1. Len(body) \in Nat
      <4> HIDE DEF body
      <4> QED
        BY <2>6 DEF Run
    <3> HIDE DEF body, time
    <3>2. e \in Nat \ {0} /\ g.id \in Int
      BY <2>5, <3>1
    <3>3. rest = Packetized(g, 1, 1, e, time)
      BY DEF Garbage
    <3> HIDE DEF e, g, rest
    <3>4. Run(Packetized(g, 1, 1, e, time), e)
      BY <2>3, <3>2, PacketizedRuns
    <3>5. Run(rest, e)
      BY <3>3, <3>4
    <3> QED
      BY <2>5, <2>6, <3>1, <3>5, RunsJoin DEF e
  <2>8. held' \in Seq(Chunks)
    BY <2>1, <2>2
  <2> HIDE DEF buffer, whole, time, rest
  <2>9. CASE k < m.pieces
    <3>1. UNCHANGED <<sent, wire, report, trouble>>
      BY <2>1, <2>9
    <3> QED
      BY <2>8, <3>1, IdleFeeds
  <2>10. CASE ~(k < m.pieces)
    <3>1. trouble' = IF tail THEN trouble \cup {"tail"} ELSE trouble
      BY <2>1, <2>10
    <3>2. \E ps : Run(ps, sent.next) /\ Sends(ps) /\ (~tail => ps = body)
      BY <2>1, <2>6, <2>7, <2>10
    <3>3. PICK ps : Run(ps, sent.next) /\ Sends(ps) /\ (~tail => ps = body)
      BY <3>2
    <3>4. "tail" \notin trouble' => \A i \in DOMAIN ps : ps[i].nal[1] # -1
      <4>1. m.id # -1
        BY DEF Shapes
      <4>2. "tail" \notin trouble' => ~tail
        BY <3>1
      <4> QED
        BY <2>6, <3>3, <4>1, <4>2 DEF OfMessage
    <3>5. /\ wire' = wire \o ps /\ report' \in NatOrNone
          /\ sent' = [sent EXCEPT !.next = @ + Len(ps)]
      BY <3>3, SendsRun
    <3>6. trouble \subseteq trouble' /\ trouble' \subseteq trouble \cup {"tail"}
      BY <3>1
    <3> QED
      BY <2>8, <3>3, <3>4, <3>5, <3>6 DEF Feeds
  <2> QED
    BY <2>9, <2>10
<1> QED
  BY <1>1, <1>2

-----------------------------------------------------------------------------
(* Feeding keeps the invariant. *)

LEMMA FedIsKnown ==
  ASSUME RtpTypes, NEW ps, Run(ps, sent.next), wire' = wire \o ps, nalu' = nalu
  PROVE  /\ wire' \in Seq(Packets) /\ Len(wire') = Len(wire) + Len(ps)
         /\ Len(wire) \in Nat /\ Len(ps) \in Nat
         /\ \A i \in DOMAIN wire' :
              \/ i \in DOMAIN wire /\ wire'[i] = wire[i]
              \/ i - Len(wire) \in DOMAIN ps /\ wire'[i] = ps[i - Len(wire)]
         /\ Known' \subseteq Known \cup {ps[i] : i \in DOMAIN ps}
<1> DEFINE n == Len(wire)
<1>1. wire \in Seq(Packets) /\ ps \in Seq(Packets)
  BY DEF RtpTypes, Run
<1>2. /\ wire' \in Seq(Packets) /\ Len(wire') = n + Len(ps)
      /\ n \in Nat /\ Len(ps) \in Nat /\ DOMAIN wire' = 1 .. n + Len(ps)
      /\ DOMAIN wire = 1 .. n /\ DOMAIN ps = 1 .. Len(ps)
  BY <1>1
<1>3. ASSUME NEW i \in DOMAIN wire'
      PROVE  \/ i \in DOMAIN wire /\ wire'[i] = wire[i]
             \/ i - n \in DOMAIN ps /\ wire'[i] = ps[i - n]
  <2>1. CASE i <= n
    <3>1. wire'[i] = wire[i]
      BY <1>1, <1>2, <2>1
    <3> QED
      BY <1>2, <2>1, <3>1
  <2>2. CASE i > n
    <3>1. wire'[i] = ps[i - n]
      BY <1>1, <1>2, <2>2
    <3> QED
      BY <1>2, <2>2, <3>1
  <2> QED
    BY <1>2, <2>1, <2>2
<1>4. Known' \subseteq Known \cup {ps[i] : i \in DOMAIN ps}
  BY <1>3 DEF Known
<1> QED
  BY <1>2, <1>3, <1>4

LEMMA KnownIsTyped ==
  ASSUME RtpTypes, NEW p \in Known
  PROVE  p \in Packets /\ p.num \in Nat /\ p.num # 0 /\ p.time \in Nat
<1>1. p \in Packets
  BY DEF RtpTypes, Known
<1> QED
  BY <1>1 DEF Packets

LEMMA FedFits ==
  ASSUME RtpTypes, PacketsFit, NEW ps, Run(ps, sent.next),
         "tail" \notin trouble' => \A i \in DOMAIN ps : ps[i].nal[1] # -1,
         trouble \subseteq trouble',
         wire' = wire \o ps, sent' = [sent EXCEPT !.next = @ + Len(ps)], nalu' = nalu
  PROVE  PacketsFit'
<1> DEFINE next == sent.next
           len == Len(ps)
           New == {ps[i] : i \in DOMAIN ps}
<1>1. next \in Nat \ {0} /\ len \in Nat /\ sent'.next = next + len /\ DOMAIN ps = 1 .. len
  <2>1. sent \in [next : Nat \ {0}, first : Nat] /\ ps \in Seq(Packets)
    BY DEF RtpTypes, Run
  <2> QED
    BY <2>1
<1>2. Known' \subseteq Known \cup New
  BY FedIsKnown
<1>3. ASSUME NEW p \in New
      PROVE  /\ \E i \in 1 .. len : p = ps[i] /\ p.num = next + i - 1
             /\ WellFormed(p) /\ p.num \in Nat /\ p.num >= next
             /\ p.num < next + len /\ (p.num = next + len - 1 => p.m)
  <2>1. PICK i \in DOMAIN ps : p = ps[i]
    OBVIOUS
  <2>2. p.num = next + i - 1 /\ WellFormed(p)
    BY <2>1 DEF Run
  <2>3. i \in 1 .. len
    BY <1>1, <2>1
  <2>4. p.num = next + len - 1 => p.m
    <3>1. p.num = next + len - 1 => i = len
      BY <1>1, <2>2, <2>3
    <3>2. ps # <<>>
      BY <2>1
    <3>3. ps[len].m
      BY <3>2 DEF Run
    <3> QED
      BY <2>1, <3>1, <3>3
  <2> HIDE DEF next, len
  <2>5. p.num \in Nat /\ p.num >= next /\ p.num < next + len
    BY <1>1, <2>2, <2>3
  <2> QED
    BY <2>1, <2>2, <2>3, <2>4, <2>5
<1>4. ASSUME NEW p \in Known
      PROVE  p.num \in Nat /\ p.num < next /\ (p.num = next - 1 => p.m) /\ WellFormed(p)
  BY KnownIsTyped DEF PacketsFit
<1>5. ASSUME NEW p \in Known'
      PROVE  p.num < sent'.next /\ (p.num = sent'.next - 1 => p.m) /\ WellFormed(p)
  <2>1. CASE p \in New
    <3> HIDE DEF New, next, len
    <3> QED
      BY <1>1, <1>3, <2>1
  <2>2. CASE p \in Known
    <3>1. p.num \in Nat /\ p.num < next /\ (p.num = next - 1 => p.m) /\ WellFormed(p)
      BY <1>4, <2>2
    <3> HIDE DEF next, len
    <3>2. p.num < sent'.next
      BY <1>1, <3>1
    <3>3. p.num = sent'.next - 1 => p.num = next - 1
      BY <1>1, <3>1
    <3> QED
      BY <3>1, <3>2, <3>3
  <2> QED
    BY <1>2, <2>1, <2>2
<1>6. ASSUME NEW p \in Known', NEW q \in Known', q.num = p.num + 1
      PROVE  Follows(p, q)
  <2>1. CASE p \in Known /\ q \in Known
    BY <1>6, <2>1 DEF PacketsFit
  <2>2. CASE p \in Known /\ q \in New
    <3>1. PICK i \in 1 .. len : q = ps[i] /\ q.num = next + i - 1
      <4> HIDE DEF New, len, next
      <4> QED
        BY <1>3, <2>2
    <3>2. p.num \in Nat /\ p.num < next /\ (p.num = next - 1 => p.m)
      BY <1>4, <2>2
    <3>3. i = 1 /\ p.num = next - 1
      <4> HIDE DEF next, len
      <4> QED
        BY <1>1, <1>6, <3>1, <3>2
    <3>4. ps # <<>>
      BY <1>1, <3>1
    <3>5. q.part \in {"whole", "start"}
      BY <3>1, <3>3, <3>4 DEF Run
    <3> QED
      BY <3>2, <3>3, <3>5 DEF Follows
  <2>3. CASE p \in New /\ q \in Known
    <3>1. p.num \in Nat /\ p.num >= next /\ q.num \in Nat /\ q.num < next
      <4> HIDE DEF New, next, len
      <4> QED
        BY <1>3, <1>4, <2>3
    <3> HIDE DEF next
    <3> QED
      BY <1>1, <1>6, <3>1
  <2>4. CASE p \in New /\ q \in New
    <3>1. PICK i \in 1 .. len : p = ps[i] /\ p.num = next + i - 1
      <4> HIDE DEF New, next, len
      <4> QED
        BY <1>3, <2>4
    <3>2. PICK j \in 1 .. len : q = ps[j] /\ q.num = next + j - 1
      <4> HIDE DEF New, next, len
      <4> QED
        BY <1>3, <2>4
    <3>3. j = i + 1
      <4> HIDE DEF next, len
      <4> QED
        BY <1>1, <1>6, <3>1, <3>2
    <3>4. i \in DOMAIN ps /\ j \in DOMAIN ps
      BY <1>1
    <3> QED
      BY <3>1, <3>2, <3>3, <3>4 DEF Run
  <2> QED
    BY <1>2, <2>1, <2>2, <2>3, <2>4
<1>7. "tail" \notin trouble' => \A p \in Known' : p.nal[1] # -1
  BY <1>2 DEF PacketsFit
<1> QED
  BY <1>5, <1>6, <1>7 DEF PacketsFit

LEMMA FedWire ==
  ASSUME RtpTypes, PacketsFit, WireHolds, NEW ps, Run(ps, sent.next), UNCHANGED filter,
         wire' = wire \o ps, sent' = [sent EXCEPT !.next = @ + Len(ps)], nalu' = nalu
  PROVE  WireHolds'
<1> DEFINE next == sent.next
           n == Len(wire)
           len == Len(ps)
           newest == filter.newest
<1>1. /\ next \in Nat \ {0} /\ len \in Nat /\ sent'.next = next + len /\ DOMAIN ps = 1 .. len
      /\ newest \in Int /\ newest < next /\ DOMAIN wire = 1 .. n /\ n \in Nat
  <2>1. sent \in [next : Nat \ {0}, first : Nat] /\ ps \in Seq(Packets) /\ wire \in Seq(Packets)
    BY DEF RtpTypes, Run
  <2>2. newest \in NatOrNone
    BY DEF RtpTypes
  <2>3. newest < next
    BY DEF WireHolds
  <2> QED
    BY <2>1, <2>2, <2>3 DEF NatOrNone
<1>2. ASSUME NEW i \in DOMAIN wire'
      PROVE  \/ i \in DOMAIN wire /\ wire'[i] = wire[i]
             \/ i - n \in DOMAIN ps /\ wire'[i] = ps[i - n] /\ wire'[i].num = next + (i - n) - 1
  <2>1. \/ i \in DOMAIN wire /\ wire'[i] = wire[i]
        \/ i - n \in DOMAIN ps /\ wire'[i] = ps[i - n]
    BY FedIsKnown
  <2> QED
    BY <2>1 DEF Run
<1>3. ASSUME NEW i \in DOMAIN wire
      PROVE  wire[i].num \in Nat /\ wire[i].num < next
  <2>1. wire[i] \in Known
    BY DEF Known
  <2> QED
    BY <2>1, KnownIsTyped DEF PacketsFit
<1>4. DOMAIN wire' \subseteq Nat
  <2>1. wire' \in Seq(Packets)
    BY FedIsKnown
  <2> QED
    BY <2>1
<1>5. ASSUME NEW i \in DOMAIN wire', NEW j \in DOMAIN wire', i < j
      PROVE  wire'[i].num < wire'[j].num
  <2>1. CASE i \in DOMAIN wire /\ wire'[i] = wire[i] /\ j \in DOMAIN wire /\ wire'[j] = wire[j]
    BY <1>5, <2>1 DEF WireHolds
  <2>2. CASE /\ i \in DOMAIN wire /\ wire'[i] = wire[i]
             /\ j - n \in DOMAIN ps /\ wire'[j].num = next + (j - n) - 1
    <3>1. wire[i].num \in Nat /\ wire[i].num < next
      BY <1>3, <2>2
    <3>2. j - n \in Nat /\ j - n >= 1
      BY <1>1, <2>2
    <3> HIDE DEF next, n
    <3> QED
      BY <1>1, <2>2, <3>1, <3>2
  <2>3. CASE /\ i - n \in DOMAIN ps /\ j \in DOMAIN wire
    <3> HIDE DEF n, len
    <3> QED
      BY <1>1, <1>4, <1>5, <2>3
  <2>4. CASE /\ i - n \in DOMAIN ps /\ wire'[i].num = next + (i - n) - 1
             /\ j - n \in DOMAIN ps /\ wire'[j].num = next + (j - n) - 1
    <3>1. i \in Nat /\ j \in Nat
      BY <1>4
    <3> HIDE DEF next, n
    <3> QED
      BY <1>1, <1>5, <2>4, <3>1
  <2> QED
    BY <1>2, <2>1, <2>2, <2>3, <2>4
<1>6. Quarter \in Nat
  BY RtpAssumption DEF Quarter
<1>7. ASSUME NEW i \in DOMAIN wire'
      PROVE  newest - wire'[i].num <= Quarter
  <2>1. CASE i \in DOMAIN wire /\ wire'[i] = wire[i]
    BY <2>1 DEF WireHolds
  <2>2. CASE i - n \in DOMAIN ps /\ wire'[i].num = next + (i - n) - 1
    <3>1. i - n \in Nat /\ i - n >= 1
      BY <1>1, <2>2
    <3> HIDE DEF next, n, newest
    <3> QED
      BY <1>1, <1>6, <2>2, <3>1
  <2> QED
    BY <1>2, <2>1, <2>2
<1>8. newest < sent'.next
  <2> HIDE DEF next, newest, len
  <2> QED
    BY <1>1
<1>9. filter'.newest = newest /\ Quarter' = Quarter
  OBVIOUS
<1> QED
  BY <1>5, <1>7, <1>8, <1>9 DEF WireHolds

LEMMA FeedKeeps ==
  ASSUME RtpInv, Feeds, UNCHANGED <<faults, receiver>>,
         feed'.count \in Nat, feed'.time \in NatOrNone, feed'.piece \in {0, 2},
         feed'.piece = 2 => feed'.message \in Shapes
  PROVE  RtpInv'
<1>1. RtpTypes /\ PacketsFit /\ WireHolds
  BY DEF RtpInv
<1>2. UNCHANGED <<filter, nalu, synced, media, rtcp, out>>
  BY DEF receiver
<1>3. PICK ps : /\ Run(ps, sent.next)
                /\ "tail" \notin trouble' => \A i \in DOMAIN ps : ps[i].nal[1] # -1
                /\ wire' = wire \o ps
                /\ sent' = [sent EXCEPT !.next = @ + Len(ps)]
  BY DEF Feeds
<1>4. PacketsFit'
  BY <1>1, <1>2, <1>3, FedFits DEF Feeds
<1>5. WireHolds'
  BY <1>1, <1>2, <1>3, FedWire
<1>6. RtpTypes'
  <2>1. wire' \in Seq(Packets) /\ Len(ps) \in Nat
    BY <1>1, <1>2, <1>3, FedIsKnown
  <2>2. sent' \in [next : Nat \ {0}, first : Nat]
    <3>1. sent \in [next : Nat \ {0}, first : Nat]
      BY <1>1 DEF RtpTypes
    <3>2. sent.next + Len(ps) \in Nat \ {0}
      BY <2>1, <3>1
    <3>3. sent' = [sent EXCEPT !.next = sent.next + Len(ps)]
      BY <1>3
    <3> QED
      BY <3>1, <3>2, <3>3
  <2> QED
    BY <1>1, <1>2, <2>1, <2>2 DEF RtpTypes, Feeds
<1>7. \A x \in {"zero", "late", "back"} : x \in trouble' <=> x \in trouble
  BY DEF Feeds
<1>8. NaluHolds'
  BY <1>2, <1>7 DEF RtpInv, NaluHolds
<1>9. OrderHolds'
  BY <1>2, <1>7 DEF RtpInv, OrderHolds, NumberOf
<1>10. FilterHolds'
  BY <1>2, <1>7 DEF RtpInv, FilterHolds
<1>11. StampsHold'
  BY <1>2, <1>7 DEF RtpInv, StampsHold, StampFacts, LineHolds, Unwrapped, Epoch
<1> QED
  BY <1>4, <1>5, <1>6, <1>8, <1>9, <1>10, <1>11 DEF RtpInv

-----------------------------------------------------------------------------
(* Receiving: the types. *)

LEMMA UnitIsTyped ==
  ASSUME NEW packets \in Seq(Packets), NEW line \in Lines, line.time \in Nat,
         Unwrapped(line) \in Nat, rtcp \in Clocks, out \in Outs, FeedData(packets, line)
  PROVE  /\ rtcp' \in Clocks /\ out' \in Outs
         /\ out' # out => out'.packets = packets
<1> DEFINE raw == Unwrapped(line)
           fresh == rtcp.presence = "absent" /\ rtcp.first = -1
           first == IF fresh THEN raw ELSE rtcp.first
           stamp == IF rtcp.presence = "available" THEN rtcp.time + raw - rtcp.rtp
                    ELSE raw - first
<1>1. /\ rtcp.time \in Int /\ rtcp.rtp \in Int /\ rtcp.first \in Int /\ raw \in Nat
      /\ raw \in NatOrNone /\ line.time \in NatOrNone
  BY DEF Clocks, NatOrNone
<1>2. stamp \in Int
  <2> HIDE DEF raw
  <2> QED
    BY <1>1
<1>3. CASE rtcp.presence = "unknown"
  <2>1. out' = out
    BY <1>3 DEF FeedData
  <2>2. \/ rtcp' = [rtcp EXCEPT !.presence = "absent"]
        \/ rtcp' = [rtcp EXCEPT !.started = TRUE]
        \/ rtcp' = [rtcp EXCEPT !.presence = "available"]
        \/ rtcp' = [rtcp EXCEPT !.presence = rtcp.presence]
    BY <1>3 DEF FeedData
  <2>3. rtcp' \in Clocks
    BY <2>2 DEF Clocks
  <2> QED
    BY <2>1, <2>3
<1>4. CASE rtcp.presence # "unknown"
  <2>1. /\ rtcp' = IF fresh THEN [rtcp EXCEPT !.first = raw, !.firstTime = line.time] ELSE rtcp
        /\ out' = IF stamp < out.stamp \/ stamp = 0 THEN out
                  ELSE [packets |-> packets, stamp |-> stamp, time |-> line.time]
    BY <1>4 DEF FeedData
  <2> HIDE DEF fresh, raw, stamp
  <2>2. rtcp' \in Clocks
    BY <1>1, <2>1 DEF Clocks
  <2>3. out' \in Outs /\ (out' # out => out'.packets = packets)
    BY <1>2, <2>1 DEF Outs
  <2> QED
    BY <2>2, <2>3
<1> QED
  BY <1>3, <1>4

LEMMA LowIsTyped ==
  ASSUME NEW n \in Nat
  PROVE  n % SeqRange \in 0 .. SeqRange - 1 /\ n \div SeqRange \in Nat
BY RtpAssumption

\* The three ways a packet is taken in.
LEMMA ReceivedIsTyped ==
  ASSUME RtpTypes, NEW p \in Known, FeedVideoData(p)
  PROVE  /\ nalu' \in Seq(Packets) /\ synced' \in 0 .. SeqRange - 1
         /\ media' \in Lines /\ rtcp' \in Clocks /\ out' \in Outs
         /\ nalu' # <<>> => \/ nalu' = nalu \/ nalu' = <<p>> \/ nalu' = nalu \o <<p>>
         /\ out' # out => media' # media \/ media'.time = p.time
<1>1. p \in Packets /\ p.num \in Nat /\ p.time \in Nat
  BY KnownIsTyped
<1>2. Seq16(p) \in 0 .. SeqRange - 1 /\ 0 \in 0 .. SeqRange - 1
  BY <1>1, LowIsTyped, RtpAssumption DEF Seq16
<1>3. /\ nalu \in Seq(Packets) /\ media \in Lines /\ rtcp \in Clocks /\ out \in Outs
      /\ synced \in 0 .. SeqRange - 1
  BY DEF RtpTypes
<1>4. CASE OutOfStep(p)
  BY <1>2, <1>3, <1>4 DEF OutOfStep, Lost
<1>5. CASE Resync(p)
  BY <1>2, <1>3, <1>5 DEF Resync, Skip
<1>6. CASE InStepPacket(p)
  <2>1. media' = ComputeRTP(media, p.time)
    BY <1>6 DEF InStepPacket
  <2>2. media' \in Lines /\ media'.time = p.time /\ media'.time \in Nat /\ Unwrapped(media') \in Nat
    <3> DEFINE line == ComputeRTP(media, p.time)
    <3>1. line \in Lines /\ line.time = p.time /\ Unwrapped(line) \in Nat
      BY <1>1, <1>3, LineIsComputed
    <3>2. Unwrapped(media') = Unwrapped(line)
      BY <2>1 DEF Unwrapped
    <3> QED
      BY <1>1, <2>1, <3>1, <3>2
  <2>3. CASE p.part = "whole" /\ synced' = Seq16(p) /\ UNCHANGED nalu /\ FeedData(<<p>>, media')
    <3>1. <<p>> \in Seq(Packets)
      BY <1>1
    <3>2. rtcp' \in Clocks /\ out' \in Outs
      BY <1>3, <2>2, <2>3, <3>1, UnitIsTyped
    <3> QED
      BY <1>2, <1>3, <2>2, <2>3, <3>2
  <2>4. CASE /\ p.part # "whole" /\ nalu = <<>>
             /\ IF p.part = "start" THEN nalu' = <<p>> /\ synced' = Seq16(p)
                ELSE nalu' = nalu /\ synced' = 0
             /\ UNCHANGED <<rtcp, out>>
    <3>1. <<p>> \in Seq(Packets) /\ rtcp' = rtcp /\ out' = out
      BY <1>1, <2>4
    <3>2. \/ nalu' = <<p>> /\ synced' = Seq16(p)
          \/ nalu' = nalu /\ synced' = 0
      BY <2>4
    <3> QED
      BY <1>2, <1>3, <2>2, <3>1, <3>2
  <2>5. CASE /\ p.part # "whole" /\ nalu # <<>> /\ synced' = Seq16(p)
             /\ IF p.part = "end" THEN nalu' = <<>> /\ FeedData(nalu \o <<p>>, media')
                ELSE nalu' = nalu \o <<p>> /\ UNCHANGED <<rtcp, out>>
    <3>1. nalu \o <<p>> \in Seq(Packets)
      BY <1>1, <1>3
    <3>2. CASE p.part = "end"
      <4> DEFINE ps == nalu \o <<p>>
      <4>1. ps \in Seq(Packets) /\ FeedData(ps, media')
        BY <2>5, <3>1, <3>2
      <4> HIDE DEF ps
      <4>2. rtcp' \in Clocks /\ out' \in Outs
        BY <1>3, <2>2, <4>1, UnitIsTyped
      <4> QED
        BY <1>2, <1>3, <2>2, <2>5, <3>2, <4>2
    <3>3. CASE p.part # "end"
      BY <1>2, <1>3, <2>2, <2>5, <3>1, <3>3
    <3> QED
      BY <3>2, <3>3
  <2> QED
    BY <1>6, <2>3, <2>4, <2>5 DEF InStepPacket
<1> QED
  BY <1>4, <1>5, <1>6 DEF FeedVideoData

-----------------------------------------------------------------------------
(* Receiving: the numbers. *)

LEMMA QuarterIs == Quarter \in Nat /\ Quarter = (SeqRange - 1) \div 4
BY RtpAssumption DEF Quarter

LEMMA CountsIsTyped ==
  ASSUME RtpTypes, NEW p \in Known
  PROVE  /\ Counts(p) \in [last : 0 .. SeqRange - 1, rolls : Nat, first : NatOrNone,
                           newest : NatOrNone]
         /\ Counts(p).newest = IF p.num > filter.newest THEN p.num ELSE filter.newest
         /\ Counts(p).newest >= p.num /\ Counts(p).newest >= filter.newest
         /\ Counts(p).newest \in Nat /\ filter.newest \in Int
<1>1. p.num \in Nat /\ p.num # 0
  BY KnownIsTyped
<1>2. Seq16(p) \in 0 .. SeqRange - 1
  BY <1>1, LowIsTyped DEF Seq16
<1>3. filter \in [last : 0 .. SeqRange - 1, rolls : Nat, first : NatOrNone, newest : NatOrNone]
  BY DEF RtpTypes
<1>4. filter.newest \in Int /\ filter.newest >= -1
  BY <1>3 DEF NatOrNone
<1> QED
  BY <1>1, <1>2, <1>3, <1>4 DEF Counts, NatOrNone

\* A packet that passes and is not late is not smaller than the newest one.
LEMMA AcceptedIsNewest ==
  ASSUME RtpTypes, FilterHolds, NEW p, Accepted(p), "late" \notin trouble'
  PROVE  /\ filter.newest = -1 \/ p.num >= filter.newest
         /\ filter'.newest = p.num /\ "late" \notin trouble
         /\ FilterHolds'
<1>1. p \in Known /\ p.num \in Nat /\ p.num # 0
  BY KnownIsTyped DEF Accepted
<1>2. "late" \notin trouble /\ ~(p.num \div SeqRange < filter.newest \div SeqRange)
  BY DEF Accepted
<1>3. filter' = Counts(p)
  BY DEF Accepted
<1>4. filter.newest \in NatOrNone /\ filter.rolls \in Nat
  BY DEF RtpTypes
<1>5. SeqRange \in Nat /\ SeqRange >= 4 /\ SeqRange \in Nat \ {0}
  BY RtpAssumption
<1>6. /\ filter'.last = p.num % SeqRange
      /\ filter'.rolls = IF p.num % SeqRange < filter.last THEN filter.rolls + 1
                         ELSE filter.rolls
      /\ filter'.first = IF filter.first = -1 THEN p.num ELSE filter.first
      /\ filter'.newest = IF p.num > filter.newest THEN p.num ELSE filter.newest
  BY <1>3 DEF Counts, Seq16
<1>7. CASE filter.newest = -1
  <2>1. filter.last = 0 /\ filter.rolls = 0 /\ filter.first = -1
    BY <1>2, <1>7 DEF FilterHolds
  <2>2. p.num % SeqRange >= 0 /\ p.num % SeqRange \in Int /\ p.num \div SeqRange \in Int
    BY <1>1, <1>5, DivMod
  <2>3. filter'.rolls = 0 /\ filter'.first = p.num /\ filter'.newest = p.num
    BY <1>1, <1>6, <1>7, <2>1, <2>2
  <2>4. FilterHolds'
    <3>1. filter'.newest # -1 /\ filter'.first # -1
      BY <1>1, <2>3
    <3>2. filter'.rolls = (filter'.newest \div SeqRange) - (filter'.first \div SeqRange)
      BY <2>2, <2>3
    <3> QED
      BY <1>6, <2>3, <3>1, <3>2 DEF FilterHolds
  <2> QED
    BY <1>2, <1>7, <2>3, <2>4
<1>8. CASE filter.newest # -1
  <2> DEFINE n == filter.newest
             q == p.num
             kn == n \div SeqRange
             kq == q \div SeqRange
  <2>1. n \in Nat /\ kn \in Int /\ kq \in Int
    <3>1. n \in Nat
      BY <1>4, <1>8 DEF NatOrNone
    <3> QED
      BY <1>1, <1>5, <3>1, DivMod
  <2>2. /\ filter.first # -1 /\ filter.last = n % SeqRange
        /\ filter.rolls = kn - (filter.first \div SeqRange)
    BY <1>2, <1>8 DEF FilterHolds
  <2>3. kn <= kq
    <3> HIDE DEF kn, kq
    <3> QED
      BY <1>2, <2>1 DEF kn, kq
  <2>4. ~(q % SeqRange < n % SeqRange /\ (n % SeqRange) - (q % SeqRange) <= (SeqRange - 1) \div 4)
    BY <2>2 DEF Accepted, IsOld, Seq16
  <2>5. n - q <= (SeqRange - 1) \div 4 /\ q - n <= SeqRange \div 2
    BY <1>8, QuarterIs DEF Accepted, NearNewest
  <2>6. q >= n /\ kq = IF q % SeqRange < n % SeqRange THEN kn + 1 ELSE kn
    <3> HIDE DEF n, q
    <3>1. n \div SeqRange <= q \div SeqRange /\ q \in Nat
      BY <1>1, <2>3 DEF q
    <3> HIDE DEF kn, kq
    <3> QED
      BY <1>5, <2>1, <2>4, <2>5, <3>1, NewestGrows DEF kn, kq
  <2>7. filter'.newest = q
    <3> HIDE DEF n
    <3>1. filter'.newest = IF q > n THEN q ELSE n
      BY <1>6 DEF n
    <3> QED
      BY <1>1, <2>1, <2>6, <3>1
  <2>8. filter'.rolls = kq - (filter.first \div SeqRange)
    <3> DEFINE f == filter.first \div SeqRange
    <3>1. f \in Int
      <4>1. filter.first \in Int
        BY DEF RtpTypes, NatOrNone
      <4> QED
        BY <1>5, <4>1, DivMod
    <3>2. filter'.rolls = IF q % SeqRange < n % SeqRange THEN filter.rolls + 1 ELSE filter.rolls
      BY <1>6, <2>2
    <3>3. filter.rolls = kn - f
      BY <2>2
    <3> HIDE DEF f, kn, kq
    <3>4. CASE q % SeqRange < n % SeqRange
      <4>1. kq = kn + 1 /\ filter'.rolls = filter.rolls + 1
        BY <2>6, <3>2, <3>4
      <4> QED
        BY <2>1, <3>1, <3>3, <4>1 DEF f
    <3>5. CASE ~(q % SeqRange < n % SeqRange)
      <4>1. kq = kn /\ filter'.rolls = filter.rolls
        BY <2>6, <3>2, <3>5
      <4> QED
        BY <3>3, <4>1 DEF f
    <3> QED
      BY <3>4, <3>5
  <2>9. FilterHolds'
    <3>1. filter'.newest # -1 /\ filter'.first = filter.first /\ filter'.first # -1
      BY <1>1, <1>6, <2>2, <2>7
    <3>2. filter'.last = filter'.newest % SeqRange
      BY <1>6, <2>7
    <3>3. filter'.rolls = (filter'.newest \div SeqRange) - (filter'.first \div SeqRange)
      BY <2>7, <2>8, <3>1
    <3> QED
      BY <3>1, <3>2, <3>3 DEF FilterHolds
  <2> QED
    BY <1>2, <2>6, <2>7, <2>9
<1> QED
  BY <1>7, <1>8

\* What is kept of a unit goes on with the packet that is in step.
LEMMA UnitGoesOn ==
  ASSUME RtpTypes, PacketsFit, WireHolds, NaluHolds, NEW p, Accepted(p), InStepPacket(p),
         nalu # <<>>, "zero" \notin trouble
  PROVE  /\ p.num = nalu[Len(nalu)].num + 1
         /\ p.part \in {"middle", "end"} /\ p.nal = nalu[1].nal
<1> DEFINE n == Len(nalu)
           last == nalu[n]
<1>1. p \in Known /\ p.num \in Nat
  BY KnownIsTyped DEF Accepted
<1>2. nalu \in Seq(Packets) /\ n \in Nat /\ n # 0 /\ n \in DOMAIN nalu
  BY DEF RtpTypes
<1>3. last \in Known /\ last.num \in Nat
  BY <1>2, KnownIsTyped DEF Known
<1>4. /\ ~last.m /\ last.nal = nalu[1].nal
      /\ synced # 0 /\ synced = last.num % SeqRange
      /\ filter.newest - Quarter <= last.num /\ last.num <= filter.newest
  BY <1>2 DEF NaluHolds
<1>5. p.num % SeqRange = (synced + 1) % SeqRange
  BY DEF InStepPacket, Seq16
<1>6. filter.newest \in Int
  BY CountsIsTyped, <1>1
<1>7. filter.newest # -1
  BY <1>3, <1>4, <1>6
<1>8. filter.newest - p.num <= Quarter /\ p.num - filter.newest <= SeqRange \div 2
  BY <1>7 DEF Accepted, NearNewest
<1>9. p.num = last.num + 1
  <2> DEFINE a == p.num
             b == last.num
             c == filter.newest
  <2>1. a \in Nat /\ b \in Nat /\ c \in Int /\ SeqRange \in Nat /\ SeqRange >= 4
    BY <1>1, <1>3, <1>6, RtpAssumption
  <2>2. a % SeqRange = ((b % SeqRange) + 1) % SeqRange
    BY <1>4, <1>5
  <2>3. c - Quarter <= b /\ b <= c /\ c - a <= Quarter /\ a - c <= SeqRange \div 2
    BY <1>4, <1>8
  <2> HIDE DEF a, b, c
  <2>4. c - b <= Quarter
    BY <2>1, <2>3, QuarterIs
  <2>5. c - b <= (SeqRange - 1) \div 4 /\ c - a <= (SeqRange - 1) \div 4
    BY <2>3, <2>4, QuarterIs
  <2>6. a = b + 1
    BY <2>1, <2>2, <2>3, <2>5, NextInWindow
  <2> QED
    BY <2>6 DEF a, b
<1>10. Follows(last, p)
  BY <1>1, <1>3, <1>9 DEF PacketsFit
<1> QED
  BY <1>4, <1>9, <1>10 DEF Follows

-----------------------------------------------------------------------------
(* Receiving: the NAL units. *)

LEMMA AcceptedFacts ==
  ASSUME RtpTypes, NEW p, Accepted(p)
  PROVE  /\ p \in Known /\ p \in Packets /\ p.num \in Nat /\ p.num # 0
         /\ Seq16(p) \in 0 .. SeqRange - 1
         /\ filter'.newest \in Nat /\ p.num <= filter'.newest
         /\ filter'.newest - Quarter <= p.num
         /\ \A x \in {"zero", "late", "back", "tail"} : x \in trouble => x \in trouble'
         /\ "zero" \notin trouble' => ~(Seq16(p) = 0 /\ nalu' # <<>>)
<1>1. p \in Known /\ p \in Packets /\ p.num \in Nat /\ p.num # 0
  BY KnownIsTyped DEF Accepted
<1>2. Seq16(p) \in 0 .. SeqRange - 1
  BY <1>1, LowIsTyped DEF Seq16
<1>3. /\ filter'.newest = IF p.num > filter.newest THEN p.num ELSE filter.newest
      /\ filter'.newest \in Nat /\ p.num <= filter'.newest /\ filter.newest \in Int
  BY <1>1, CountsIsTyped DEF Accepted
<1>4. filter.newest - p.num <= Quarter
  BY DEF Accepted
<1>5. filter'.newest - Quarter <= p.num
  BY <1>1, <1>3, <1>4, QuarterIs
<1>6. \A x \in {"zero", "late", "back", "tail"} : x \in trouble => x \in trouble'
  BY DEF Accepted
<1>7. "zero" \notin trouble' => ~(Seq16(p) = 0 /\ nalu' # <<>>)
  BY DEF Accepted
<1> QED
  BY <1>1, <1>2, <1>3, <1>5, <1>6, <1>7

\* What a packet in step does with what is kept.
LEMMA InStepKeeps ==
  ASSUME RtpTypes, PacketsFit, WireHolds, NaluHolds, NEW p, Accepted(p), InStepPacket(p),
         "zero" \notin trouble
  PROVE  \/ /\ p.part = "whole" /\ nalu = <<>> /\ nalu' = <<>> /\ synced' = Seq16(p)
            /\ out' # out => out'.packets = <<p>>
         \/ nalu = <<>> /\ nalu' = <<p>> /\ synced' = Seq16(p) /\ p.part = "start" /\ out' = out
         \/ nalu = <<>> /\ nalu' = <<>> /\ synced' = 0 /\ out' = out
         \/ /\ nalu # <<>> /\ nalu' = <<>> /\ synced' = Seq16(p) /\ p.part = "end"
            /\ out' # out => out'.packets = nalu \o <<p>>
         \/ nalu # <<>> /\ nalu' = nalu \o <<p>> /\ synced' = Seq16(p) /\ p.part = "middle"
            /\ out' = out
<1>1. p \in Packets /\ p.num \in Nat /\ p.time \in Nat /\ p \in Known
  BY KnownIsTyped DEF Accepted
<1>2. nalu \in Seq(Packets) /\ media \in Lines /\ rtcp \in Clocks /\ out \in Outs
  BY DEF RtpTypes
<1>3. nalu # <<>> => p.part \in {"middle", "end"}
  BY UnitGoesOn
<1>4. media' \in Lines /\ media'.time \in Nat /\ Unwrapped(media') \in Nat
  <2> DEFINE line == ComputeRTP(media, p.time)
  <2>1. line \in Lines /\ line.time = p.time /\ Unwrapped(line) \in Nat
    BY <1>1, <1>2, LineIsComputed
  <2>2. media' = line
    BY DEF InStepPacket
  <2>3. Unwrapped(media') = Unwrapped(line)
    BY <2>2 DEF Unwrapped
  <2> QED
    BY <1>1, <2>1, <2>2, <2>3
<1>5. CASE p.part = "whole" /\ synced' = Seq16(p) /\ UNCHANGED nalu /\ FeedData(<<p>>, media')
  <2>1. nalu = <<>>
    BY <1>3, <1>5
  <2> DEFINE ps == <<p>>
  <2>2. ps \in Seq(Packets) /\ FeedData(ps, media')
    BY <1>1, <1>5
  <2> HIDE DEF ps
  <2>3. out' # out => out'.packets = ps
    BY <1>2, <1>4, <2>2, UnitIsTyped
  <2> QED
    BY <1>5, <2>1, <2>3 DEF ps
<1>6. CASE /\ p.part # "whole" /\ nalu = <<>>
           /\ IF p.part = "start" THEN nalu' = <<p>> /\ synced' = Seq16(p)
              ELSE nalu' = nalu /\ synced' = 0
           /\ UNCHANGED <<rtcp, out>>
  BY <1>6
<1>7. CASE /\ p.part # "whole" /\ nalu # <<>> /\ synced' = Seq16(p)
           /\ IF p.part = "end" THEN nalu' = <<>> /\ FeedData(nalu \o <<p>>, media')
              ELSE nalu' = nalu \o <<p>> /\ UNCHANGED <<rtcp, out>>
  <2> DEFINE ps == nalu \o <<p>>
  <2>1. ps \in Seq(Packets)
    BY <1>1, <1>2
  <2>2. p.part = "end" => FeedData(ps, media')
    BY <1>7
  <2>3. p.part \in {"middle", "end"}
    BY <1>3, <1>7
  <2> HIDE DEF ps
  <2>4. p.part = "end" => (out' # out => out'.packets = ps)
    BY <1>2, <1>4, <2>1, <2>2, UnitIsTyped
  <2> QED
    BY <1>7, <2>3, <2>4 DEF ps
<1> QED
  BY <1>5, <1>6, <1>7 DEF InStepPacket

\* The kept packets and one more.
LEMMA KeptWithOne ==
  ASSUME RtpTypes, NaluHolds, NEW p \in Packets, nalu # <<>>, "zero" \notin trouble,
         p.num = nalu[Len(nalu)].num + 1, p.nal = nalu[1].nal
  PROVE  LET ps == nalu \o <<p>> IN
         /\ ps \in Seq(Packets) /\ Len(ps) = Len(nalu) + 1 /\ Len(nalu) \in Nat \ {0}
         /\ ps[1] = nalu[1] /\ ps[Len(ps)] = p /\ ps[1].part = "start"
         /\ \A i \in 1 .. Len(nalu) : ~ps[i].m /\ ps[i].nal = ps[1].nal
         /\ \A i \in 1 .. Len(ps) : ps[i].num = ps[1].num + i - 1
         /\ ps[1].num \in Nat /\ ps[1].num <= p.num
<1> DEFINE ps == nalu \o <<p>>
           n == Len(nalu)
<1>1. nalu \in Seq(Packets) /\ n \in Nat \ {0} /\ DOMAIN nalu = 1 .. n
  BY DEF RtpTypes
<1>2. /\ ps \in Seq(Packets) /\ Len(ps) = n + 1 /\ ps[n + 1] = p
      /\ \A i \in 1 .. n : ps[i] = nalu[i]
  BY <1>1
<1>3. /\ nalu[1].part = "start"
      /\ \A i \in 1 .. n : ~nalu[i].m /\ nalu[i].nal = nalu[1].nal
      /\ \A i \in 1 .. n : nalu[i].num = nalu[1].num + i - 1
  BY DEF NaluHolds
<1>4. 1 \in 1 .. n /\ n \in 1 .. n
  BY <1>1
<1>5. nalu[1].num \in Nat
  <2>1. nalu[1] \in Packets
    BY <1>1, <1>4
  <2> QED
    BY <2>1 DEF Packets
<1>6. p.num = nalu[1].num + n
  <2>1. nalu[n].num = nalu[1].num + n - 1 /\ p.num = nalu[n].num + 1
    BY <1>3, <1>4
  <2> HIDE DEF n
  <2> QED
    BY <1>1, <1>5, <2>1
<1>7. ps[1] = nalu[1] /\ ps[Len(ps)] = p
  <2> HIDE DEF ps, n
  <2> QED
    BY <1>2, <1>4
<1>8. ASSUME NEW i \in 1 .. Len(ps)
      PROVE  ps[i].num = ps[1].num + i - 1
  <2>1. CASE i \in 1 .. n
    BY <1>2, <1>3, <1>7, <2>1
  <2>2. CASE i = n + 1
    <3>1. ps[i] = p
      BY <1>2, <2>2
    <3>2. ps[1].num + i - 1 = nalu[1].num + n
      <4> HIDE DEF ps, n
      <4> QED
        BY <1>1, <1>5, <1>7, <2>2
    <3> QED
      BY <1>6, <3>1, <3>2
  <2> HIDE DEF ps, n
  <2> QED
    BY <1>1, <1>2, <2>1, <2>2
<1>9. \A i \in 1 .. n : ~ps[i].m /\ ps[i].nal = ps[1].nal
  BY <1>2, <1>3, <1>7
<1>10. ps[1].num \in Nat /\ ps[1].num <= p.num
  <2> HIDE DEF ps, n
  <2> QED
    BY <1>1, <1>5, <1>6, <1>7
<1> HIDE DEF ps, n
<1> QED
  BY <1>1, <1>2, <1>3, <1>7, <1>8, <1>9, <1>10 DEF ps, n

LEMMA NaluKept ==
  ASSUME RtpTypes, PacketsFit, WireHolds, NaluHolds, NEW p, Accepted(p)
  PROVE  NaluHolds'
<1> SUFFICES ASSUME "zero" \notin trouble', nalu' # <<>>
             PROVE  LET n == Len(nalu') IN
                    /\ nalu'[1].part = "start"
                    /\ \A i \in 1 .. n : ~nalu'[i].m /\ nalu'[i].nal = nalu'[1].nal
                    /\ \A i \in 1 .. n : nalu'[i].num = nalu'[1].num + i - 1
                    /\ synced' # 0 /\ synced' = nalu'[n].num % SeqRange
                    /\ filter'.newest - Quarter <= nalu'[n].num
                    /\ nalu'[n].num <= filter'.newest
  BY DEF NaluHolds, Quarter
<1>1. /\ p \in Known /\ p \in Packets /\ p.num \in Nat /\ WellFormed(p)
      /\ p.num <= filter'.newest /\ filter'.newest - Quarter <= p.num
      /\ "zero" \notin trouble /\ Seq16(p) # 0
  BY AcceptedFacts DEF PacketsFit
<1>2. CASE OutOfStep(p)
  BY <1>2 DEF OutOfStep, Lost
<1>3. CASE Resync(p)
  <2>1. nalu' = nalu /\ synced = 0
    BY <1>3 DEF Resync, Skip
  <2> QED
    BY <1>1, <2>1 DEF NaluHolds
<1>4. CASE InStepPacket(p)
  <2>1. CASE nalu' = <<p>> /\ synced' = Seq16(p) /\ p.part = "start"
    <3>1. Len(nalu') = 1 /\ nalu'[1] = p
      BY <2>1
    <3>2. ~p.m
      BY <1>1, <2>1 DEF WellFormed
    <3>3. p.num = p.num + 1 - 1
      BY <1>1
    <3>4. synced' # 0 /\ synced' = p.num % SeqRange
      BY <1>1, <2>1 DEF Seq16
    <3> QED
      BY <1>1, <2>1, <3>1, <3>2, <3>3, <3>4
  <2>2. CASE nalu # <<>> /\ nalu' = nalu \o <<p>> /\ synced' = Seq16(p) /\ p.part = "middle"
    <3> DEFINE ps == nalu \o <<p>>
    <3>1. p.num = nalu[Len(nalu)].num + 1 /\ p.nal = nalu[1].nal
      BY <1>1, <1>4, <2>2, UnitGoesOn
    <3>2. /\ Len(ps) = Len(nalu) + 1 /\ Len(nalu) \in Nat \ {0}
          /\ ps[1] = nalu[1] /\ ps[Len(ps)] = p /\ ps[1].part = "start"
          /\ \A i \in 1 .. Len(nalu) : ~ps[i].m /\ ps[i].nal = ps[1].nal
          /\ \A i \in 1 .. Len(ps) : ps[i].num = ps[1].num + i - 1
      BY <1>1, <2>2, <3>1, KeptWithOne
    <3>3. ~p.m
      BY <1>1, <2>2 DEF WellFormed
    <3>4. synced' # 0 /\ synced' = p.num % SeqRange
      BY <1>1, <2>2 DEF Seq16
    <3>5. nalu' = ps
      BY <2>2
    <3> HIDE DEF ps
    <3>6. ASSUME NEW i \in 1 .. Len(ps)
          PROVE  ~ps[i].m /\ ps[i].nal = ps[1].nal
      <4>1. CASE i \in 1 .. Len(nalu)
        BY <3>2, <4>1
      <4>2. CASE i = Len(ps)
        BY <3>1, <3>2, <3>3, <4>2
      <4> QED
        BY <3>2, <4>1, <4>2
    <3> QED
      BY <1>1, <3>2, <3>4, <3>5, <3>6
  <2>3. nalu' = <<>> \/ (nalu' = <<p>> /\ synced' = Seq16(p) /\ p.part = "start")
        \/ (nalu # <<>> /\ nalu' = nalu \o <<p>> /\ synced' = Seq16(p) /\ p.part = "middle")
    BY <1>1, <1>4, InStepKeeps
  <2> QED
    BY <2>1, <2>2, <2>3
<1> QED
  BY <1>2, <1>3, <1>4 DEF Accepted, FeedVideoData

\* While nothing came late, a packet in step is newer than the unit fed last.
LEMMA OrderKept ==
  ASSUME RtpTypes, PacketsFit, WireHolds, NaluHolds, OrderHolds, FilterHolds,
         NEW p, Accepted(p)
  PROVE  OrderHolds'
<1> SUFFICES ASSUME {"zero", "late"} \cap trouble' = {}
             PROVE  /\ synced' # 0 => filter'.newest # -1 /\ synced' = filter'.newest % SeqRange
                    /\ out'.packets # <<>> => NumberOf(out') <= filter'.newest
                    /\ nalu' # <<>> => nalu'[1].num > NumberOf(out')
  BY DEF OrderHolds, NumberOf
<1>1. /\ p \in Known /\ p \in Packets /\ p.num \in Nat /\ p.num # 0
      /\ "zero" \notin trouble /\ "late" \notin trouble
      /\ "late" \notin trouble' /\ "zero" \notin trouble'
  BY AcceptedFacts
<1>2. (filter.newest = -1 \/ p.num >= filter.newest) /\ filter'.newest = p.num
  BY <1>1, AcceptedIsNewest
<1>3. /\ synced # 0 => filter.newest # -1 /\ synced = filter.newest % SeqRange
      /\ out.packets # <<>> => NumberOf(out) <= filter.newest
      /\ nalu # <<>> => nalu[1].num > NumberOf(out)
  BY <1>1 DEF OrderHolds
<1>4. filter.newest \in NatOrNone /\ out \in Outs
  BY DEF RtpTypes
<1>5. out.packets # <<>> => NumberOf(out) \in Nat /\ NumberOf(out) <= p.num
  <2> SUFFICES ASSUME out.packets # <<>>  PROVE NumberOf(out) \in Nat /\ NumberOf(out) <= p.num
    OBVIOUS
  <2>1. out.packets \in Seq(Packets)
    BY <1>4 DEF Outs
  <2>2. out.packets[1] \in Packets
    BY <2>1
  <2>3. NumberOf(out) = out.packets[1].num /\ NumberOf(out) \in Nat
    BY <2>2 DEF NumberOf, Packets
  <2>4. filter.newest # -1
    BY <1>3, <1>4, <2>3 DEF NatOrNone
  <2>5. NumberOf(out) <= filter.newest /\ filter.newest \in Nat /\ filter.newest <= p.num
    BY <1>2, <1>3, <1>4, <2>4 DEF NatOrNone
  <2> HIDE DEF NumberOf
  <2> QED
    BY <1>1, <2>3, <2>5
<1>6. synced' = Seq16(p) => synced' = filter'.newest % SeqRange /\ filter'.newest # -1
  BY <1>1, <1>2 DEF Seq16
<1>7. CASE out' = out /\ synced' = 0 /\ nalu' = <<>>
  BY <1>2, <1>5, <1>7 DEF NumberOf
<1>8. CASE OutOfStep(p)
  <2>1. out' = out /\ synced' = 0 /\ nalu' = <<>>
    BY <1>8 DEF OutOfStep, Lost
  <2> QED
    BY <1>7, <2>1
<1>9. CASE Resync(p)
  <2>1. nalu' = nalu /\ synced = 0 /\ out' = out /\ synced' \in {0, Seq16(p)}
    BY <1>9 DEF Resync, Skip
  <2>2. nalu = <<>>
    BY <1>1, <2>1 DEF NaluHolds
  <2> QED
    BY <1>2, <1>5, <1>6, <2>1, <2>2 DEF NumberOf
<1>10. CASE InStepPacket(p)
  <2>1. synced # 0 /\ p.num % SeqRange = (synced + 1) % SeqRange
    BY <1>10 DEF InStepPacket, Seq16
  <2>2. p.num > NumberOf(out)
    <3>1. CASE out.packets = <<>>
      BY <1>1, <3>1 DEF NumberOf
    <3>2. CASE out.packets # <<>>
      <4>1. filter.newest # -1 /\ synced = filter.newest % SeqRange
        BY <1>3, <2>1
      <4>2. filter.newest \in Nat
        BY <1>4, <4>1 DEF NatOrNone
      <4>3. p.num # filter.newest
        <5> DEFINE a == filter.newest
                   b == p.num
        <5>1. a \in Nat /\ b \in Nat /\ b % SeqRange = ((a % SeqRange) + 1) % SeqRange
          BY <1>1, <2>1, <4>1, <4>2
        <5> HIDE DEF a, b
        <5>2. b # a
          BY <5>1, NextIsOther, RtpAssumption
        <5> QED
          BY <5>2 DEF a, b
      <4>4. NumberOf(out) \in Nat /\ NumberOf(out) <= filter.newest
        BY <1>3, <1>5, <3>2
      <4> HIDE DEF NumberOf
      <4> QED
        BY <1>1, <1>2, <4>1, <4>2, <4>3, <4>4
    <3> QED
      BY <3>1, <3>2
  <2>3. CASE /\ nalu = <<>> /\ nalu' = <<>> /\ synced' = Seq16(p)
             /\ out' # out => out'.packets = <<p>>
    <3>1. CASE out' = out
      BY <1>2, <1>5, <1>6, <2>3, <3>1 DEF NumberOf
    <3>2. CASE out' # out
      <4>1. NumberOf(out') = p.num
        BY <2>3, <3>2 DEF NumberOf
      <4> QED
        BY <1>1, <1>2, <1>6, <2>3, <4>1
    <3> QED
      BY <3>1, <3>2
  <2>4. CASE nalu = <<>> /\ nalu' = <<p>> /\ synced' = Seq16(p) /\ p.part = "start" /\ out' = out
    <3>1. nalu'[1].num > NumberOf(out')
      BY <2>2, <2>4 DEF NumberOf
    <3> QED
      BY <1>2, <1>5, <1>6, <2>4, <3>1 DEF NumberOf
  <2>5. CASE nalu = <<>> /\ nalu' = <<>> /\ synced' = 0 /\ out' = out
    BY <1>7, <2>5
  <2>6. CASE nalu # <<>> /\ p.part \in {"middle", "end"}
    <3> DEFINE ps == nalu \o <<p>>
    <3>1. p.num = nalu[Len(nalu)].num + 1 /\ p.nal = nalu[1].nal
      BY <1>1, <1>10, <2>6, UnitGoesOn
    <3>2. /\ ps \in Seq(Packets) /\ Len(ps) = Len(nalu) + 1 /\ Len(nalu) \in Nat \ {0}
          /\ ps[1] = nalu[1] /\ ps[1].num \in Nat /\ ps[1].num <= p.num
      BY <1>1, <2>6, <3>1, KeptWithOne
    <3> HIDE DEF ps
    <3>3. ps # <<>> /\ nalu[1].num > NumberOf(out)
      BY <1>3, <2>6, <3>2
    <3>4. CASE nalu' = <<>> /\ synced' = Seq16(p) /\ out' # out /\ out'.packets = ps
      <4>1. NumberOf(out') = ps[1].num
        BY <3>3, <3>4 DEF NumberOf
      <4> QED
        BY <1>2, <1>6, <3>2, <3>4, <4>1
    <3>5. CASE nalu' = <<>> /\ synced' = Seq16(p) /\ out' = out
      BY <1>2, <1>5, <1>6, <3>5 DEF NumberOf
    <3>6. CASE nalu' = ps /\ synced' = Seq16(p) /\ out' = out
      <4>1. nalu'[1].num > NumberOf(out')
        BY <3>2, <3>3, <3>6 DEF NumberOf
      <4> QED
        BY <1>2, <1>5, <1>6, <3>6, <4>1 DEF NumberOf
    <3>7. \/ nalu' = <<>> /\ synced' = Seq16(p) /\ out' # out /\ out'.packets = ps
          \/ nalu' = <<>> /\ synced' = Seq16(p) /\ out' = out
          \/ nalu' = ps /\ synced' = Seq16(p) /\ out' = out
      BY <1>1, <1>10, <2>6, InStepKeeps DEF ps
    <3> QED
      BY <3>4, <3>5, <3>6, <3>7
  <2>7. \/ /\ nalu = <<>> /\ nalu' = <<>> /\ synced' = Seq16(p)
           /\ out' # out => out'.packets = <<p>>
        \/ nalu = <<>> /\ nalu' = <<p>> /\ synced' = Seq16(p) /\ p.part = "start" /\ out' = out
        \/ nalu = <<>> /\ nalu' = <<>> /\ synced' = 0 /\ out' = out
        \/ nalu # <<>> /\ p.part \in {"middle", "end"}
    BY <1>1, <1>10, InStepKeeps
  <2> QED
    BY <2>3, <2>4, <2>5, <2>6, <2>7
<1> QED
  BY <1>8, <1>9, <1>10 DEF Accepted, FeedVideoData

\* What a step that feeds a unit may feed.
Intact ==
  \/ {"zero", "tail"} \cap trouble' # {}
  \/ LET ps == out'.packets
     IN  /\ ps[1].part \in {"whole", "start"} /\ ps[1].nal[1] # -1
         /\ ps[Len(ps)].m
         /\ \A i \in 1 .. Len(ps) - 1 :
              ~ps[i].m /\ ps[i + 1].nal = ps[1].nal
              /\ ps[i + 1].num = ps[i].num + 1
         /\ ps[1].num > NumberOf(out) \/ "late" \in trouble'

LEMMA FedIsIntact ==
  ASSUME RtpTypes, PacketsFit, WireHolds, NaluHolds, OrderHolds, FilterHolds,
         NEW p, Accepted(p), out' # out
  PROVE  Intact
<1> SUFFICES ASSUME "zero" \notin trouble', "tail" \notin trouble'
             PROVE  LET ps == out'.packets
                    IN  /\ ps[1].part \in {"whole", "start"} /\ ps[1].nal[1] # -1
                        /\ ps[Len(ps)].m
                        /\ \A i \in 1 .. Len(ps) - 1 :
                             ~ps[i].m /\ ps[i + 1].nal = ps[1].nal
                             /\ ps[i + 1].num = ps[i].num + 1
                        /\ ps[1].num > NumberOf(out) \/ "late" \in trouble'
  BY DEF Intact
<1>1. /\ p \in Known /\ p \in Packets /\ p.num \in Nat /\ p.num # 0
      /\ "zero" \notin trouble /\ "tail" \notin trouble
      /\ "late" \in trouble => "late" \in trouble'
  BY AcceptedFacts
<1>2. WellFormed(p) /\ p.nal[1] # -1
  BY <1>1 DEF PacketsFit
<1>3. InStepPacket(p)
  <2>1. ~OutOfStep(p) /\ ~Resync(p)
    BY DEF OutOfStep, Lost, Resync, Skip
  <2> QED
    BY <2>1 DEF Accepted, FeedVideoData
<1>4. synced # 0 /\ p.num % SeqRange = (synced + 1) % SeqRange
  BY <1>3 DEF InStepPacket, Seq16
<1>5. "late" \notin trouble' => p.num > NumberOf(out)
  <2> SUFFICES ASSUME "late" \notin trouble'  PROVE p.num > NumberOf(out)
    OBVIOUS
  <2>1. (filter.newest = -1 \/ p.num >= filter.newest)
    BY <1>1, AcceptedIsNewest
  <2>2. filter.newest # -1 /\ synced = filter.newest % SeqRange
        /\ (out.packets # <<>> => NumberOf(out) <= filter.newest)
    BY <1>1, <1>4 DEF OrderHolds
  <2>3. filter.newest \in Nat
    BY <2>2 DEF RtpTypes, NatOrNone
  <2>4. p.num # filter.newest
    <3> DEFINE a == filter.newest
               b == p.num
    <3>1. a \in Nat /\ b \in Nat /\ b % SeqRange = ((a % SeqRange) + 1) % SeqRange
      BY <1>1, <1>4, <2>2, <2>3
    <3> HIDE DEF a, b
    <3>2. b # a
      BY <3>1, NextIsOther, RtpAssumption
    <3> QED
      BY <3>2 DEF a, b
  <2>5. CASE out.packets = <<>>
    BY <1>1, <2>5 DEF NumberOf
  <2>6. CASE out.packets # <<>>
    <3>1. out.packets \in Seq(Packets)
      BY DEF RtpTypes, Outs
    <3>2. out.packets[1] \in Packets
      BY <2>6, <3>1
    <3>3. NumberOf(out) \in Nat
      BY <2>6, <3>2 DEF NumberOf, Packets
    <3> HIDE DEF NumberOf
    <3> QED
      BY <1>1, <2>1, <2>2, <2>3, <2>4, <2>6, <3>3
  <2> QED
    BY <2>5, <2>6
<1>6. CASE p.part = "whole" /\ out'.packets = <<p>>
  <2> DEFINE ps == <<p>>
  <2>1. Len(ps) = 1 /\ ps[1] = p /\ p.m
    BY <1>2, <1>6 DEF WellFormed
  <2>2. 1 .. Len(ps) - 1 = {}
    BY <2>1
  <2> HIDE DEF ps
  <2> QED
    BY <1>2, <1>5, <1>6, <2>1, <2>2 DEF ps
<1>7. CASE nalu # <<>> /\ p.part = "end" /\ out'.packets = nalu \o <<p>>
  <2> DEFINE ps == nalu \o <<p>>
             n == Len(nalu)
  <2>1. p.num = nalu[n].num + 1 /\ p.nal = nalu[1].nal
    BY <1>1, <1>3, <1>7, UnitGoesOn
  <2>2. /\ Len(ps) = n + 1 /\ n \in Nat \ {0}
        /\ ps[1] = nalu[1] /\ ps[Len(ps)] = p /\ ps[1].part = "start"
        /\ \A i \in 1 .. n : ~ps[i].m /\ ps[i].nal = ps[1].nal
        /\ \A i \in 1 .. Len(ps) : ps[i].num = ps[1].num + i - 1
        /\ ps[1].num \in Nat
    BY <1>1, <1>7, <2>1, KeptWithOne
  <2>3. p.m
    BY <1>2, <1>7 DEF WellFormed
  <2>4. p.nal = ps[1].nal
    BY <2>1, <2>2
  <2>5. out'.packets = ps
    BY <1>7
  <2>6. "late" \notin trouble' => ps[1].num > NumberOf(out)
    <3> SUFFICES ASSUME "late" \notin trouble'  PROVE ps[1].num > NumberOf(out)
      OBVIOUS
    <3>1. nalu[1].num > NumberOf(out)
      BY <1>1, <1>7 DEF OrderHolds
    <3> HIDE DEF ps
    <3> QED
      BY <2>2, <3>1
  <2> HIDE DEF ps, n
  <2>7. ASSUME NEW i \in 1 .. Len(ps) - 1
        PROVE  ~ps[i].m /\ ps[i + 1].nal = ps[1].nal /\ ps[i + 1].num = ps[i].num + 1
    <3>1. i \in 1 .. n /\ i + 1 \in 1 .. Len(ps) /\ i \in 1 .. Len(ps) /\ i \in Nat
      BY <2>2
    <3>2. ps[i + 1].nal = ps[1].nal
      <4>1. CASE i + 1 \in 1 .. n
        BY <2>2, <4>1
      <4>2. CASE i + 1 = Len(ps)
        BY <2>2, <2>4, <4>2
      <4> QED
        BY <2>2, <3>1, <4>1, <4>2
    <3>3. ps[i + 1].num = ps[1].num + (i + 1) - 1 /\ ps[i].num = ps[1].num + i - 1
      BY <2>2, <3>1
    <3>4. ps[i + 1].num = ps[i].num + 1
      BY <2>2, <3>1, <3>3
    <3> QED
      BY <2>2, <3>1, <3>2, <3>4
  <2>8. ps[1].nal[1] # -1
    BY <1>2, <2>4
  <2> QED
    BY <2>2, <2>3, <2>5, <2>6, <2>7, <2>8
<1>8. \/ p.part = "whole" /\ out'.packets = <<p>>
      \/ nalu # <<>> /\ p.part = "end" /\ out'.packets = nalu \o <<p>>
  BY <1>1, <1>3, InStepKeeps
<1> QED
  BY <1>6, <1>7, <1>8

-----------------------------------------------------------------------------
(* Receiving: the stamps. *)

\* The media line goes on: its epoch stays.
MediaGoesOn ==
  /\ media' \in Lines /\ LineHolds(media') /\ media'.time \in Nat
  /\ media.epoch # -1 => media'.epoch = media.epoch

LEMMA LineOnly ==
  ASSUME RtpTypes, StampFacts, MediaGoesOn, UNCHANGED <<rtcp, out>>
  PROVE  StampFacts'
<1>1. media.time # -1 => media.epoch # -1
  BY DEF StampFacts, LineHolds
<1>2. media'.time # -1
  BY DEF MediaGoesOn
<1>3. rtcp.first # -1 => rtcp.first = rtcp.firstTime - TsRange * media'.epoch
  BY <1>1 DEF StampFacts, MediaGoesOn
<1>4. out.packets # <<>> =>
        \/ rtcp.presence = "absent" /\ rtcp.first # -1 /\ out.stamp = out.time - rtcp.firstTime
        \/ rtcp.presence = "available" /\ (out.stamp = out.time \/ rtcp.line.epoch # media'.epoch)
  BY <1>1 DEF StampFacts, MediaGoesOn
<1>5. LineHolds(media)' /\ LineHolds(rtcp.line)'
  <2>1. LineHolds(media') /\ LineHolds(rtcp.line)
    BY DEF StampFacts, MediaGoesOn
  <2> QED
    BY <2>1 DEF LineHolds, Epoch
<1>6. Unwrapped(rtcp.line)' = Unwrapped(rtcp.line)
  BY DEF Unwrapped
<1> QED
  BY <1>2, <1>3, <1>4, <1>5, <1>6 DEF StampFacts

LEMMA UnitIsStamped ==
  ASSUME RtpTypes, StampFacts, MediaGoesOn, Unwrapped(media') \in Nat,
         NEW packets, FeedData(packets, media')
  PROVE  StampFacts'
<1> DEFINE time == media'.time
           raw == Unwrapped(media')
           fresh == rtcp.presence = "absent" /\ rtcp.first = -1
           first == IF fresh THEN raw ELSE rtcp.first
           stamp == IF rtcp.presence = "available" THEN rtcp.time + raw - rtcp.rtp
                    ELSE raw - first
<1>1. rtcp \in Clocks /\ media \in Lines /\ out \in Outs
  BY DEF RtpTypes
<1>2. media.time # -1 => media.epoch # -1
  BY DEF StampFacts, LineHolds
<1>3. media' \in Lines /\ time \in Nat /\ time # -1
  BY DEF MediaGoesOn
<1>4. raw = time - TsRange * media'.epoch /\ media'.epoch \in Nat
  <2>1. media'.time # -1
    BY <1>3
  <2> QED
    BY <1>3, <2>1, LineUnwraps DEF MediaGoesOn
<1>5. LineHolds(media)'
  BY DEF MediaGoesOn, LineHolds, Epoch
<1>6. UNCHANGED rtcp.line /\ UNCHANGED rtcp.time /\ UNCHANGED rtcp.rtp
  BY <1>1 DEF FeedData, Clocks
<1>7. LineHolds(rtcp.line)' /\ rtcp'.time = rtcp'.line.time
      /\ (rtcp'.time # -1 => rtcp'.rtp = Unwrapped(rtcp.line)')
  <2>1. Unwrapped(rtcp.line)' = Unwrapped(rtcp.line)
    BY <1>6 DEF Unwrapped
  <2> QED
    BY <1>6, <2>1 DEF StampFacts, LineHolds, Epoch
<1>8. SUFFICES
        /\ rtcp'.presence \in {"unknown", "available"} => rtcp'.first = -1
        /\ rtcp'.presence = "available" => rtcp'.time # -1
        /\ rtcp'.first # -1 => rtcp'.first = rtcp'.firstTime - TsRange * media'.epoch
        /\ out'.packets # <<>> =>
             \/ rtcp'.presence = "absent" /\ rtcp'.first # -1 /\ out'.stamp = out'.time - rtcp'.firstTime
             \/ /\ rtcp'.presence = "available"
                /\ out'.stamp = out'.time \/ rtcp'.line.epoch # media'.epoch
  BY <1>3, <1>5, <1>7 DEF StampFacts
<1>9. CASE rtcp.presence = "unknown"
  <2>1. out' = out /\ out.packets = <<>> /\ rtcp.first = -1
    BY <1>9 DEF FeedData, StampFacts
  <2>2. \/ rtcp' = [rtcp EXCEPT !.presence = "absent"]
        \/ rtcp' = [rtcp EXCEPT !.started = TRUE]
        \/ rtcp' = [rtcp EXCEPT !.presence = "available"] /\ rtcp.time # -1
        \/ rtcp' = [rtcp EXCEPT !.presence = rtcp.presence]
    BY <1>9 DEF FeedData
  <2>3. rtcp'.first = -1 /\ (rtcp'.presence = "available" => rtcp'.time # -1)
    BY <1>1, <1>9, <2>1, <2>2 DEF Clocks
  <2> QED
    BY <2>1, <2>3
<1>10. CASE rtcp.presence # "unknown"
  <2>1. /\ rtcp' = IF fresh THEN [rtcp EXCEPT !.first = raw, !.firstTime = time] ELSE rtcp
        /\ out' = IF stamp < out.stamp \/ stamp = 0 THEN out
                  ELSE [packets |-> packets, stamp |-> stamp, time |-> time]
    BY <1>10 DEF FeedData
  <2> DEFINE shift == TsRange * media'.epoch
  <2>2. shift \in Int
    BY <1>4, HalfIs
  <2>3. CASE fresh
    <3>1. rtcp.presence = "absent" /\ rtcp.first = -1
      BY <2>3
    <3>2. stamp = 0
      <4>1. stamp = raw - raw
        BY <2>3
      <4>2. raw \in Nat
        OBVIOUS
      <4> HIDE DEF stamp, raw
      <4> QED
        BY <4>1, <4>2
    <3>3. out' = out /\ rtcp' = [rtcp EXCEPT !.first = raw, !.firstTime = time]
      BY <2>1, <2>3, <3>2
    <3>4. rtcp'.presence = "absent" /\ rtcp'.first = raw /\ rtcp'.firstTime = time
      <4> HIDE DEF raw, time
      <4> QED
        BY <1>1, <3>1, <3>3 DEF Clocks
    <3>5. out.packets = <<>>
      BY <3>1 DEF StampFacts
    <3> QED
      BY <1>4, <3>3, <3>4, <3>5
  <2>4. CASE ~fresh /\ rtcp.presence = "absent"
    <3>1. rtcp.first # -1 /\ rtcp' = rtcp
      BY <2>1, <2>4
    <3>2. media.time # -1 /\ media.epoch # -1 /\ media'.epoch = media.epoch
          /\ rtcp.first = rtcp.firstTime - shift
      BY <1>2, <3>1 DEF StampFacts, MediaGoesOn
    <3>3. stamp = raw - rtcp.first
      BY <2>4
    <3>4. rtcp.firstTime \in Int
      BY <1>1 DEF Clocks, NatOrNone
    <3>5. stamp = time - rtcp.firstTime
      <4>1. raw = time - shift
        BY <1>4
      <4> HIDE DEF stamp, raw, shift, time
      <4> QED
        BY <1>3, <2>2, <3>2, <3>3, <3>4, <4>1
    <3>6. CASE out' = out
      BY <2>4, <3>1, <3>2, <3>6 DEF StampFacts
    <3>7. CASE out' = [packets |-> packets, stamp |-> stamp, time |-> time]
      <4>1. out'.stamp = out'.time - rtcp.firstTime
        <5> HIDE DEF stamp, time
        <5> QED
          BY <3>5, <3>7
      <4> QED
        BY <2>4, <3>1, <3>2, <4>1
    <3> QED
      BY <2>1, <3>6, <3>7
  <2>5. CASE rtcp.presence = "available"
    <3>1. rtcp' = rtcp /\ rtcp.first = -1 /\ rtcp.time # -1
      BY <2>1, <2>5 DEF StampFacts
    <3>2. stamp = rtcp.time + raw - rtcp.rtp
      BY <2>5
    <3> DEFINE sender == TsRange * rtcp.line.epoch
    <3>3. rtcp.line \in Lines /\ LineHolds(rtcp.line) /\ rtcp.line.time = rtcp.time
          /\ rtcp.rtp = Unwrapped(rtcp.line)
      BY <1>1, <3>1 DEF StampFacts, Clocks
    <3>4. rtcp.rtp = rtcp.time - sender /\ rtcp.time \in Nat /\ rtcp.line.epoch \in Nat
      BY <3>1, <3>3, LineUnwraps
    <3>5. sender \in Int
      BY <3>4, HalfIs
    <3>6. rtcp.line.epoch = media'.epoch => stamp = time
      <4> SUFFICES ASSUME rtcp.line.epoch = media'.epoch  PROVE stamp = time
        OBVIOUS
      <4>1. raw = time - shift /\ sender = shift
        BY <1>4
      <4> HIDE DEF stamp, raw, shift, time, sender
      <4> QED
        BY <1>3, <2>2, <3>2, <3>4, <4>1
    <3>7. CASE out' = out
      <4>1. out.packets # <<>> => out.stamp = out.time \/ rtcp.line.epoch # media'.epoch
        BY <1>2, <2>5 DEF StampFacts, MediaGoesOn
      <4> QED
        BY <2>5, <3>1, <3>7, <4>1
    <3>8. CASE out' = [packets |-> packets, stamp |-> stamp, time |-> time]
      <4>1. out'.stamp = stamp /\ out'.time = time
        BY <3>8
      <4> QED
        BY <2>5, <3>1, <3>6, <4>1
    <3> QED
      BY <2>1, <3>7, <3>8
  <2> QED
    BY <1>1, <1>10, <2>3, <2>4, <2>5 DEF Clocks
<1> QED
  BY <1>9, <1>10

LEMMA StampsKept ==
  ASSUME RtpTypes, StampsHold, NEW p, Accepted(p)
  PROVE  StampsHold'
<1> SUFFICES ASSUME "back" \notin trouble'  PROVE StampFacts'
  BY DEF StampsHold
<1>1. p \in Known /\ p.time \in Nat /\ "back" \notin trouble
  BY AcceptedFacts, KnownIsTyped
<1>2. StampFacts /\ media \in Lines
  BY <1>1 DEF StampsHold, RtpTypes
<1>3. CASE UNCHANGED <<media, rtcp, out>>
  BY <1>2, <1>3 DEF StampFacts, LineHolds, Epoch, Unwrapped
<1>4. CASE InStepPacket(p) /\ media' # media
  <2>1. media' = ComputeRTP(media, p.time)
    BY <1>4 DEF InStepPacket
  <2>2. NearInTime(media, p.time) /\ ~GoesBack(media, p.time)
    BY <1>4 DEF Accepted
  <2> DEFINE line == ComputeRTP(media, p.time)
  <2>3. /\ line \in Lines /\ line.time = p.time /\ Unwrapped(line) \in Nat
        /\ media.epoch # -1 => line.epoch = media.epoch
    BY <1>1, <1>2, LineIsComputed
  <2>4. LineHolds(line)
    BY <1>1, <1>2, <2>2, LineGoesOn DEF StampFacts
  <2> HIDE DEF line
  <2>5. media' = line
    BY <2>1 DEF line
  <2>6. MediaGoesOn /\ Unwrapped(media') \in Nat
    BY <1>1, <2>3, <2>4, <2>5 DEF MediaGoesOn, LineHolds, Unwrapped
  <2>7. UNCHANGED <<rtcp, out>> \/ \E packets : FeedData(packets, media')
    BY <1>4 DEF InStepPacket
  <2> QED
    BY <1>2, <2>6, <2>7, LineOnly, UnitIsStamped
<1>5. CASE InStepPacket(p) /\ media' = media
  <2>1. media.time \in Nat
    <3>1. media' = ComputeRTP(media, p.time)
      BY <1>5 DEF InStepPacket
    <3>2. ComputeRTP(media, p.time).time = p.time
      BY <1>1, <1>2, LineIsComputed
    <3> QED
      BY <1>1, <1>5, <3>1, <3>2
  <2>2. Unwrapped(media') \in Nat
    <3>1. media' = ComputeRTP(media, p.time)
      BY <1>5 DEF InStepPacket
    <3>2. Unwrapped(ComputeRTP(media, p.time)) \in Nat
      BY <1>1, <1>2, LineIsComputed
    <3> QED
      BY <3>1, <3>2 DEF Unwrapped
  <2>3. MediaGoesOn
    BY <1>2, <1>5, <2>1 DEF MediaGoesOn, StampFacts, LineHolds
  <2>4. UNCHANGED <<rtcp, out>> \/ \E packets : FeedData(packets, media')
    BY <1>5 DEF InStepPacket
  <2> QED
    BY <1>2, <2>2, <2>3, <2>4, LineOnly, UnitIsStamped
<1>6. UNCHANGED <<media, rtcp, out>> \/ InStepPacket(p)
  BY DEF Accepted, FeedVideoData, OutOfStep, Lost, Resync, Skip
<1> QED
  BY <1>3, <1>4, <1>5, <1>6

-----------------------------------------------------------------------------
(* Every step. *)

\* What is left on the wire when a packet has arrived from it.
LEMMA ArrivedWire ==
  ASSUME RtpTypes, PacketsFit, WireHolds, NEW i \in {1, 2}, NEW again \in BOOLEAN,
         again => i = 1, Arrives(i, again)
  PROVE  /\ wire[i] \in Known
         /\ wire' \in Seq(Packets)
         /\ {wire'[j] : j \in DOMAIN wire'} \subseteq {wire[j] : j \in DOMAIN wire}
         /\ \A j, k \in DOMAIN wire' : j < k => wire'[j].num < wire'[k].num
         /\ \A j \in DOMAIN wire' : wire[i].num - wire'[j].num <= Quarter
<1>1. /\ wire \in Seq(Packets) /\ i \in DOMAIN wire /\ DOMAIN wire = 1 .. Len(wire)
      /\ i \in 1 .. Len(wire) /\ Len(wire) \in Nat
  BY DEF RtpTypes, Arrives
<1>2. /\ wire' = IF again THEN wire ELSE RemoveAt(wire, i)
      /\ i = 2 => wire[2].num - wire[1].num <= Quarter
  BY DEF Arrives, Quarter
<1>3. wire[i] \in Known
  BY <1>1 DEF Known
<1>4. ASSUME NEW j \in DOMAIN wire
      PROVE  wire[j].num \in Nat
  BY KnownIsTyped DEF Known
<1>5. \A j, k \in DOMAIN wire : j < k => wire[j].num < wire[k].num
  BY DEF WireHolds
<1>6. ASSUME NEW j \in DOMAIN wire
      PROVE  wire[i].num - wire[j].num <= Quarter
  <2>1. CASE j < i
    <3>1. i = 2 /\ j = 1
      BY <1>1, <2>1
    <3> QED
      BY <1>2, <3>1
  <2>2. CASE j = i
    BY <1>4, <2>2, QuarterIs
  <2>3. CASE i < j
    <3> DEFINE a == wire[i].num
               b == wire[j].num
    <3>1. a < b /\ a \in Nat /\ b \in Nat
      BY <1>1, <1>4, <1>5, <2>3
    <3> HIDE DEF a, b
    <3>2. a - b <= Quarter
      BY <3>1, QuarterIs
    <3> QED
      BY <3>2 DEF a, b
  <2> QED
    BY <1>1, <2>1, <2>2, <2>3
<1>7. CASE again
  BY <1>1, <1>2, <1>3, <1>5, <1>6, <1>7
<1>8. CASE ~again
  <2> DEFINE q == RemoveAt(wire, i)
             Slot(j) == IF j < i THEN j ELSE j + 1
  <2>1. /\ q \in Seq(Packets) /\ Len(q) = Len(wire) - 1
        /\ \A j \in 1 .. i - 1 : q[j] = wire[j]
        /\ \A j \in i .. Len(wire) - 1 : q[j] = wire[j + 1]
    BY <1>1, Removed
  <2> HIDE DEF q
  <2>2. DOMAIN q = 1 .. Len(wire) - 1
    BY <1>1, <2>1
  <2>3. ASSUME NEW j \in DOMAIN q
        PROVE  Slot(j) \in DOMAIN wire /\ q[j] = wire[Slot(j)] /\ j \in Nat
    <3>1. CASE j < i
      BY <1>1, <2>1, <2>2, <3>1
    <3>2. CASE ~(j < i)
      <4>1. j \in i .. Len(wire) - 1
        BY <1>1, <2>2, <3>2
      <4> QED
        BY <1>1, <2>1, <2>2, <3>2, <4>1
    <3> QED
      BY <3>1, <3>2
  <2>4. ASSUME NEW j \in DOMAIN q, NEW k \in DOMAIN q, j < k
        PROVE  q[j].num < q[k].num
    <3>1. Slot(j) < Slot(k)
      BY <1>1, <2>3, <2>4
    <3> HIDE DEF Slot
    <3> QED
      BY <1>5, <2>3, <3>1
  <2> HIDE DEF Slot
  <2>5. {q[j] : j \in DOMAIN q} \subseteq {wire[j] : j \in DOMAIN wire}
    BY <2>3
  <2>6. \A j \in DOMAIN q : wire[i].num - q[j].num <= Quarter
    BY <1>6, <2>3
  <2>7. wire' = q
    BY <1>2, <1>8 DEF q
  <2> QED
    BY <1>3, <2>1, <2>4, <2>5, <2>6, <2>7
<1> QED
  BY <1>7, <1>8

\* Fewer packets are known after a step that sends none.
LEMMA FewerFit ==
  ASSUME PacketsFit, Known' \subseteq Known, UNCHANGED sent,
         "tail" \in trouble => "tail" \in trouble'
  PROVE  PacketsFit'
BY DEF PacketsFit

LEMMA ArrivalIsAccepted ==
  ASSUME RtpInv, NEW i \in {1, 2}, NEW again \in BOOLEAN,
         again => i = 1, Arrives(i, again)
  PROVE  Accepted(wire[i]) \/ UNCHANGED <<receiver, trouble>>
<1> DEFINE p == wire[i]
<1>1. RtpTypes /\ PacketsFit /\ WireHolds
  BY DEF RtpInv
<1>2. p \in Known
  BY <1>1, ArrivedWire
<1>3. NearNewest(p) /\ NearInTime(media, p.time) /\ SignalInputData(p) /\ i \in DOMAIN wire
  BY DEF Arrives
<1>4. filter.newest - p.num <= Quarter
  BY <1>1, <1>3 DEF WireHolds
<1> SUFFICES Accepted(p) \/ UNCHANGED <<receiver, trouble>>
  OBVIOUS
<1> HIDE DEF p
<1>5. CASE IsOld(p)
  BY <1>3, <1>5 DEF SignalInputData
<1>6. CASE ~IsOld(p)
  <2>1. /\ filter' = Counts(p) /\ FeedVideoData(p)
        /\ trouble' = trouble
             \cup {x \in {"late"} : p.num \div SeqRange < filter.newest \div SeqRange}
             \cup {x \in {"zero"} : Seq16(p) = 0 /\ nalu' # <<>>}
             \cup {x \in {"back"} : media' # media /\ GoesBack(media, p.time)}
    BY <1>3, <1>6, Zenon DEF SignalInputData
  <2>2. /\ p \in Known /\ filter.newest - p.num <= Quarter
        /\ NearNewest(p) /\ NearInTime(media, p.time) /\ ~IsOld(p)
    BY <1>2, <1>3, <1>4, <1>6
  <2>3. Accepted(p)
    BY <2>1, <2>2, Zenon DEF Accepted
  <2> QED
    BY <2>3
<1> QED
  BY <1>5, <1>6

LEMMA ArrivalKeeps ==
  ASSUME RtpInv, NEW i \in {1, 2}, NEW again \in BOOLEAN,
         again => i = 1, Arrives(i, again)
  PROVE  RtpInv' /\ (out' # out => Intact)
<1> DEFINE p == wire[i]
<1>1. RtpTypes /\ PacketsFit /\ WireHolds /\ NaluHolds /\ OrderHolds /\ FilterHolds /\ StampsHold
  BY DEF RtpInv
<1>2. /\ p \in Known /\ wire' \in Seq(Packets)
      /\ {wire'[j] : j \in DOMAIN wire'} \subseteq {wire[j] : j \in DOMAIN wire}
      /\ \A j, k \in DOMAIN wire' : j < k => wire'[j].num < wire'[k].num
      /\ \A j \in DOMAIN wire' : p.num - wire'[j].num <= Quarter
  BY <1>1, ArrivedWire
<1>3. UNCHANGED <<feed, held, sent, report>>
  BY DEF Arrives
<1> HIDE DEF p
<1>4. CASE UNCHANGED <<receiver, trouble>>
  <2>1. UNCHANGED <<filter, nalu, synced, media, rtcp, out, trouble>>
    BY <1>4 DEF receiver
  <2>2. RtpTypes'
    BY <1>1, <1>2, <1>3, <2>1 DEF RtpTypes
  <2>3. Known' \subseteq Known
    BY <1>2, <2>1 DEF Known
  <2>4. PacketsFit'
    BY <1>1, <1>3, <2>1, <2>3, FewerFit
  <2>5. \A j \in DOMAIN wire' : filter.newest - wire'[j].num <= Quarter
    <3>1. \A q \in {wire[j] : j \in DOMAIN wire} : filter.newest - q.num <= Quarter
      BY <1>1 DEF WireHolds
    <3> QED
      BY <1>2, <3>1
  <2>6. WireHolds'
    BY <1>1, <1>2, <1>3, <2>1, <2>5 DEF WireHolds, Quarter
  <2>7. NaluHolds' /\ OrderHolds' /\ FilterHolds'
    BY <1>1, <2>1 DEF NaluHolds, OrderHolds, FilterHolds, NumberOf, Quarter
  <2>8. StampsHold'
    BY <1>1, <2>1 DEF StampsHold, StampFacts, LineHolds, Unwrapped, Epoch
  <2> QED
    BY <2>1, <2>2, <2>4, <2>6, <2>7, <2>8 DEF RtpInv
<1>5. CASE Accepted(p)
  <2>1. /\ nalu' \in Seq(Packets) /\ synced' \in 0 .. SeqRange - 1
        /\ media' \in Lines /\ rtcp' \in Clocks /\ out' \in Outs
        /\ nalu' # <<>> => \/ nalu' = nalu \/ nalu' = <<p>> \/ nalu' = nalu \o <<p>>
    BY <1>1, <1>2, <1>5, ReceivedIsTyped DEF Accepted
  <2>2. filter' \in [last : 0 .. SeqRange - 1, rolls : Nat, first : NatOrNone,
                     newest : NatOrNone]
        /\ filter'.newest = IF p.num > filter.newest THEN p.num ELSE filter.newest
    BY <1>1, <1>2, <1>5, CountsIsTyped DEF Accepted
  <2>3. RtpTypes'
    BY <1>1, <1>2, <1>3, <2>1, <2>2 DEF RtpTypes
  <2>4. {nalu'[j] : j \in DOMAIN nalu'} \subseteq {nalu[j] : j \in DOMAIN nalu} \cup {p}
    <3>1. nalu \in Seq(Packets)
      BY <1>1 DEF RtpTypes
    <3>2. CASE nalu' = <<>>
      BY <3>2
    <3>3. CASE nalu' = nalu
      BY <3>3
    <3>4. CASE nalu' = <<p>>
      BY <3>4
    <3>5. CASE nalu' = nalu \o <<p>>
      <4>1. ASSUME NEW j \in DOMAIN nalu'
            PROVE  nalu'[j] = p \/ (j \in DOMAIN nalu /\ nalu'[j] = nalu[j])
        <5>1. p \in Packets
          BY <1>1, <1>2, KnownIsTyped
        <5> QED
          BY <3>1, <3>5, <5>1
      <4> QED
        BY <4>1
    <3> QED
      BY <2>1, <3>2, <3>3, <3>4, <3>5
  <2>5. Known' \subseteq Known
    BY <1>2, <2>4 DEF Known
  <2>6. PacketsFit'
    <3>1. "tail" \in trouble => "tail" \in trouble'
      BY <1>1, <1>5, AcceptedFacts
    <3> QED
      BY <1>1, <1>3, <2>5, <3>1, FewerFit
  <2>7. WireHolds'
    <3>1. \A j \in DOMAIN wire' : filter.newest - wire'[j].num <= Quarter
      <4>1. \A q \in {wire[j] : j \in DOMAIN wire} : filter.newest - q.num <= Quarter
        BY <1>1 DEF WireHolds
      <4> QED
        BY <1>2, <4>1
    <3>2. \A j \in DOMAIN wire' : filter'.newest - wire'[j].num <= Quarter
      BY <1>2, <2>2, <3>1
    <3>3. filter'.newest < sent'.next
      <4>1. p.num < sent.next /\ filter.newest < sent.next
        BY <1>1, <1>2 DEF PacketsFit, WireHolds
      <4> QED
        BY <1>3, <2>2, <4>1
    <3> QED
      BY <1>2, <3>2, <3>3 DEF WireHolds, Quarter
  <2>8. NaluHolds' /\ OrderHolds' /\ StampsHold'
    BY <1>1, <1>5, NaluKept, OrderKept, StampsKept
  <2>9. FilterHolds'
    <3>1. CASE "late" \in trouble'
      BY <3>1 DEF FilterHolds
    <3>2. CASE "late" \notin trouble'
      BY <1>1, <1>5, <3>2, AcceptedIsNewest
    <3> QED
      BY <3>1, <3>2
  <2>10. out' # out => Intact
    BY <1>1, <1>5, FedIsIntact
  <2> QED
    BY <2>3, <2>6, <2>7, <2>8, <2>9, <2>10 DEF RtpInv
<1> QED
  BY <1>4, <1>5, ArrivalIsAccepted DEF p

LEMMA LossKeeps ==
  ASSUME RtpInv, PacketLost
  PROVE  RtpInv' /\ out' = out
<1>1. RtpTypes /\ PacketsFit /\ WireHolds /\ NaluHolds /\ OrderHolds /\ FilterHolds /\ StampsHold
  BY DEF RtpInv
<1>2. /\ UNCHANGED <<feed, held, sent, report, filter, nalu, synced, media, rtcp, out, trouble>>
      /\ wire # <<>> /\ wire' = Tail(wire)
  BY DEF PacketLost, receiver
<1>3. /\ wire' \in Seq(Packets) /\ DOMAIN wire' \subseteq Nat
      /\ \A j \in DOMAIN wire' : j + 1 \in DOMAIN wire /\ wire'[j] = wire[j + 1]
  <2>1. wire \in Seq(Packets)
    BY <1>1 DEF RtpTypes
  <2> QED
    BY <1>2, <2>1
<1>4. RtpTypes'
  BY <1>1, <1>2, <1>3 DEF RtpTypes
<1>5. Known' \subseteq Known
  BY <1>2, <1>3 DEF Known
<1>6. PacketsFit'
  BY <1>1, <1>2, <1>5, FewerFit
<1>7. WireHolds'
  <2>1. ASSUME NEW j \in DOMAIN wire', NEW k \in DOMAIN wire', j < k
        PROVE  wire'[j].num < wire'[k].num
    <3>1. j + 1 < k + 1 /\ j + 1 \in DOMAIN wire /\ k + 1 \in DOMAIN wire
          /\ wire'[j] = wire[j + 1] /\ wire'[k] = wire[k + 1]
      BY <1>3, <2>1
    <3> DEFINE a == j + 1
               b == k + 1
    <3>2. a < b /\ a \in DOMAIN wire /\ b \in DOMAIN wire /\ wire'[j] = wire[a] /\ wire'[k] = wire[b]
      BY <3>1
    <3> HIDE DEF a, b
    <3> QED
      BY <1>1, <3>2 DEF WireHolds
  <2>2. \A j \in DOMAIN wire' : filter.newest - wire'[j].num <= Quarter
    <3>1. \A q \in {wire[j] : j \in DOMAIN wire} : filter.newest - q.num <= Quarter
      BY <1>1 DEF WireHolds
    <3> QED
      BY <1>3, <3>1
  <2> QED
    BY <1>1, <1>2, <2>1, <2>2 DEF WireHolds, Quarter
<1>8. NaluHolds' /\ OrderHolds' /\ FilterHolds'
  BY <1>1, <1>2 DEF NaluHolds, OrderHolds, FilterHolds, NumberOf, Quarter
<1>9. StampsHold'
  BY <1>1, <1>2 DEF StampsHold, StampFacts, LineHolds, Unwrapped, Epoch
<1> QED
  BY <1>2, <1>4, <1>6, <1>7, <1>8, <1>9 DEF RtpInv

LEMMA ReportKeeps ==
  ASSUME RtpInv, ReportArrives
  PROVE  RtpInv' /\ out' = out
<1>1. RtpTypes /\ PacketsFit /\ WireHolds /\ NaluHolds /\ OrderHolds /\ FilterHolds /\ StampsHold
  BY DEF RtpInv
<1> DEFINE line == ComputeRTP(rtcp.line, report)
<1>2. /\ UNCHANGED <<feed, held, sent, wire, faults, filter, nalu, synced, media, out>>
      /\ report # -1 /\ report' = -1 /\ NearInTime(rtcp.line, report)
      /\ rtcp' = [rtcp EXCEPT !.time = report, !.line = line, !.rtp = Unwrapped(line)]
      /\ trouble' = trouble \cup {x \in {"back"} : GoesBack(rtcp.line, report)}
  BY DEF ReportArrives
<1>3. rtcp \in Clocks /\ rtcp.line \in Lines /\ report \in Nat
  BY <1>1, <1>2 DEF RtpTypes, Clocks, NatOrNone
<1>4. /\ line \in Lines /\ line.time = report /\ line.epoch # -1 /\ Unwrapped(line) \in Nat
      /\ rtcp.line.epoch # -1 => line.epoch = rtcp.line.epoch
  BY <1>3, LineIsComputed
<1>5. StampFacts /\ ~GoesBack(rtcp.line, report) => LineHolds(line)
  BY <1>2, <1>3, LineGoesOn DEF StampFacts
<1> DEFINE raw == Unwrapped(line)
<1>6. /\ rtcp' \in Clocks
      /\ rtcp'.time = report /\ rtcp'.line = line /\ rtcp'.rtp = raw
      /\ rtcp'.presence = rtcp.presence /\ rtcp'.first = rtcp.first
      /\ rtcp'.firstTime = rtcp.firstTime
  <2> HIDE DEF line, raw
  <2>1. rtcp' = [rtcp EXCEPT !.time = report, !.line = line, !.rtp = raw]
    BY <1>2 DEF raw
  <2>2. line \in Lines /\ raw \in Nat /\ report \in NatOrNone
    BY <1>3, <1>4 DEF NatOrNone, raw
  <2> QED
    BY <1>3, <2>1, <2>2 DEF Clocks
<1>7. RtpTypes'
  BY <1>1, <1>2, <1>6 DEF RtpTypes, NatOrNone
<1>8. Known' \subseteq Known
  BY <1>2 DEF Known
<1>9. \A x \in {"zero", "late", "tail"} : x \in trouble' <=> x \in trouble
  BY <1>2
<1>10. PacketsFit'
  BY <1>1, <1>2, <1>8, <1>9, FewerFit
<1>11. WireHolds'
  BY <1>1, <1>2 DEF WireHolds, Quarter
<1>12. NaluHolds' /\ OrderHolds' /\ FilterHolds'
  BY <1>1, <1>2, <1>9 DEF NaluHolds, OrderHolds, FilterHolds, NumberOf, Quarter
<1>13. StampsHold'
  <2> SUFFICES ASSUME "back" \notin trouble'  PROVE StampFacts'
    BY DEF StampsHold
  <2>1. StampFacts /\ LineHolds(line)
    BY <1>1, <1>2, <1>5 DEF StampsHold
  <2> HIDE DEF line
  <2>2. LineHolds(media)' /\ LineHolds(rtcp.line)'
    BY <1>2, <1>6, <2>1 DEF StampFacts, LineHolds, Epoch
  <2>3. Unwrapped(rtcp.line)' = raw
    BY <1>6 DEF Unwrapped
  <2>4. rtcp'.time = rtcp'.line.time /\ rtcp'.time # -1
    BY <1>2, <1>4, <1>6
  <2>5. rtcp.presence = "available" => rtcp.line.epoch # -1 /\ line.epoch = rtcp.line.epoch
    BY <1>4, <2>1 DEF StampFacts, LineHolds
  <2>6. rtcp'.first # -1 => media'.time # -1
          /\ rtcp'.first = rtcp'.firstTime - TsRange * media'.epoch
    BY <1>2, <1>6, <2>1 DEF StampFacts
  <2>7. out'.packets # <<>> =>
          /\ media'.time # -1
          /\ \/ rtcp'.presence = "absent" /\ rtcp'.first # -1 /\ out'.stamp = out'.time - rtcp'.firstTime
             \/ /\ rtcp'.presence = "available"
                /\ out'.stamp = out'.time \/ rtcp'.line.epoch # media'.epoch
    BY <1>2, <1>6, <2>1, <2>5 DEF StampFacts
  <2>8. rtcp'.presence \in {"unknown", "available"} => rtcp'.first = -1
    BY <1>6, <2>1 DEF StampFacts
  <2> QED
    BY <1>6, <2>2, <2>3, <2>4, <2>6, <2>7, <2>8 DEF StampFacts
<1> QED
  BY <1>2, <1>7, <1>10, <1>11, <1>12, <1>13 DEF RtpInv

LEMMA StillKeeps ==
  ASSUME RtpInv,
         UNCHANGED <<feed, held, sent, wire, filter, nalu, synced, media, rtcp, out, trouble>>,
         report' \in NatOrNone
  PROVE  RtpInv'
<1>1. RtpTypes /\ PacketsFit /\ WireHolds /\ NaluHolds /\ OrderHolds /\ FilterHolds /\ StampsHold
  BY DEF RtpInv
<1>2. RtpTypes'
  BY <1>1 DEF RtpTypes
<1>3. Known' = Known
  BY DEF Known
<1>4. PacketsFit'
  BY <1>1, <1>3, FewerFit
<1>5. WireHolds'
  BY <1>1 DEF WireHolds, Quarter
<1>6. NaluHolds' /\ OrderHolds' /\ FilterHolds'
  BY <1>1 DEF NaluHolds, OrderHolds, FilterHolds, NumberOf, Quarter
<1>7. StampsHold'
  BY <1>1 DEF StampsHold, StampFacts, LineHolds, Unwrapped, Epoch
<1> QED
  BY <1>2, <1>4, <1>5, <1>6, <1>7 DEF RtpInv

LEMMA FeedStepKeeps ==
  ASSUME RtpInv,
         (\E shape \in Messages : FeedFirstPiece(shape)) \/ FeedNextPiece
  PROVE  RtpInv' /\ out' = out
<1>1. RtpTypes
  BY DEF RtpInv
<1>2. ASSUME NEW shape \in Messages, FeedFirstPiece(shape)
      PROVE  RtpInv' /\ out' = out
  <2> DEFINE m == [id |-> feed.count + 1, time |-> feed.time + 1,
                   setup |-> shape.setup, pieces |-> shape.pieces,
                   nals |-> shape.nals, offset |-> shape.offset]
  <2>1. /\ feed' = [count |-> m.id, time |-> m.time,
                    message |-> IF m.pieces > 1 THEN m ELSE <<>>,
                    piece |-> IF m.pieces > 1 THEN 2 ELSE 0]
        /\ FeedDataVideo(m, 1) /\ UNCHANGED <<faults, receiver>>
    BY <1>2 DEF FeedFirstPiece
  <2>2. feed.count + 1 \in Nat /\ feed.time + 1 \in Nat
    BY <1>1 DEF RtpTypes, NatOrNone
  <2>3. /\ shape.setup \in BOOLEAN /\ shape.pieces \in {1, 2}
        /\ shape.nals \in {<<>>, <<2>>, <<1, 3>>} /\ shape.offset \in {0, 2}
    BY DEF Messages
  <2>4. m \in Shapes /\ m.id \in Nat /\ m.time \in Nat
    BY <2>2, <2>3 DEF Shapes
  <2> HIDE DEF m
  <2>5. Feeds
    BY <1>1, <2>1, <2>4, PieceFeeds
  <2>6. /\ feed'.count \in Nat /\ feed'.time \in NatOrNone /\ feed'.piece \in {0, 2}
        /\ feed'.piece = 2 => feed'.message \in Shapes
    BY <2>1, <2>4 DEF NatOrNone
  <2>7. RtpInv'
    BY <2>1, <2>5, <2>6, FeedKeeps
  <2> QED
    BY <2>1, <2>7 DEF receiver
<1>3. CASE FeedNextPiece
  <2>1. /\ feed.piece = 2
        /\ feed' = [feed EXCEPT !.piece = 0, !.message = <<>>]
        /\ FeedDataVideo(feed.message, 2) /\ UNCHANGED <<faults, receiver>>
    BY <1>3 DEF FeedNextPiece
  <2>2. feed.message \in Shapes
    BY <1>1, <2>1 DEF RtpTypes
  <2>3. Feeds
    BY <1>1, <2>1, <2>2, PieceFeeds
  <2>4. feed'.count \in Nat /\ feed'.time \in NatOrNone /\ feed'.piece = 0
    BY <1>1, <2>1 DEF RtpTypes
  <2>5. RtpInv'
    BY <2>1, <2>3, <2>4, FeedKeeps
  <2> QED
    BY <2>1, <2>5 DEF receiver
<1> QED
  BY <1>2, <1>3

LEMMA InitRtp == RtpInit => RtpInv
<1> SUFFICES ASSUME RtpInit  PROVE RtpInv
  OBVIOUS
<1>1. /\ feed = [count |-> 0, time |-> TsRange - 3, piece |-> 0, message |-> <<>>]
      /\ held = <<>> /\ wire = <<>> /\ report = -1
      /\ filter = [last |-> 0, rolls |-> 0, first |-> -1, newest |-> -1]
      /\ nalu = <<>> /\ synced = 0 /\ media = Fresh(-1)
      /\ rtcp = [presence |-> "unknown", started |-> FALSE, time |-> -1, rtp |-> 0,
                 line |-> Fresh(-1), first |-> -1, firstTime |-> -1]
      /\ out = [packets |-> <<>>, stamp |-> 0, time |-> 0]
      /\ trouble = {}
  BY DEF RtpInit
<1>2. sent \in [next : Nat \ {0}, first : Nat]
  <2>1. PICK first \in {1, SeqRange - 2} : sent = [next |-> first, first |-> first]
    BY DEF RtpInit
  <2>2. first \in Nat \ {0}
    BY RtpAssumption
  <2> QED
    BY <2>1, <2>2
<1>3. Fresh(-1) \in Lines /\ LineHolds(Fresh(-1)) /\ Fresh(-1).time = -1
  BY DEF Fresh, Lines, LineHolds, NatOrNone
<1>4. TsRange \in Nat /\ TsRange >= 2
  BY RtpAssumption
<1>5. RtpTypes
  <2>1. TsRange - 3 \in NatOrNone
    BY <1>4 DEF NatOrNone
  <2>2. 0 \in 0 .. SeqRange - 1
    BY RtpAssumption
  <2>3. filter \in [last : 0 .. SeqRange - 1, rolls : Nat, first : NatOrNone, newest : NatOrNone]
    BY <1>1, <2>2 DEF NatOrNone
  <2>4. rtcp \in Clocks
    BY <1>1, <1>3 DEF Clocks, NatOrNone
  <2>5. out \in Outs
    BY <1>1 DEF Outs
  <2>6. feed.count \in Nat /\ feed.time \in NatOrNone /\ feed.piece = 0
    BY <1>1, <2>1
  <2>7. media \in Lines /\ synced \in 0 .. SeqRange - 1 /\ report \in NatOrNone
    BY <1>1, <1>3, <2>2 DEF NatOrNone
  <2>8. held \in Seq(Chunks) /\ wire \in Seq(Packets) /\ nalu \in Seq(Packets)
    BY <1>1
  <2> QED
    BY <1>2, <2>3, <2>4, <2>5, <2>6, <2>7, <2>8 DEF RtpTypes
<1>6. PacketsFit
  <2>1. Known = {}
    BY <1>1 DEF Known
  <2> QED
    BY <2>1 DEF PacketsFit
<1>7. WireHolds
  <2>1. filter.newest = -1 /\ sent.next \in Nat
    BY <1>1, <1>2
  <2>2. filter.newest < sent.next /\ DOMAIN wire = {}
    BY <1>1, <2>1
  <2> QED
    BY <2>2 DEF WireHolds
<1>8. NaluHolds /\ OrderHolds
  BY <1>1 DEF NaluHolds, OrderHolds
<1>9. FilterHolds
  BY <1>1 DEF FilterHolds
<1>10. StampsHold
  BY <1>1, <1>3 DEF StampsHold, StampFacts
<1> QED
  BY <1>5, <1>6, <1>7, <1>8, <1>9, <1>10 DEF RtpInv

LEMMA StepRtp ==
  ASSUME RtpInv, [RtpNext]_rtpVars
  PROVE  RtpInv' /\ (out' # out => Intact)
<1>1. CASE (\E shape \in Messages : FeedFirstPiece(shape)) \/ FeedNextPiece
  BY <1>1, FeedStepKeeps
<1>2. CASE Arrives(1, FALSE)
  BY <1>2, ArrivalKeeps
<1>3. CASE Arrives(1, TRUE)
  BY <1>3, ArrivalKeeps
<1>4. CASE Arrives(2, FALSE)
  BY <1>4, ArrivalKeeps
<1>5. CASE PacketLost
  BY <1>5, LossKeeps
<1>6. CASE ReportArrives
  BY <1>6, ReportKeeps
<1>7. CASE ReportLost
  <2>1. /\ UNCHANGED <<feed, held, sent, wire, filter, nalu, synced, media, rtcp, out, trouble>>
        /\ report' \in NatOrNone
    BY <1>7 DEF ReportLost, receiver, NatOrNone
  <2> QED
    BY <2>1, StillKeeps
<1>8. CASE UNCHANGED rtpVars
  <2>1. /\ UNCHANGED <<feed, held, sent, wire, filter, nalu, synced, media, rtcp, out, trouble>>
        /\ report' \in NatOrNone
    BY <1>8 DEF rtpVars, RtpInv, RtpTypes
  <2> QED
    BY <2>1, StillKeeps
<1> QED
  BY <1>1, <1>2, <1>3, <1>4, <1>5, <1>6, <1>7, <1>8 DEF RtpNext

\* The inductive invariant of the way of the packets.
THEOREM RtpInvariant == RtpSpec => []RtpInv
<1>1. RtpInv /\ [RtpNext]_rtpVars => RtpInv'
  BY StepRtp
<1> QED
  BY InitRtp, <1>1, PTL DEF RtpSpec

\* The number the receiver reports and the stamps of the units are right, for every
\* range of the sequence numbers and of the times.
THEOREM CountersAreExact == RtpSpec => []CountersExact
<1>1. RtpInv => CountersExact
  <2> SUFFICES ASSUME RtpInv  PROVE CountersExact
    OBVIOUS
  <2>1. RtpTypes /\ FilterHolds /\ StampsHold
    BY DEF RtpInv
  <2>2. ASSUME filter.first # -1, "late" \notin trouble
        PROVE  filter.rolls * SeqRange + filter.last
                 = filter.newest - SeqRange * (filter.first \div SeqRange)
    <3>1. filter.newest # -1 /\ filter.last = filter.newest % SeqRange
          /\ filter.rolls = (filter.newest \div SeqRange) - (filter.first \div SeqRange)
      BY <2>1, <2>2 DEF FilterHolds
    <3> DEFINE r == SeqRange
               k == filter.newest \div SeqRange
               l == filter.first \div SeqRange
               u == filter.newest % SeqRange
    <3>2. filter.newest \in Int /\ filter.first \in Int /\ r \in Nat \ {0}
      BY <2>1, RtpAssumption DEF RtpTypes, NatOrNone
    <3>3. k \in Int /\ l \in Int /\ u \in Int /\ filter.newest = r * k + u
      BY <3>2, DivMod
    <3>4. filter.rolls = k - l /\ filter.last = u
      BY <3>1
    <3> SUFFICES filter.rolls * r + filter.last = filter.newest - r * l
      OBVIOUS
    <3> HIDE DEF r, k, l, u
    <3>5. (k - l) * r = r * k - r * l
      BY <3>2, <3>3, Z3
    <3> DEFINE x == r * k
               y == r * l
    <3>6. x \in Int /\ y \in Int /\ (k - l) * r = x - y /\ filter.newest = x + u
      BY <3>2, <3>3, <3>5
    <3> HIDE DEF x, y
    <3>7. (k - l) * r + u = filter.newest - y
      BY <3>3, <3>6
    <3> QED
      BY <3>4, <3>7 DEF y
  <2>3. ASSUME out.packets # <<>>, "back" \notin trouble
        PROVE  \/ rtcp.presence = "absent" /\ out.stamp = out.time - rtcp.firstTime
               \/ rtcp.presence = "available"
                  /\ (out.stamp = out.time \/ rtcp.line.epoch # media.epoch)
    BY <2>1, <2>3 DEF StampsHold, StampFacts
  <2> QED
    BY <2>2, <2>3 DEF CountersExact
<1> QED
  BY RtpInvariant, <1>1, PTL

\* Every NAL unit that reaches the out streams is one that was sent, whole and in
\* order, for every range and whatever is lost, repeated or overtaken.
THEOREM NalsAreIntact == RtpSpec => NalsIntact
<1>1. RtpInv /\ [RtpNext]_rtpVars => [out' # out => Intact]_rtpVars
  BY StepRtp
<1> QED
  BY RtpInvariant, <1>1, PTL DEF RtpSpec, NalsIntact, Intact
=============================================================================
