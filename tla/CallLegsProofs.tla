--------------------------- MODULE CallLegsProofs ---------------------------
(***************************************************************************)
(* What is attached to a call, for any number of operators' legs, takes of *)
(* the recording and goroutines at work at the same time.                  *)
(***************************************************************************)
EXTENDS CallLegs, SequenceTheorems, TLAPS

-----------------------------------------------------------------------------
(* Sequences of steps.                                                     *)

\* The steps of the callbacks and of the recording.
Common ==
    {"disarm", "take", "finish", "detach", "remove", "unlist", "unlock", "list",
     "ifArmed", "ifNone", "start", "ifActive", "arm"}

\* All there are.
Names ==
    Common \cup {"find", "end", "reject", "drain", "accept", "poll", "get", "register", "dial",
                 "setup", "read", "make", "set", "resume", "ended"}

Steps == Seq(Names)

\* What is left after n steps.
After(s, n) == SubSeq(s, n + 1, Len(s))

Has(s, x) == \E i \in 1..Len(s) : s[i] = x

LEMMA AfterFacts ==
    ASSUME NEW s \in Steps, NEW n \in 1..Len(s)
    PROVE  /\ After(s, n) \in Steps /\ Len(After(s, n)) = Len(s) - n
           /\ Len(s) \in Nat
           /\ \A i \in 1..(Len(s) - n) : After(s, n)[i] = s[i + n]
<1>1. Len(s) \in Nat /\ n \in Int /\ n + 1 \in Int
  BY LenProperties DEF Steps
<1>2. \A i \in (n + 1)..Len(s) : s[i] \in Names
  BY <1>1, ElementOfSeq DEF Steps
<1>3. /\ SubSeq(s, n + 1, Len(s)) \in Seq(Names)
      /\ Len(SubSeq(s, n + 1, Len(s))) =
           IF n + 1 <= Len(s) THEN Len(s) - (n + 1) + 1 ELSE 0
      /\ \A i \in 1..(Len(s) - (n + 1) + 1) : SubSeq(s, n + 1, Len(s))[i] = s[n + 1 + i - 1]
  BY <1>1, <1>2, SubSeqProperties
<1>4. After(s, n) \in Steps /\ Len(After(s, n)) = Len(s) - n
  BY <1>1, <1>3 DEF After, Steps
<1>5. ASSUME NEW i \in 1..(Len(s) - n) PROVE After(s, n)[i] = s[i + n]
  <2>1. i \in 1..(Len(s) - (n + 1) + 1) /\ n + 1 + i - 1 = i + n
    BY <1>1
  <2> QED
    BY <1>3, <2>1 DEF After
<1> QED
  BY <1>1, <1>4, <1>5

LEMMA JoinFacts ==
    ASSUME NEW p \in Steps, NEW r \in Steps
    PROVE  /\ p \o r \in Steps /\ Len(p \o r) = Len(p) + Len(r)
           /\ Len(p) \in Nat /\ Len(r) \in Nat
           /\ \A i \in 1..Len(p) : (p \o r)[i] = p[i]
           /\ \A i \in 1..Len(r) : (p \o r)[Len(p) + i] = r[i]
<1>1. Len(p) \in Nat /\ Len(r) \in Nat
  BY LenProperties DEF Steps
<1>2. /\ p \o r \in Steps /\ Len(p \o r) = Len(p) + Len(r)
      /\ \A i \in 1..(Len(p) + Len(r)) :
            (p \o r)[i] = IF i <= Len(p) THEN p[i] ELSE r[i - Len(p)]
  BY ConcatProperties DEF Steps
<1>3. ASSUME NEW i \in 1..Len(r) PROVE (p \o r)[Len(p) + i] = r[i]
  <2>1. Len(p) + i \in 1..(Len(p) + Len(r)) /\ ~(Len(p) + i <= Len(p)) /\ (Len(p) + i) - Len(p) = i
    BY <1>1
  <2> QED
    BY <1>2, <2>1
<1>4. ASSUME NEW i \in 1..Len(p) PROVE (p \o r)[i] = p[i]
  BY <1>1, <1>2
<1> QED
  BY <1>1, <1>2, <1>3, <1>4

\* A step that is still to come stays, unless it is one of those done or skipped.
LEMMA AfterHas ==
    ASSUME NEW s \in Steps, NEW n \in 1..Len(s), NEW x
    PROVE  /\ Has(After(s, n), x) => Has(s, x)
           /\ Has(s, x) /\ (\A i \in 1..n : s[i] # x) => Has(After(s, n), x)
<1>1. /\ After(s, n) \in Steps /\ Len(After(s, n)) = Len(s) - n
      /\ Len(s) \in Nat
      /\ \A i \in 1..(Len(s) - n) : After(s, n)[i] = s[i + n]
  BY AfterFacts
<1>2. ASSUME NEW i \in 1..Len(s), i \notin 1..n
      PROVE  i - n \in 1..(Len(s) - n) /\ After(s, n)[i - n] = s[i]
  <2>1. i - n \in 1..(Len(s) - n) /\ (i - n) + n = i
    BY <1>1, <1>2
  <2> QED
    BY <1>1, <2>1
<1>3. ASSUME NEW i \in 1..(Len(s) - n)
      PROVE  i + n \in 1..Len(s)
  BY <1>1
<1> QED
  BY <1>1, <1>2, <1>3 DEF Has

LEMMA JoinHas ==
    ASSUME NEW p \in Steps, NEW r \in Steps, NEW x
    PROVE  Has(p \o r, x) <=> Has(p, x) \/ Has(r, x)
<1>1. /\ Len(p \o r) = Len(p) + Len(r)
      /\ Len(p) \in Nat /\ Len(r) \in Nat
      /\ \A i \in 1..Len(p) : (p \o r)[i] = p[i]
      /\ \A i \in 1..Len(r) : (p \o r)[Len(p) + i] = r[i]
  BY JoinFacts
<1>2. \A i \in 1..Len(p) : i \in 1..(Len(p) + Len(r))
  BY <1>1
<1>3. \A i \in 1..Len(r) : Len(p) + i \in 1..(Len(p) + Len(r))
  BY <1>1
<1>4. ASSUME NEW i \in 1..(Len(p) + Len(r)), i \notin 1..Len(p)
      PROVE  i - Len(p) \in 1..Len(r) /\ (p \o r)[i] = r[i - Len(p)]
  <2>1. i - Len(p) \in 1..Len(r) /\ Len(p) + (i - Len(p)) = i
    BY <1>1, <1>4
  <2> QED
    BY <1>1, <2>1
<1> QED
  BY <1>1, <1>2, <1>3, <1>4 DEF Has

-----------------------------------------------------------------------------
(* Plans.                                                                  *)

\* Who may have which steps before him.
May(g, x) ==
    \/ g # "hook" /\ x \in Common
    \/ g = "http" /\ x \in {"find", "end", "reject"}
    \/ g = "hangup" /\ x \in {"find", "end"}
    \/ g = "sweep" /\ x \in {"drain", "end"}
    \/ g = "ai" /\ x \in {"accept", "poll", "get", "register", "dial", "setup", "read"}
    \/ g \in Legs /\ x \in {"get", "make", "set", "resume"}
    \/ g = "hook" /\ x = "ended"

\* What comes after a step: what it may skip, and what has to follow it.
FollowsAt(s, i) ==
    /\ s[i] = "ifArmed" => i + 2 <= Len(s) /\ s[i + 1] = "ifNone" /\ s[i + 2] = "start"
    /\ s[i] = "ifNone" => i + 1 <= Len(s) /\ s[i + 1] = "start"
    /\ s[i] = "find" => i + 1 <= Len(s) /\ s[i + 1] \in {"end", "reject"}
    /\ s[i] = "drain" => i + 1 <= Len(s) /\ s[i + 1] = "end"
    /\ s[i] = "reject" => \E j \in (i + 1)..Len(s) : s[j] = "detach"
    /\ s[i] = "make" => \E j \in (i + 1)..Len(s) : s[j] = "set"

Follows(s) == \A i \in 1..Len(s) : FollowsAt(s, i)

\* A call is rejected before anything else is done, and a leg is made once.
RejectFirst(s) == \A i \in 1..Len(s) : s[i] = "reject" => i = 1 \/ (i = 2 /\ s[1] = "find")

MakeOnce(s) == \A i, j \in 1..Len(s) : s[i] = "make" /\ s[j] = "make" => i = j

Plan(g, s) ==
    /\ s \in Steps
    /\ Follows(s) /\ RejectFirst(s) /\ MakeOnce(s)
    /\ \A i \in 1..Len(s) : May(g, s[i])

PlansInv ==
    /\ DOMAIN todo = Goroutines
    /\ \A g \in Goroutines : Plan(g, todo[g])

\* What is left of a plan is a plan.
LEMMA AfterPlan ==
    ASSUME NEW g, NEW s, Plan(g, s), NEW n \in 1..Len(s)
    PROVE  Plan(g, After(s, n))
<1> DEFINE r == After(s, n)
           k == Len(s)
<1>1. /\ r \in Steps /\ Len(r) = k - n /\ k \in Nat
      /\ \A i \in 1..(k - n) : r[i] = s[i + n]
  BY AfterFacts DEF Plan
<1>2. \A i \in 1..(k - n) : i + n \in 1..k /\ (i + n) + 1 = (i + 1) + n /\ (i + n) + 2 = (i + 2) + n
  BY <1>1
<1> HIDE DEF r
<1>3. ASSUME NEW i \in 1..Len(r) PROVE May(g, r[i])
  BY <1>1, <1>2 DEF Plan
<1>4. RejectFirst(r)
  BY <1>1, <1>2 DEF Plan, RejectFirst
<1>5. MakeOnce(r)
  <2> SUFFICES ASSUME NEW i \in 1..Len(r), NEW j \in 1..Len(r), r[i] = "make", r[j] = "make"
               PROVE  i = j
    BY DEF MakeOnce
  <2>1. i + n = j + n
    BY <1>1, <1>2 DEF Plan, MakeOnce
  <2> QED
    BY <1>1, <2>1
<1>6. Follows(r)
  <2> SUFFICES ASSUME NEW i \in 1..Len(r) PROVE FollowsAt(r, i)
    BY DEF Follows, FollowsAt
  <2>1. i \in 1..(k - n) /\ i + n \in 1..k /\ r[i] = s[i + n]
    BY <1>1, <1>2
  <2>2. (i + n) + 1 <= k => i + 1 \in 1..(k - n) /\ r[i + 1] = s[(i + n) + 1]
    BY <1>1, <1>2, <2>1
  <2>3. (i + n) + 2 <= k => i + 2 \in 1..(k - n) /\ r[i + 2] = s[(i + n) + 2]
    BY <1>1, <1>2, <2>1
  <2>4. ASSUME NEW j \in ((i + n) + 1)..k
        PROVE  j - n \in (i + 1)..Len(r) /\ r[j - n] = s[j]
    <3>1. j - n \in 1..(k - n) /\ (j - n) + n = j /\ j - n >= i + 1
      BY <1>1, <2>1
    <3> QED
      BY <1>1, <2>1, <3>1
  <2>5. Follows(s)
    BY DEF Plan
  <2>6. (i + n) + 2 <= k => (i + n) + 1 <= k
    BY <1>1, <2>1
  <2>7. r[i] = "ifArmed" => i + 2 <= Len(r) /\ r[i + 1] = "ifNone" /\ r[i + 2] = "start"
    BY <1>1, <2>1, <2>2, <2>3, <2>5, <2>6 DEF Follows, FollowsAt
  <2>8. r[i] = "ifNone" => i + 1 <= Len(r) /\ r[i + 1] = "start"
    BY <1>1, <2>1, <2>2, <2>5 DEF Follows, FollowsAt
  <2>9. r[i] = "find" => i + 1 <= Len(r) /\ r[i + 1] \in {"end", "reject"}
    BY <1>1, <2>1, <2>2, <2>5 DEF Follows, FollowsAt
  <2>10. r[i] = "drain" => i + 1 <= Len(r) /\ r[i + 1] = "end"
    BY <1>1, <2>1, <2>2, <2>5 DEF Follows, FollowsAt
  <2>11. ASSUME r[i] = "reject" PROVE \E j \in (i + 1)..Len(r) : r[j] = "detach"
    <3>1. PICK j \in ((i + n) + 1)..k : s[j] = "detach"
      BY <2>1, <2>5, <2>11 DEF Follows, FollowsAt
    <3> QED
      BY <2>4, <3>1
  <2>12. ASSUME r[i] = "make" PROVE \E j \in (i + 1)..Len(r) : r[j] = "set"
    <3>1. PICK j \in ((i + n) + 1)..k : s[j] = "set"
      BY <2>1, <2>5, <2>12 DEF Follows, FollowsAt
    <3> QED
      BY <2>4, <3>1
  <2> QED
    BY <2>7, <2>8, <2>9, <2>10, <2>11, <2>12 DEF FollowsAt
<1> QED
  BY <1>1, <1>3, <1>4, <1>5, <1>6 DEF Plan, r

\* Sequences that follow each other.
LEMMA JoinFollows ==
    ASSUME NEW p \in Steps, NEW r \in Steps, Follows(r),
           \A i \in 1..Len(p) : FollowsAt(p, i) \/ FollowsAt(p \o r, i)
    PROVE  Follows(p \o r)
<1> DEFINE s == p \o r
           m == Len(p)
           k == Len(r)
<1>1. /\ s \in Steps /\ Len(s) = m + k /\ m \in Nat /\ k \in Nat
      /\ \A i \in 1..m : s[i] = p[i]
      /\ \A i \in 1..k : s[m + i] = r[i]
  BY JoinFacts
<1>0. \A i \in 1..m : FollowsAt(p, i) \/ FollowsAt(s, i)
  OBVIOUS
<1> HIDE DEF s
<1> SUFFICES ASSUME NEW i \in 1..Len(s) PROVE FollowsAt(s, i)
  BY DEF Follows, s
<1>2. CASE i <= m
  <2>1. i \in 1..m /\ s[i] = p[i]
    BY <1>1, <1>2
  <2>2. i + 1 <= m => s[i + 1] = p[i + 1] /\ i + 1 <= Len(s)
    BY <1>1, <1>2
  <2>3. i + 2 <= m => s[i + 2] = p[i + 2] /\ i + 2 <= Len(s) /\ i + 1 <= m
    BY <1>1, <1>2
  <2>4. ASSUME NEW j \in (i + 1)..m PROVE j \in (i + 1)..Len(s) /\ s[j] = p[j]
    BY <1>1, <1>2
  <2>5. SUFFICES ASSUME FollowsAt(p, i) PROVE FollowsAt(s, i)
    BY <1>0, <2>1
  <2>6. ASSUME s[i] = "reject" PROVE \E j \in (i + 1)..Len(s) : s[j] = "detach"
    <3>1. PICK j \in (i + 1)..m : p[j] = "detach"
      BY <2>1, <2>5, <2>6 DEF FollowsAt
    <3> QED
      BY <2>4, <3>1
  <2>7. ASSUME s[i] = "make" PROVE \E j \in (i + 1)..Len(s) : s[j] = "set"
    <3>1. PICK j \in (i + 1)..m : p[j] = "set"
      BY <2>1, <2>5, <2>7 DEF FollowsAt
    <3> QED
      BY <2>4, <3>1
  <2>8. /\ s[i] = "ifArmed" => i + 2 <= Len(s) /\ s[i + 1] = "ifNone" /\ s[i + 2] = "start"
        /\ s[i] = "ifNone" => i + 1 <= Len(s) /\ s[i + 1] = "start"
        /\ s[i] = "find" => i + 1 <= Len(s) /\ s[i + 1] \in {"end", "reject"}
        /\ s[i] = "drain" => i + 1 <= Len(s) /\ s[i + 1] = "end"
    BY <2>1, <2>2, <2>3, <2>5 DEF FollowsAt
  <2> QED
    BY <2>6, <2>7, <2>8 DEF FollowsAt
<1>3. CASE ~(i <= m)
  <2>0. PICK h \in 1..k : i = m + h
    <3>1. i - m \in 1..k /\ i = m + (i - m)
      BY <1>1, <1>3
    <3> QED
      BY <3>1
  <2>1. s[i] = r[h] /\ FollowsAt(r, h)
    BY <1>1, <2>0 DEF Follows, FollowsAt
  <2>2. h + 1 <= k => s[i + 1] = r[h + 1] /\ i + 1 <= Len(s)
    <3>1. h + 1 <= k => h + 1 \in 1..k /\ i + 1 = m + (h + 1)
      BY <1>1, <2>0
    <3> QED
      BY <1>1, <2>0, <3>1
  <2>3. h + 2 <= k => s[i + 2] = r[h + 2] /\ i + 2 <= Len(s) /\ h + 1 <= k
    <3>1. h + 2 <= k => h + 2 \in 1..k /\ i + 2 = m + (h + 2)
      BY <1>1, <2>0
    <3> QED
      BY <1>1, <2>0, <3>1
  <2>4. ASSUME NEW j \in (h + 1)..k PROVE m + j \in (i + 1)..Len(s) /\ s[m + j] = r[j]
    BY <1>1, <2>0
  <2>5. /\ s[i] = "ifArmed" => i + 2 <= Len(s) /\ s[i + 1] = "ifNone" /\ s[i + 2] = "start"
        /\ s[i] = "ifNone" => i + 1 <= Len(s) /\ s[i + 1] = "start"
        /\ s[i] = "find" => i + 1 <= Len(s) /\ s[i + 1] \in {"end", "reject"}
        /\ s[i] = "drain" => i + 1 <= Len(s) /\ s[i + 1] = "end"
    BY <2>1, <2>2, <2>3 DEF FollowsAt
  <2>6. ASSUME s[i] = "reject" PROVE \E j \in (i + 1)..Len(s) : s[j] = "detach"
    <3>1. PICK j \in (h + 1)..k : r[j] = "detach"
      BY <2>1, <2>6 DEF FollowsAt
    <3> QED
      BY <2>4, <3>1
  <2>7. ASSUME s[i] = "make" PROVE \E j \in (i + 1)..Len(s) : s[j] = "set"
    <3>1. PICK j \in (h + 1)..k : r[j] = "set"
      BY <2>1, <2>7 DEF FollowsAt
    <3> QED
      BY <2>4, <3>1
  <2> QED
    BY <2>5, <2>6, <2>7 DEF FollowsAt
<1> QED
  BY <1>2, <1>3

\* Plans made of steps that callbacks have.
Simple(p) ==
    /\ p \in Steps /\ Follows(p)
    /\ \A i \in 1..Len(p) : p[i] \in Common

LEMMA JoinSimple ==
    ASSUME NEW p, NEW r, Simple(p), Simple(r)
    PROVE  Simple(p \o r)
<1>1. /\ p \o r \in Steps /\ Len(p \o r) = Len(p) + Len(r)
      /\ Len(p) \in Nat /\ Len(r) \in Nat
      /\ \A i \in 1..Len(p) : (p \o r)[i] = p[i]
      /\ \A i \in 1..Len(r) : (p \o r)[Len(p) + i] = r[i]
  BY JoinFacts DEF Simple
<1>2. Follows(p \o r)
  BY JoinFollows DEF Simple, Follows
<1>3. ASSUME NEW i \in 1..(Len(p) + Len(r)) PROVE (p \o r)[i] \in Common
  <2>1. CASE i \in 1..Len(p)
    BY <1>1, <2>1 DEF Simple
  <2>2. CASE i \notin 1..Len(p)
    <3>1. i - Len(p) \in 1..Len(r) /\ Len(p) + (i - Len(p)) = i
      BY <1>1, <2>2
    <3> QED
      BY <1>1, <3>1 DEF Simple
  <2> QED
    BY <2>1, <2>2
<1> QED
  BY <1>1, <1>2, <1>3 DEF Simple

LEMMA JoinPlan ==
    ASSUME NEW g, g # "hook", NEW p, Simple(p), NEW r, Plan(g, r), ~Has(r, "reject")
    PROVE  Plan(g, p \o r)
<1> DEFINE s == p \o r
           m == Len(p)
           k == Len(r)
<1>1. /\ s \in Steps /\ Len(s) = m + k /\ m \in Nat /\ k \in Nat
      /\ \A i \in 1..m : s[i] = p[i]
      /\ \A i \in 1..k : s[m + i] = r[i]
  BY JoinFacts DEF Simple, Plan
<1>2. Follows(s)
  BY JoinFollows DEF Simple, Plan, Follows
<1> HIDE DEF s
<1>3. ASSUME NEW i \in 1..Len(s) PROVE i \in 1..m \/ (i - m \in 1..k /\ s[i] = r[i - m])
  <2>1. i \in 1..m \/ (i - m \in 1..k /\ m + (i - m) = i)
    BY <1>1
  <2> QED
    BY <1>1, <2>1
<1>4. ASSUME NEW i \in 1..m PROVE s[i] \in Common /\ s[i] # "reject" /\ s[i] # "make"
  BY <1>1 DEF Simple, Common
<1>5. ASSUME NEW i \in 1..Len(s) PROVE May(g, s[i])
  BY <1>3, <1>4 DEF Plan, May
<1>6. RejectFirst(s)
  BY <1>3, <1>4 DEF Has, RejectFirst
<1>7. MakeOnce(s)
  <2> SUFFICES ASSUME NEW i \in 1..Len(s), NEW j \in 1..Len(s), s[i] = "make", s[j] = "make"
               PROVE  i = j
    BY DEF MakeOnce
  <2>1. i - m \in 1..k /\ s[i] = r[i - m] /\ j - m \in 1..k /\ s[j] = r[j - m]
    BY <1>3, <1>4
  <2>2. i - m = j - m
    BY <2>1 DEF Plan, MakeOnce
  <2> QED
    BY <1>1, <2>2
<1> QED
  BY <1>1, <1>2, <1>5, <1>6, <1>7 DEF Plan, s

-----------------------------------------------------------------------------
(* The legs.                                                               *)

Enders == {"http", "hangup", "sweep"}

\* The call is taken out of the table, and what is attached is detached after that.
Secure(s) == \E i, j \in 1..Len(s) : i < j /\ s[i] = "remove" /\ s[j] = "detach"

LinksInv ==
    /\ bridges \in Legs \cup {NoLeg}
    /\ link \in [Legs -> {"none", "open", "closed", "dropped"}]
    /\ fired \subseteq Legs
    /\ \A l \in Legs : Has(todo[l], "make") => link[l] = "none"
    /\ LocalCloseKeepsCall

\* An open leg is in the table, or its handler will put it there or close it.
OpenInv == \A l \in Legs : link[l] = "open" => Has(todo[l], "set") \/ bridges = l

\* A call that has ended and can still be found: whoever ended it will remove it, and
\* detach after that what came in between.  A leg in the table of a call that has ended
\* will be detached.
EndInv ==
    /\ known /\ ~Going => \E g \in Enders : Secure(todo[g]) /\ ~Has(todo[g], "reject")
    /\ bridges # NoLeg /\ ~Going =>
           \E g \in Enders : Has(todo[g], "detach") /\ ~Has(todo[g], "reject")

\* Recordings: what a goroutine has taken it closes next.
TakesInv ==
    /\ made \in Nat /\ recorder \in Nat /\ running \subseteq Nat \ {0}
    /\ taken \in [Goroutines -> Nat]
    /\ \A g \in Goroutines : taken[g] # 0 => At(g, "finish")
    /\ \A k \in running : k = recorder \/ \E g \in Goroutines : k = taken[g]

\* The Gemini session is in the table before it dials, and leaves it cancelled.
Preceded(s) ==
    \A i \in 1..Len(s) :
        s[i] \in {"dial", "setup", "read"} => \E j \in 1..(i - 1) : s[j] = "register"

AiInv ==
    /\ registered \in BOOLEAN /\ cancelled \in BOOLEAN /\ sock \in BOOLEAN
    /\ registered \/ cancelled \/ Preceded(todo["ai"])
    /\ sock => registered

-----------------------------------------------------------------------------
(* How plans move on.                                                      *)

\* Goroutine g has done (or skipped) some steps, and has t before it now.
Carries(g, s, t, done) ==
    /\ Plan(g, t)
    /\ Has(t, "make") => Has(s, "make") \/ s = <<>>
    /\ Has(t, "reject") => Has(s, "reject") \/ s = <<>>
    /\ "set" \notin done /\ Has(s, "set") => Has(t, "set")
    /\ "detach" \notin done /\ Has(s, "detach") => Has(t, "detach")
    /\ "remove" \notin done /\ Secure(s) => Secure(t)
    /\ "register" \notin done /\ Preceded(s) => Preceded(t)

LEMMA AfterCarries ==
    ASSUME NEW g, NEW s, Plan(g, s), NEW n \in 1..Len(s), NEW done,
           \A i \in 1..n : s[i] \in done
    PROVE  Carries(g, s, After(s, n), done)
<1> DEFINE r == After(s, n)
           k == Len(s)
<1>1. /\ r \in Steps /\ Len(r) = k - n /\ k \in Nat
      /\ \A i \in 1..(k - n) : r[i] = s[i + n]
  BY AfterFacts DEF Plan
<1>2. ASSUME NEW i \in 1..k, s[i] \notin done
      PROVE  i > n /\ i - n \in 1..Len(r) /\ r[i - n] = s[i]
  <2>1. i \notin 1..n
    BY <1>2
  <2>2. i - n \in 1..(k - n) /\ (i - n) + n = i
    BY <1>1, <2>1
  <2> QED
    BY <1>1, <2>1, <2>2
<1>3. Plan(g, r)
  BY AfterPlan
<1>4. \A x : Has(r, x) => Has(s, x)
  BY AfterHas DEF Plan
<1>5. \A x : x \notin done /\ Has(s, x) => Has(r, x)
  BY AfterHas DEF Plan
<1> HIDE DEF r
<1>6. ASSUME "remove" \notin done, Secure(s) PROVE Secure(r)
  <2>1. PICK i \in 1..k, j \in 1..k : i < j /\ s[i] = "remove" /\ s[j] = "detach"
    BY <1>6 DEF Secure
  <2>2. i > n /\ i - n \in 1..Len(r) /\ r[i - n] = "remove"
    BY <1>2, <1>6, <2>1
  <2>3. j - n \in 1..(k - n) /\ (j - n) + n = j /\ i - n < j - n
    BY <1>1, <2>1, <2>2
  <2>4. r[j - n] = "detach"
    BY <1>1, <2>1, <2>3
  <2> QED
    BY <1>1, <2>2, <2>3, <2>4 DEF Secure
<1>7. ASSUME "register" \notin done, Preceded(s) PROVE Preceded(r)
  <2> SUFFICES ASSUME NEW i \in 1..Len(r), r[i] \in {"dial", "setup", "read"}
               PROVE  \E j \in 1..(i - 1) : r[j] = "register"
    BY DEF Preceded
  <2>1. i + n \in 1..k /\ s[i + n] \in {"dial", "setup", "read"}
    BY <1>1
  <2>2. PICK j \in 1..((i + n) - 1) : s[j] = "register"
    BY <1>7, <2>1 DEF Preceded
  <2>3. j \in 1..k
    BY <1>1, <2>1
  <2>4. j > n /\ j - n \in 1..Len(r) /\ r[j - n] = "register"
    BY <1>2, <1>7, <2>2, <2>3
  <2>5. j - n \in 1..(i - 1)
    BY <1>1, <2>4
  <2> QED
    BY <2>4, <2>5
<1> QED
  BY <1>3, <1>4, <1>5, <1>6, <1>7 DEF Carries, r

\* Nothing before the session is in the table needs it there.
LEMMA JoinPreceded ==
    ASSUME NEW p \in Steps, NEW r \in Steps, Preceded(r),
           \A i \in 1..Len(p) : p[i] \notin {"dial", "setup", "read"}
    PROVE  Preceded(p \o r)
<1> DEFINE t == p \o r
           m == Len(p)
           k == Len(r)
<1>1. /\ Len(t) = m + k /\ m \in Nat /\ k \in Nat
      /\ \A i \in 1..m : t[i] = p[i]
      /\ \A i \in 1..k : t[m + i] = r[i]
  BY JoinFacts
<1> HIDE DEF t
<1> SUFFICES ASSUME NEW i \in 1..Len(t), t[i] \in {"dial", "setup", "read"}
             PROVE  \E j \in 1..(i - 1) : t[j] = "register"
  BY DEF Preceded, t
<1>2. i \notin 1..m
  BY <1>1
<1>3. i - m \in 1..k /\ m + (i - m) = i
  BY <1>1, <1>2
<1>4. r[i - m] \in {"dial", "setup", "read"}
  BY <1>1, <1>3
<1>5. PICK j \in 1..((i - m) - 1) : r[j] = "register"
  BY <1>3, <1>4 DEF Preceded
<1>6. j \in 1..k /\ m + j \in 1..(i - 1)
  BY <1>1, <1>3
<1> QED
  BY <1>1, <1>5, <1>6

LEMMA JoinCarries ==
    ASSUME NEW g, g # "hook", NEW s, NEW p, Simple(p), NEW r, NEW done,
           Carries(g, s, r, done), ~Has(r, "reject")
    PROVE  Carries(g, s, p \o r, done)
<1> DEFINE t == p \o r
           m == Len(p)
           k == Len(r)
<1>1. /\ t \in Steps /\ Len(t) = m + k /\ m \in Nat /\ k \in Nat
      /\ \A i \in 1..m : t[i] = p[i]
      /\ \A i \in 1..k : t[m + i] = r[i]
  BY JoinFacts DEF Simple, Plan, Carries
<1>2. Plan(g, t)
  BY JoinPlan DEF Carries
<1>3. \A x : Has(t, x) <=> Has(p, x) \/ Has(r, x)
  BY JoinHas DEF Simple, Plan, Carries
<1>4. ~Has(p, "make") /\ ~Has(p, "reject")
  BY DEF Simple, Has, Common
<1> HIDE DEF t
<1>5. ASSUME Secure(r) PROVE Secure(t)
  <2>1. PICK i \in 1..k, j \in 1..k : i < j /\ r[i] = "remove" /\ r[j] = "detach"
    BY <1>5 DEF Secure
  <2>2. m + i \in 1..(m + k) /\ m + j \in 1..(m + k) /\ m + i < m + j
    BY <1>1, <2>1
  <2> QED
    BY <1>1, <2>1, <2>2 DEF Secure
<1>6. ASSUME Preceded(r) PROVE Preceded(t)
  BY <1>6, JoinPreceded DEF Simple, Common, Carries, Plan, t
<1> QED
  BY <1>2, <1>3, <1>4, <1>5, <1>6 DEF Carries, t

\* The plans of the callbacks.
LEMMA SimplePlans ==
    /\ Simple(<<>>) /\ Simple(<<"finish">>) /\ Simple(<<"start">>) /\ Simple(<<"arm">>)
    /\ Simple(<<"unlist">>) /\ Simple(<<"unlock">>) /\ Simple(<<"ifActive">>)
    /\ Simple(StopRecording) /\ Simple(removeCall) /\ Simple(startRecordingIfArmed)
    /\ Simple(EndedPlan) /\ \A s : Simple(OnStateChange(s))
<1>1. Simple(<<>>)
  BY DEF Simple, Steps, Follows
<1>0. ASSUME NEW p \in Steps, \A i \in 1..Len(p) : p[i] \in Common \ {"ifArmed", "ifNone"}
      PROVE  Simple(p)
  <2>1. ASSUME NEW i \in 1..Len(p)
        PROVE  p[i] \notin {"ifArmed", "ifNone", "find", "drain", "reject", "make"}
    BY <1>0 DEF Common
  <2>2. Follows(p)
    BY <2>1 DEF Follows, FollowsAt
  <2> QED
    BY <1>0, <2>2 DEF Simple
<1>2. ASSUME NEW x \in Common \ {"ifArmed", "ifNone"} PROVE Simple(<<x>>)
  <2>1. x \in Names
    BY DEF Names
  <2>2. <<x>> \in Steps /\ Len(<<x>>) = 1 /\ <<x>>[1] = x
    BY <2>1 DEF Steps
  <2> QED
    BY <1>0, <2>2
<1>3. /\ Simple(<<"finish">>) /\ Simple(<<"start">>) /\ Simple(<<"arm">>) /\ Simple(<<"unlist">>)
      /\ Simple(<<"list">>) /\ Simple(<<"unlock">>) /\ Simple(<<"ifActive">>)
  BY <1>2 DEF Common
<1>4. Simple(StopRecording)
  <2>1. /\ StopRecording \in Steps /\ Len(StopRecording) = 2
        /\ StopRecording[1] = "disarm" /\ StopRecording[2] = "take"
    BY DEF StopRecording, Steps, Names, Common
  <2> QED
    BY <1>0, <2>1 DEF Common
<1>5. Simple(<<"detach", "remove">>)
  <2>1. <<"detach", "remove">> \in Steps
    BY DEF Steps, Names, Common
  <2>2. \A i \in 1..2 : <<"detach", "remove">>[i] \in Common \ {"ifArmed", "ifNone"}
    BY DEF Common
  <2>3. Len(<<"detach", "remove">>) = 2
    OBVIOUS
  <2> QED
    BY <1>0, <2>1, <2>2, <2>3
<1>6. Simple(startRecordingIfArmed)
  <2>1. /\ startRecordingIfArmed \in Steps /\ Len(startRecordingIfArmed) = 3
        /\ startRecordingIfArmed[1] = "ifArmed" /\ startRecordingIfArmed[2] = "ifNone"
        /\ startRecordingIfArmed[3] = "start"
    BY DEF startRecordingIfArmed, Steps, Names, Common
  <2>2. \A i \in 1..3 : i = 1 \/ i = 2 \/ i = 3
    OBVIOUS
  <2>3. Follows(startRecordingIfArmed)
    BY <2>1, <2>2 DEF Follows, FollowsAt
  <2> QED
    BY <2>1, <2>2, <2>3 DEF Simple, Common
<1>7. Simple(removeCall)
  BY <1>4, <1>5, JoinSimple DEF removeCall
<1>8. Simple(EndedPlan)
  BY <1>3, <1>4, <1>7, JoinSimple DEF EndedPlan
<1>9. ASSUME NEW s PROVE Simple(OnStateChange(s))
  <2>1. CASE s = "ended"
    <3>1. OnStateChange(s) = (removeCall \o <<"unlist">>) \o <<"unlock">>
      BY <2>1 DEF OnStateChange
    <3> QED
      BY <1>3, <1>7, <3>1, JoinSimple
  <2>2. CASE s = "active"
    <3>1. OnStateChange(s) = (startRecordingIfArmed \o <<"list">>) \o <<"unlock">>
      BY <2>2 DEF OnStateChange
    <3> QED
      BY <1>3, <1>6, <3>1, JoinSimple
  <2>3. CASE s \notin {"active", "ended"}
    <3>1. OnStateChange(s) = (<<>> \o <<"list">>) \o <<"unlock">>
      BY <2>3 DEF OnStateChange
    <3> QED
      BY <1>1, <1>3, <3>1, JoinSimple
  <2> QED
    BY <2>1, <2>2, <2>3
<1> QED
  BY <1>1, <1>3, <1>4, <1>6, <1>7, <1>8, <1>9

LEMMA SimplePlan ==
    ASSUME NEW g, g # "hook", NEW p, Simple(p)
    PROVE  Plan(g, p)
BY DEF Simple, Plan, RejectFirst, MakeOnce, May, Common

\* Plans without steps that ask for others.
Plain(g, p) ==
    /\ p \in Steps
    /\ \A i \in 1..Len(p) :
        May(g, p[i]) /\ p[i] \notin {"ifArmed", "ifNone", "find", "drain", "reject", "make"}

LEMMA PlainPlan ==
    ASSUME NEW g, NEW p, Plain(g, p)
    PROVE  Plan(g, p)
BY DEF Plain, Plan, Follows, FollowsAt, RejectFirst, MakeOnce

LEMMA JoinPlain ==
    ASSUME NEW g, NEW p, NEW r, Plain(g, p), Plain(g, r)
    PROVE  Plain(g, p \o r)
<1>1. /\ p \o r \in Steps /\ Len(p \o r) = Len(p) + Len(r)
      /\ Len(p) \in Nat /\ Len(r) \in Nat
      /\ \A i \in 1..Len(p) : (p \o r)[i] = p[i]
      /\ \A i \in 1..Len(r) : (p \o r)[Len(p) + i] = r[i]
  BY JoinFacts DEF Plain
<1>2. ASSUME NEW i \in 1..(Len(p) + Len(r)), i \notin 1..Len(p)
      PROVE  i - Len(p) \in 1..Len(r) /\ Len(p) + (i - Len(p)) = i
  BY <1>1, <1>2
<1>3. ASSUME NEW i \in 1..(Len(p) + Len(r))
      PROVE  /\ May(g, (p \o r)[i])
             /\ (p \o r)[i] \notin {"ifArmed", "ifNone", "find", "drain", "reject", "make"}
  <2>1. CASE i \in 1..Len(p)
    BY <1>1, <2>1 DEF Plain
  <2>2. CASE i \notin 1..Len(p)
    BY <1>1, <1>2, <2>2 DEF Plain
  <2> QED
    BY <2>1, <2>2
<1> QED
  BY <1>1, <1>3 DEF Plain

\* What the goroutines begin with.
LEMMA EmptyPlan == \A g : Plan(g, <<>>) /\ \A x : ~Has(<<>>, x)
<1>1. <<>> \in Steps /\ Len(<<>>) = 0 /\ 1..0 = {}
  BY DEF Steps
<1>2. PICK e \in Steps : e = <<>>
  BY <1>1
<1>3. Len(e) = 0 /\ \A i : i \notin 1..Len(e)
  BY <1>1, <1>2
<1>4. \A g : Plan(g, e)
  BY <1>3, PlainPlan DEF Plain
<1>5. \A x : ~Has(e, x)
  BY <1>3 DEF Has
<1> QED
  BY <1>2, <1>4, <1>5

LEMMA HangupPlans == Plan("hangup", <<"find", "end">>) /\ Plan("hangup", <<"end">>)
<1>1. Plain("hangup", <<"end">>)
  BY DEF Plain, Steps, Names, May
<1>2. <<"find", "end">> \in Steps
  BY DEF Steps, Names
<1>3. PICK s \in Steps : s = <<"find", "end">>
  BY <1>2
<1>4. Len(s) = 2 /\ s[1] = "find" /\ s[2] = "end"
  BY <1>3
<1>5. \A i \in 1..2 : i = 1 \/ i = 2
  OBVIOUS
<1>6. Follows(s) /\ RejectFirst(s) /\ MakeOnce(s)
  BY <1>4, <1>5 DEF Follows, FollowsAt, RejectFirst, MakeOnce
<1>7. Plan("hangup", s)
  BY <1>4, <1>5, <1>6 DEF Plan, May
<1> QED
  BY <1>1, <1>3, <1>7, PlainPlan

LEMMA SweepPlan == Plan("sweep", <<"drain", "end", "detach">>)
<1>1. <<"drain", "end", "detach">> \in Steps
  BY DEF Steps, Names, Common
<1>2. PICK s \in Steps : s = <<"drain", "end", "detach">>
  BY <1>1
<1>3. Len(s) = 3 /\ s[1] = "drain" /\ s[2] = "end" /\ s[3] = "detach"
  BY <1>2
<1>4. \A i \in 1..3 : i = 1 \/ i = 2 \/ i = 3
  OBVIOUS
<1>5. Follows(s) /\ RejectFirst(s) /\ MakeOnce(s)
  BY <1>3, <1>4 DEF Follows, FollowsAt, RejectFirst, MakeOnce
<1>6. Plan("sweep", s)
  BY <1>3, <1>4, <1>5 DEF Plan, May, Common
<1> QED
  BY <1>2, <1>6

LEMMA AttachPlans ==
    ASSUME NEW l \in Legs
    PROVE  Plan(l, AttachBrowser) /\ Plan(l, AttachBrowserWS)
<1>1. /\ AttachBrowser \in Steps /\ Len(AttachBrowser) = 4
      /\ AttachBrowser[1] = "get" /\ AttachBrowser[2] = "make"
      /\ AttachBrowser[3] = "set" /\ AttachBrowser[4] = "resume"
  BY DEF AttachBrowser, Steps, Names
<1>2. /\ AttachBrowserWS \in Steps /\ Len(AttachBrowserWS) = 4
      /\ AttachBrowserWS[1] = "make" /\ AttachBrowserWS[2] = "get"
      /\ AttachBrowserWS[3] = "set" /\ AttachBrowserWS[4] = "resume"
  BY DEF AttachBrowserWS, Steps, Names
<1>3. \A i \in 1..4 : i = 1 \/ i = 2 \/ i = 3 \/ i = 4
  OBVIOUS
<1>4. 3 \in (1 + 1)..4 /\ 3 \in (2 + 1)..4
  OBVIOUS
<1>5. Follows(AttachBrowser) /\ Follows(AttachBrowserWS)
  BY <1>1, <1>2, <1>3, <1>4 DEF Follows, FollowsAt
<1>6. /\ RejectFirst(AttachBrowser) /\ MakeOnce(AttachBrowser)
      /\ RejectFirst(AttachBrowserWS) /\ MakeOnce(AttachBrowserWS)
  BY <1>1, <1>2, <1>3 DEF RejectFirst, MakeOnce
<1> QED
  BY <1>1, <1>2, <1>3, <1>5, <1>6 DEF Plan, May

LEMMA HasEnd ==
    /\ Has(removeCall, "detach")
    /\ Has(OnStateChange("ended"), "remove") /\ Has(OnStateChange("ended"), "detach")
    /\ Has(EndedPlan, "detach")
    /\ Has(removeCall \o <<"unlist">>, "detach")
<1>1. Has(<<"detach", "remove">>, "detach") /\ Has(<<"detach", "remove">>, "remove")
  <2>1. /\ Len(<<"detach", "remove">>) = 2 /\ 1 \in 1..2 /\ 2 \in 1..2
        /\ <<"detach", "remove">>[1] = "detach" /\ <<"detach", "remove">>[2] = "remove"
    OBVIOUS
  <2> QED
    BY <2>1 DEF Has
<1>2. /\ StopRecording \in Steps /\ <<"detach", "remove">> \in Steps /\ removeCall \in Steps
      /\ <<"unlist">> \in Steps /\ <<"unlock">> \in Steps
  <2>1. /\ <<"detach", "remove">> \in Steps
        /\ <<"unlist">> \in Steps /\ <<"unlock">> \in Steps
    BY DEF Steps, Names, Common
  <2> QED
    BY <2>1, SimplePlans DEF Simple
<1>3. Has(removeCall, "detach") /\ Has(removeCall, "remove")
  BY <1>1, <1>2, JoinHas DEF removeCall
<1>4. OnStateChange("ended") = (removeCall \o <<"unlist">>) \o <<"unlock">>
  BY DEF OnStateChange
<1>5. /\ Has(removeCall \o <<"unlist">>, "detach") /\ Has(removeCall \o <<"unlist">>, "remove")
      /\ removeCall \o <<"unlist">> \in Steps
  BY <1>2, <1>3, JoinHas, JoinFacts
<1>6. EndedPlan = (StopRecording \o removeCall) \o <<"unlist">>
  BY DEF EndedPlan
<1>7. Has(StopRecording \o removeCall, "detach") /\ StopRecording \o removeCall \in Steps
  BY <1>2, <1>3, JoinHas, JoinFacts
<1>8. Has(EndedPlan, "detach")
  BY <1>2, <1>6, <1>7, JoinHas
<1>9. Has(OnStateChange("ended"), "remove") /\ Has(OnStateChange("ended"), "detach")
  <2>1. ASSUME NEW q \in Steps, NEW x, Has(q, x) PROVE Has(q \o <<"unlock">>, x)
    BY <1>2, <2>1, JoinHas
  <2>2. /\ Has((removeCall \o <<"unlist">>) \o <<"unlock">>, "remove")
        /\ Has((removeCall \o <<"unlist">>) \o <<"unlock">>, "detach")
    BY <1>5, <2>1
  <2> QED
    BY <1>4, <2>2
<1> QED
  BY <1>3, <1>5, <1>8, <1>9

LEMMA HttpPlans ==
    ASSUME NEW x \in {"end", "reject"}
    PROVE  Plan("http", <<"find", x>> \o removeCall \o <<"unlist">>)
<1>0. "find" \in Names /\ x \in Names
  BY DEF Names
<1>1. PICK p \in Steps : p = <<"find", x>>
  <2>1. <<"find", x>> \in Steps
    BY <1>0 DEF Steps
  <2> QED
    BY <2>1
<1>2. Len(p) = 2 /\ p[1] = "find" /\ p[2] = x
  BY <1>1
<1>3. <<"unlist">> \in Steps /\ removeCall \in Steps /\ Simple(<<"unlist">>)
  BY SimplePlans DEF Simple
<1>4. PICK r : r = removeCall \o <<"unlist">>
  OBVIOUS
<1>5. Simple(r) /\ Has(r, "detach")
  BY <1>3, <1>4, SimplePlans, JoinSimple, HasEnd
<1>6. p \o removeCall \o <<"unlist">> = p \o r
  BY <1>3, <1>4, ConcatAssociative DEF Steps
<1>7. PICK s : s = p \o r
  OBVIOUS
<1>8. /\ s \in Steps /\ Len(s) = 2 + Len(r) /\ Len(r) \in Nat
      /\ \A i \in 1..2 : s[i] = p[i]
      /\ \A i \in 1..Len(r) : s[2 + i] = r[i]
  <2>1. /\ s \in Steps /\ Len(s) = Len(p) + Len(r) /\ Len(r) \in Nat
        /\ \A i \in 1..Len(p) : s[i] = p[i]
        /\ \A i \in 1..Len(r) : s[Len(p) + i] = r[i]
    BY <1>5, <1>7, JoinFacts DEF Simple
  <2> QED
    BY <1>2, <2>1
<1>9. s[1] = "find" /\ s[2] = x
  BY <1>2, <1>8
<1>10. \A i \in 1..2 : i = 1 \/ i = 2
  OBVIOUS
<1>11. FollowsAt(s, 1)
  BY <1>8, <1>9 DEF FollowsAt
<1>12. FollowsAt(s, 2)
  <2>1. PICK j \in 1..Len(r) : r[j] = "detach"
    BY <1>5 DEF Has
  <2>2. 2 + j \in (2 + 1)..Len(s) /\ s[2 + j] = "detach"
    BY <1>8, <2>1
  <2> QED
    BY <1>9, <2>2 DEF FollowsAt
<1>13. Follows(s)
  BY <1>2, <1>5, <1>7, <1>10, <1>11, <1>12, JoinFollows DEF Simple
<1>14. ASSUME NEW i \in 1..Len(s), i # 1, i # 2 PROVE s[i] \in Common
  <2>1. i - 2 \in 1..Len(r) /\ 2 + (i - 2) = i
    BY <1>8, <1>14
  <2> QED
    BY <1>5, <1>8, <2>1 DEF Simple
<1>15. RejectFirst(s) /\ MakeOnce(s)
  BY <1>9, <1>14 DEF RejectFirst, MakeOnce, Common
<1>16. \A i \in 1..Len(s) : May("http", s[i])
  BY <1>9, <1>14 DEF May
<1>17. Plan("http", s)
  BY <1>8, <1>13, <1>15, <1>16 DEF Plan
<1> QED
  BY <1>1, <1>6, <1>7, <1>17

-----------------------------------------------------------------------------
(* Steps of goroutines.                                                    *)

\* Goroutine g has done the steps of done; the broker's hook may have been started.
Moves(g, done) ==
    /\ DOMAIN todo' = Goroutines
    /\ Carries(g, todo[g], todo'[g], done)
    /\ Plan("hook", todo'["hook"])
    /\ \A h \in Goroutines \ {g, "hook"} : todo'[h] = todo[h]

LEMMA GoroutineFacts ==
    /\ Workers \subseteq Goroutines /\ Legs \subseteq Goroutines /\ Enders \subseteq Workers
    /\ \A l \in Legs : l \notin Workers
BY LegsAssumption DEF Goroutines, Workers, Enders

LEMMA MovesPlans ==
    ASSUME PlansInv, NEW g \in Goroutines, NEW done, Moves(g, done)
    PROVE  PlansInv'
<1>1. ASSUME NEW h \in Goroutines PROVE Plan(h, todo'[h])
  BY DEF Moves, Carries, PlansInv
<1> QED
  BY <1>1 DEF PlansInv, Moves

LEMMA AtFacts ==
    ASSUME PlansInv, NEW g \in Goroutines, NEW x, At(g, x)
    PROVE  /\ 1 \in 1..Len(todo[g]) /\ todo[g][1] = x /\ Tail(todo[g]) = After(todo[g], 1)
           /\ FollowsAt(todo[g], 1) /\ May(g, x) /\ todo[g] # <<>>
<1>1. todo[g] \in Seq(Names) /\ todo[g] # <<>>
  BY DEF PlansInv, Plan, Steps, At
<1>2. Len(todo[g]) \in Nat /\ Len(todo[g]) # 0
  BY <1>1, EmptySeq, LenProperties
<1>3. Head(todo[g]) = todo[g][1]
  BY <1>1
<1>4. Tail(todo[g]) = SubSeq(todo[g], 2, Len(todo[g]))
  BY <1>1, TailIsSubSeq
<1>5. 1 \in 1..Len(todo[g]) /\ 1 + 1 = 2
  BY <1>2
<1>6. FollowsAt(todo[g], 1) /\ May(g, todo[g][1])
  BY <1>5 DEF PlansInv, Plan, Follows, FollowsAt
<1> QED
  BY <1>1, <1>3, <1>4, <1>5, <1>6 DEF At, After

\* What one goroutine does leaves the others' plans alone.
LEMMA OneMoves ==
    ASSUME PlansInv, NEW g \in Goroutines, NEW done, NEW t,
           todo' = [todo EXCEPT ![g] = t], Carries(g, todo[g], t, done)
    PROVE  Moves(g, done) /\ todo'[g] = t
<1>1. "hook" \in Goroutines
  BY GoroutineFacts DEF Workers
<1>2. DOMAIN todo' = Goroutines /\ todo'[g] = t /\ \A h \in Goroutines \ {g} : todo'[h] = todo[h]
  BY DEF PlansInv
<1>3. Plan("hook", todo'["hook"])
  BY <1>1, <1>2 DEF PlansInv, Carries
<1> QED
  BY <1>2, <1>3 DEF Moves

LEMMA ThenMoves ==
    ASSUME PlansInv, NEW g \in Goroutines, NEW x, At(g, x), NEW p, Simple(p), Then(g, p),
           p = <<>> \/ (g # "hook" /\ x # "find")
    PROVE  /\ Moves(g, {x})
           /\ todo'[g] = p \o After(todo[g], 1) /\ After(todo[g], 1) \in Steps
           /\ x # "find" => ~Has(After(todo[g], 1), "reject")
<1> DEFINE s == todo[g]
           r == After(s, 1)
<1>1. 1 \in 1..Len(s) /\ s[1] = x /\ Tail(s) = r /\ Plan(g, s)
  BY AtFacts DEF PlansInv
<1>2. todo' = [todo EXCEPT ![g] = p \o r]
  BY <1>1 DEF Then
<1>3. \A i \in 1..1 : s[i] \in {x}
  BY <1>1
<1>4. Carries(g, s, r, {x})
  BY <1>1, <1>3, AfterCarries
<1>5. r \in Steps /\ Len(r) = Len(s) - 1 /\ Len(s) \in Nat /\ \A i \in 1..(Len(s) - 1) : r[i] = s[i + 1]
  BY <1>1, AfterFacts DEF Plan
<1>6. ASSUME x # "find" PROVE ~Has(r, "reject")
  <2> SUFFICES ASSUME NEW i \in 1..(Len(s) - 1), r[i] = "reject" PROVE FALSE
    BY <1>5 DEF Has
  <2>1. i + 1 \in 1..Len(s) /\ i + 1 # 1 /\ s[i + 1] = "reject"
    BY <1>5
  <2> QED
    BY <1>1, <1>6, <2>1 DEF Plan, RejectFirst
<1>7. Carries(g, s, p \o r, {x})
  <2>1. CASE p = <<>>
    <3>1. p \o r = r
      BY <1>5, <2>1, ConcatEmptySeq DEF Steps
    <3> QED
      BY <1>4, <3>1
  <2>2. CASE g # "hook" /\ x # "find"
    BY <1>4, <1>6, <2>2, JoinCarries
  <2> QED
    BY <2>1, <2>2
<1> HIDE DEF r
<1>8. Moves(g, {x}) /\ todo'[g] = p \o r
  BY <1>2, <1>7, OneMoves
<1> QED
  BY <1>5, <1>6, <1>8 DEF r

LEMMA SkipMoves ==
    ASSUME PlansInv, NEW g \in Goroutines, NEW n \in 1..Len(todo[g]), NEW done, Skip(g, n),
           \A i \in 1..n : todo[g][i] \in done
    PROVE  Moves(g, done) /\ todo'[g] = After(todo[g], n)
<1>1. Plan(g, todo[g])
  BY DEF PlansInv
<1>2. Carries(g, todo[g], After(todo[g], n), done)
  BY <1>1, AfterCarries
<1>3. todo' = [todo EXCEPT ![g] = After(todo[g], n)]
  BY DEF Skip, After
<1> QED
  BY <1>2, <1>3, OneMoves

LEMMA QuitMoves ==
    ASSUME PlansInv, NEW g \in Goroutines, Quit(g)
    PROVE  Moves(g, {"set", "detach", "remove"}) /\ todo'[g] = <<>>
<1>1. PICK e : e = <<>>
  OBVIOUS
<1>2. Plan(g, e) /\ \A x : ~Has(e, x)
  BY <1>1, EmptyPlan
<1>3. Preceded(e)
  BY <1>2 DEF Preceded, Has
<1>4. Carries(g, todo[g], e, {"set", "detach", "remove"})
  BY <1>2, <1>3 DEF Carries
<1>5. todo' = [todo EXCEPT ![g] = e]
  BY <1>1 DEF Quit
<1> QED
  BY <1>1, <1>4, <1>5, OneMoves

LEMMA StartMoves ==
    ASSUME PlansInv, NEW g \in Goroutines, NEW t, Plan(g, t), Resting(g),
           todo' = [todo EXCEPT ![g] = t]
    PROVE  Moves(g, {"register"}) /\ todo'[g] = t
<1>1. \A x : ~Has(todo[g], x)
  BY EmptyPlan DEF Resting
<1>2. ~Secure(todo[g])
  BY <1>1 DEF Secure, Has
<1>3. Carries(g, todo[g], t, {"register"})
  BY <1>1, <1>2 DEF Carries, Resting
<1> QED
  BY <1>3, OneMoves

\* The plans of the Gemini session and of the broker's hook.
LEMMA AiPlans ==
    ASSUME NEW s \in {<<>>, handleStartAICall, handleIncomingCallAI}
    PROVE  Plan("ai", s) /\ Preceded(s)
<1>1. CASE s = <<>>
  <2>1. Plan("ai", s) /\ ~Has(s, "dial") /\ ~Has(s, "setup") /\ ~Has(s, "read")
    BY <1>1, EmptyPlan
  <2> QED
    BY <2>1 DEF Has, Preceded
<1>2. CASE s = handleStartAICall
  <2>1. <<"poll">> \in Steps /\ Len(<<"poll">>) = 1 /\ <<"poll">>[1] = "poll"
    BY DEF Steps, Names
  <2>2. s \in Steps /\ Len(s) = 1 /\ s[1] = "poll"
    BY <1>2, <2>1 DEF handleStartAICall
  <2>3. Plain("ai", s)
    BY <2>2 DEF Plain, May
  <2> QED
    BY <2>2, <2>3, PlainPlan DEF Preceded
<1>3. CASE s = handleIncomingCallAI
  <2>1. /\ <<"accept", "poll">> \in Steps /\ Len(<<"accept", "poll">>) = 2
        /\ <<"accept", "poll">>[1] = "accept" /\ <<"accept", "poll">>[2] = "poll"
    BY DEF Steps, Names
  <2>2. s \in Steps /\ Len(s) = 2 /\ s[1] = "accept" /\ s[2] = "poll"
    BY <1>3, <2>1 DEF handleIncomingCallAI
  <2>3. \A i \in 1..2 : i = 1 \/ i = 2
    OBVIOUS
  <2>4. Plain("ai", s)
    BY <2>2, <2>3 DEF Plain, May
  <2> QED
    BY <2>2, <2>3, <2>4, PlainPlan DEF Preceded
<1> QED
  BY <1>1, <1>2, <1>3

LEMMA PollPlan ==
    ASSUME NEW record \in BOOLEAN, NEW s,
           s = <<"get">> \o (IF record THEN <<"ifActive">> ELSE <<>>)
                         \o SubSeq(attachGeminiOnConnect, 3, 6)
    PROVE  Plan("ai", s) /\ Preceded(s)
<1>1. PICK a \in Steps : a = attachGeminiOnConnect
  <2>1. attachGeminiOnConnect \in Steps
    BY DEF attachGeminiOnConnect, Steps, Names
  <2> QED
    BY <2>1
<1>2. /\ Len(a) = 6 /\ a[3] = "register" /\ a[4] = "dial" /\ a[5] = "setup" /\ a[6] = "read"
  BY <1>1 DEF attachGeminiOnConnect
<1>3. PICK q : q = SubSeq(attachGeminiOnConnect, 3, 6)
  OBVIOUS
<1>4. /\ q \in Steps /\ Len(q) = 4
      /\ q[1] = "register" /\ q[2] = "dial" /\ q[3] = "setup" /\ q[4] = "read"
  <2>1. a \in Seq(Names) /\ \A i \in 3..6 : a[i] \in Names
    BY <1>2 DEF Steps, Names
  <2>2. /\ SubSeq(a, 3, 6) \in Seq(Names)
        /\ Len(SubSeq(a, 3, 6)) = IF 3 <= 6 THEN 6 - 3 + 1 ELSE 0
        /\ \A i \in 1..(6 - 3 + 1) : SubSeq(a, 3, 6)[i] = a[3 + i - 1]
    BY <2>1, SubSeqProperties
  <2>3. q \in Steps /\ Len(q) = 4 /\ \A i \in 1..4 : q[i] = a[3 + i - 1]
    BY <1>1, <1>3, <2>2 DEF Steps
  <2> QED
    BY <1>2, <2>3
<1>5. \A i \in 1..4 : i = 1 \/ i = 2 \/ i = 3 \/ i = 4
  OBVIOUS
<1>6. Plain("ai", q)
  BY <1>4, <1>5 DEF Plain, May
<1>7. Preceded(q)
  <2>1. 1 \in 1..(2 - 1) /\ 1 \in 1..(3 - 1) /\ 1 \in 1..(4 - 1)
    OBVIOUS
  <2> QED
    BY <1>4, <1>5, <2>1 DEF Preceded
<1>8. PICK b : b = IF record THEN <<"ifActive">> ELSE <<>>
  OBVIOUS
<1>9. Simple(b) /\ Len(b) \in Nat /\ \A i \in 1..Len(b) : b[i] = "ifActive"
  <2>1. Simple(b)
    BY <1>8, SimplePlans
  <2>2. <<"ifActive">>[1] = "ifActive" /\ Len(<<"ifActive">>) = 1
    OBVIOUS
  <2>3. b = <<>> => Len(b) = 0
    OBVIOUS
  <2>4. b = <<>> \/ b = <<"ifActive">>
    BY <1>8
  <2> QED
    BY <2>1, <2>2, <2>3, <2>4
<1>10. Plain("ai", b)
  BY <1>9 DEF Plain, Simple, May, Common
<1>11. PICK c : c = <<"get">>
  OBVIOUS
<1>12. Plain("ai", c) /\ Len(c) = 1 /\ c[1] = "get"
  <2>1. <<"get">> \in Steps /\ Len(<<"get">>) = 1 /\ <<"get">>[1] = "get"
    BY DEF Steps, Names
  <2>2. c \in Steps /\ Len(c) = 1 /\ c[1] = "get"
    BY <1>11, <2>1
  <2> QED
    BY <2>2 DEF Plain, May
<1>13. s = (c \o b) \o q
  BY <1>3, <1>8, <1>11
<1>14. Plain("ai", c \o b) /\ Plain("ai", (c \o b) \o q)
  BY <1>6, <1>10, <1>12, JoinPlain
<1>15. ASSUME NEW i \in 1..Len(c \o b) PROVE (c \o b)[i] \notin {"dial", "setup", "read"}
  <2>1. /\ Len(c \o b) = Len(c) + Len(b)
        /\ \A k \in 1..Len(c) : (c \o b)[k] = c[k]
        /\ \A k \in 1..Len(b) : (c \o b)[Len(c) + k] = b[k]
    BY <1>10, <1>12, JoinFacts DEF Plain
  <2>2. i = 1 \/ (i - 1 \in 1..Len(b) /\ 1 + (i - 1) = i)
    BY <1>9, <1>12, <2>1
  <2>3. CASE i = 1
    BY <1>12, <2>1, <2>3
  <2>4. CASE i - 1 \in 1..Len(b) /\ 1 + (i - 1) = i
    <3>1. \A k \in 1..Len(b) : (c \o b)[1 + k] = b[k]
      BY <1>12, <2>1
    <3>2. (c \o b)[i] = b[i - 1] /\ b[i - 1] = "ifActive"
      BY <1>9, <2>4, <3>1
    <3> QED
      BY <3>2
  <2> QED
    BY <2>2, <2>3, <2>4
<1>16. Preceded((c \o b) \o q)
  BY <1>4, <1>7, <1>14, <1>15, JoinPreceded DEF Plain
<1> QED
  BY <1>13, <1>14, <1>16, PlainPlan

LEMMA HookPlan == Plan("hook", <<"ended">>)
<1>1. <<"ended">> \in Steps /\ Len(<<"ended">>) = 1 /\ <<"ended">>[1] = "ended"
  BY DEF Steps, Names
<1>2. PICK s \in Steps : s = <<"ended">>
  BY <1>1
<1>3. Plain("hook", s)
  BY <1>1, <1>2 DEF Plain, May
<1> QED
  BY <1>2, <1>3, PlainPlan

-----------------------------------------------------------------------------
(* What steps leave as it is.                                              *)

\* No leg is opened, and the one in the table leaves it closed.
LEMMA LinksKept ==
    ASSUME PlansInv, LinksInv, OpenInv, NEW g \in Goroutines, NEW done, Moves(g, done),
           bridges' \in Legs \cup {NoLeg},
           link' \in [Legs -> {"none", "open", "closed", "dropped"}],
           \A l \in Legs : link[l] \in {"none", "dropped"} => link'[l] = link[l],
           \A l \in Legs : link'[l] = "open" =>
                /\ link[l] = "open"
                /\ bridges = l => bridges' = l
                /\ l = g => "set" \notin done \/ bridges' = l,
           fired' \subseteq Legs, \A l \in fired' \ RTC : l \in fired \/ link'[l] = "dropped",
           g \in Legs /\ Resting(g) => link[g] = "none"
    PROVE  LinksInv' /\ OpenInv'
<1>1. ASSUME NEW l \in Legs
      PROVE  /\ Has(todo'[l], "make") => link[l] = "none"
             /\ Has(todo[l], "set") /\ (l = g => "set" \notin done) => Has(todo'[l], "set")
  <2>1. l \in Goroutines /\ l # "hook"
    BY GoroutineFacts DEF Workers
  <2>2. CASE l # g
    <3>1. todo'[l] = todo[l]
      BY <2>1, <2>2 DEF Moves
    <3> QED
      BY <3>1, <2>2 DEF LinksInv
  <2>3. CASE l = g
    BY <2>3 DEF Moves, Carries, LinksInv, Resting
  <2> QED
    BY <2>2, <2>3
<1>2. ASSUME NEW l \in fired' \ RTC PROVE link'[l] = "dropped"
  BY <1>2 DEF LinksInv, LocalCloseKeepsCall
<1>3. LinksInv'
  BY <1>1, <1>2 DEF LinksInv, LocalCloseKeepsCall
<1>4. ASSUME NEW l \in Legs, link'[l] = "open" PROVE Has(todo'[l], "set") \/ bridges' = l
  BY <1>1, <1>4 DEF OpenInv
<1> QED
  BY <1>3, <1>4 DEF OpenInv

LEMMA EndKept ==
    ASSUME PlansInv, EndInv, NEW g \in Goroutines, NEW done, Moves(g, done),
           known' => known, stage' = "ended" => stage = "ended",
           bridges' # NoLeg => bridges # NoLeg,
           g \in Enders /\ ~Has(todo[g], "reject") =>
                /\ known' => "remove" \notin done
                /\ bridges' # NoLeg => "detach" \notin done
    PROVE  EndInv'
<1>1. ASSUME NEW h \in Enders, h # g PROVE todo'[h] = todo[h]
  BY <1>1, GoroutineFacts DEF Moves, Enders
<1>2. ASSUME NEW h \in Enders, ~Has(todo[h], "reject"), Has(todo[h], "detach") \/ Secure(todo[h])
      PROVE  ~Has(todo'[h], "reject")
  <2>1. todo[h] # <<>>
    <3>1. \A x : ~Has(<<>>, x)
      BY EmptyPlan
    <3>2. ~Secure(<<>>)
      BY <3>1 DEF Secure, Has
    <3> QED
      BY <1>2, <3>1, <3>2
  <2> QED
    BY <1>1, <1>2, <2>1 DEF Moves, Carries
<1>3. ASSUME known', stage' = "ended"
      PROVE  \E h \in Enders : Secure(todo'[h]) /\ ~Has(todo'[h], "reject")
  <2>1. PICK h \in Enders : Secure(todo[h]) /\ ~Has(todo[h], "reject")
    BY <1>3 DEF EndInv, Going
  <2>2. Secure(todo'[h])
    BY <1>1, <1>3, <2>1 DEF Moves, Carries
  <2> QED
    BY <1>2, <2>1, <2>2
<1>4. ASSUME bridges' # NoLeg, stage' = "ended"
      PROVE  \E h \in Enders : Has(todo'[h], "detach") /\ ~Has(todo'[h], "reject")
  <2>1. PICK h \in Enders : Has(todo[h], "detach") /\ ~Has(todo[h], "reject")
    BY <1>4 DEF EndInv, Going
  <2>2. Has(todo'[h], "detach")
    BY <1>1, <1>4, <2>1 DEF Moves, Carries
  <2> QED
    BY <1>2, <2>1, <2>2
<1> QED
  BY <1>3, <1>4 DEF EndInv, Going

LEMMA TakesKept ==
    ASSUME PlansInv, TakesInv, NEW g \in Goroutines, NEW done, Moves(g, done),
           taken[g] = 0, UNCHANGED <<recorder, running, made, taken>>
    PROVE  TakesInv'
<1>1. ASSUME NEW h \in Goroutines, taken[h] # 0
      PROVE  h \notin {g, "hook"} /\ At(h, "finish")
  <2>1. At(h, "finish")
    BY <1>1 DEF TakesInv
  <2>2. May(h, "finish")
    BY <2>1, AtFacts
  <2>3. h # "hook"
    BY <2>2, LegsAssumption DEF May, Common, Workers
  <2> QED
    BY <1>1, <2>1, <2>3
<1>2. ASSUME NEW h \in Goroutines, taken'[h] # 0 PROVE At(h, "finish")'
  <2>1. h \in Goroutines \ {g, "hook"} /\ At(h, "finish")
    BY <1>1, <1>2
  <2>2. todo'[h] = todo[h]
    BY <2>1 DEF Moves
  <2> QED
    BY <2>1, <2>2 DEF At
<1> QED
  BY <1>2 DEF TakesInv

LEMMA AiKept ==
    ASSUME PlansInv, AiInv, NEW g \in Goroutines, NEW done, Moves(g, done),
           g = "ai" => "register" \notin done, UNCHANGED aiVars
    PROVE  AiInv'
<1>1. "ai" \in Goroutines
  BY GoroutineFacts DEF Workers
<1>2. Preceded(todo["ai"]) => Preceded(todo'["ai"])
  BY <1>1 DEF Moves, Carries
<1> QED
  BY <1>2 DEF AiInv, aiVars

LEMMA DropKept ==
    ASSUME PlansInv, DropEndsCall, NEW g \in Goroutines, NEW done, Moves(g, done),
           known' => known, stage = "ended" => stage' = "ended",
           \A l \in Legs : link'[l] = "dropped" =>
                l \in fired' \/ (link[l] = "dropped" /\ l \notin fired),
           g = "hangup" /\ (At(g, "find") \/ At(g, "end")) =>
                ~known' \/ stage' = "ended" \/ At(g, "end")'
    PROVE  DropEndsCall'
<1>1. "hangup" \in Goroutines
  BY GoroutineFacts DEF Workers
<1>2. ASSUME g # "hangup" PROVE todo'["hangup"] = todo["hangup"]
  BY <1>1, <1>2 DEF Moves
<1>3. ASSUME At("hangup", "find") \/ At("hangup", "end")
      PROVE  ~known' \/ stage' = "ended" \/ At("hangup", "find")' \/ At("hangup", "end")'
  BY <1>2, <1>3 DEF At
<1> QED
  BY <1>3 DEF DropEndsCall, Going

-----------------------------------------------------------------------------
(* Every step keeps the invariant.                                         *)

LegsInv ==
    /\ PlansInv
    /\ LinksInv /\ OpenInv /\ EndInv
    /\ TakesInv /\ AiInv
    /\ DropEndsCall

LEMMA Quiet ==
    ASSUME LegsInv, NEW g \in Goroutines, NEW done, Moves(g, done),
           taken[g] = 0, g = "ai" => "register" \notin done,
           known' => known, stage' = "ended" <=> stage = "ended",
           g \in Legs => /\ Resting(g) => link[g] = "none"
                         /\ link[g] = "open" => "set" \notin done,
           g \in Enders /\ ~Has(todo[g], "reject") =>
                "detach" \notin done /\ (known' => "remove" \notin done),
           g = "hangup" /\ (At(g, "find") \/ At(g, "end")) =>
                ~known' \/ stage' = "ended" \/ At(g, "end")',
           UNCHANGED <<legVars, recorder, running, made, taken, aiVars>>
    PROVE  LegsInv'
<1>0. PlansInv /\ LinksInv /\ OpenInv /\ EndInv /\ TakesInv /\ AiInv /\ DropEndsCall
  BY DEF LegsInv
<1>u. bridges' = bridges /\ link' = link /\ fired' = fired
  BY DEF legVars
<1>1. PlansInv'
  BY <1>0, MovesPlans
<1>2. LinksInv' /\ OpenInv'
  BY <1>0, <1>u, LinksKept DEF LinksInv
<1>3. EndInv'
  BY <1>0, <1>u, EndKept
<1>4. TakesInv'
  BY <1>0, TakesKept
<1>5. AiInv'
  BY <1>0, AiKept
<1>6. DropEndsCall'
  BY <1>0, <1>u, DropKept
<1> QED
  BY <1>1, <1>2, <1>3, <1>4, <1>5, <1>6 DEF LegsInv

LEMMA NotTaken ==
    ASSUME TakesInv, NEW g \in Goroutines,
           Resting(g) \/ (\E x : x # "finish" /\ At(g, x))
    PROVE  taken[g] = 0
BY DEF TakesInv, At, Resting

LEMMA NotHook ==
    ASSUME PlansInv, NEW g \in Goroutines, NEW x, At(g, x), x # "ended"
    PROVE  g # "hook"
<1>1. May(g, x)
  BY AtFacts
<1> QED
  BY <1>1, LegsAssumption DEF May, Workers

\* Steps that only the plan of their goroutine shows.
LEMMA QuietThen ==
    ASSUME LegsInv, NEW g \in Goroutines, NEW x, At(g, x), NEW p, Simple(p), Then(g, p),
           p = <<>> \/ x # "ended",
           x \notin {"finish", "register", "set", "detach", "remove", "find", "end"},
           known' => known, stage' = "ended" <=> stage = "ended",
           UNCHANGED <<legVars, recorder, running, made, taken, aiVars>>
    PROVE  LegsInv'
<1>1. PlansInv /\ TakesInv
  BY DEF LegsInv
<1>2. x # "ended" => g # "hook"
  BY <1>1, NotHook
<1>3. Moves(g, {x})
  BY <1>1, <1>2, ThenMoves
<1>4. taken[g] = 0
  BY <1>1, NotTaken
<1>5. ~Resting(g) /\ ~At(g, "find") /\ ~At(g, "end")
  BY DEF At, Resting
<1> QED
  BY <1>3, <1>4, <1>5, Quiet

LEMMA QuietStart ==
    ASSUME LegsInv, NEW g \in Goroutines, NEW t, Resting(g), Plan(g, t), g # "ai",
           todo' = [todo EXCEPT ![g] = t], g \in Legs => link[g] = "none",
           known' => known, stage' = "ended" <=> stage = "ended",
           UNCHANGED <<legVars, recorder, running, made, taken, aiVars>>
    PROVE  LegsInv'
<1>1. PlansInv /\ TakesInv
  BY DEF LegsInv
<1>2. Moves(g, {"register"})
  BY <1>1, StartMoves
<1>3. taken[g] = 0
  BY <1>1, NotTaken
<1>4. ~At(g, "find") /\ ~At(g, "end")
  BY DEF At, Resting
<1> QED
  BY <1>2, <1>3, <1>4, Quiet

LEMMA SmallSteps ==
    ASSUME LegsInv, NEW g \in Goroutines,
           \/ Unlock(g) \/ List(g) \/ Disarm(g) \/ Arm(g) \/ StartRecording(g)
    PROVE  LegsInv'
<1>1. Simple(<<>>) /\ Simple(<<"start">>) /\ Simple(<<"arm">>)
  BY SimplePlans
<1>2. CASE Unlock(g)
  <2>1. At(g, "unlock") /\ Then(g, <<>>)
    BY <1>2 DEF Unlock
  <2>2. UNCHANGED <<stage, known, legVars, recorder, running, made, taken, aiVars>>
    BY <1>2 DEF Unlock, recVars
  <2> QED
    BY <1>1, <2>1, <2>2, QuietThen
<1>3. CASE List(g)
  <2>1. At(g, "list") /\ Then(g, <<>>)
    BY <1>3 DEF List
  <2>2. UNCHANGED <<stage, known, legVars, recorder, running, made, taken, aiVars>>
    BY <1>3 DEF List, recVars
  <2> QED
    BY <1>1, <2>1, <2>2, QuietThen
<1>4. CASE Disarm(g)
  <2>1. At(g, "disarm") /\ Then(g, <<>>)
    BY <1>4 DEF Disarm
  <2>2. UNCHANGED <<stage, known, legVars, recorder, running, made, taken, aiVars>>
    BY <1>4 DEF Disarm
  <2> QED
    BY <1>1, <2>1, <2>2, QuietThen
<1>5. CASE Arm(g)
  <2>1. At(g, "arm") /\ Then(g, <<>>)
    BY <1>5 DEF Arm
  <2>2. UNCHANGED <<stage, known, legVars, recorder, running, made, taken, aiVars>>
    BY <1>5 DEF Arm
  <2> QED
    BY <1>1, <2>1, <2>2, QuietThen
<1>6. CASE StartRecording(g)
  <2>1. At(g, "ifActive") /\ (Then(g, <<"start">>) \/ Then(g, <<"arm">>))
    BY <1>6 DEF StartRecording
  <2>2. UNCHANGED <<stage, known, legVars, recorder, running, made, taken, aiVars>>
    BY <1>6 DEF StartRecording, recVars
  <2> QED
    BY <1>1, <2>1, <2>2, QuietThen
<1> QED
  BY <1>2, <1>3, <1>4, <1>5, <1>6

LEMMA RecordChecks ==
    ASSUME LegsInv, NEW g \in Goroutines, IfArmed(g) \/ IfNone(g)
    PROVE  LegsInv'
<1>0. PlansInv /\ TakesInv
  BY DEF LegsInv
<1>1. Simple(<<>>)
  BY SimplePlans
<1>2. UNCHANGED <<stage, known, legVars, recorder, running, made, taken, aiVars>>
  BY DEF IfArmed, IfNone, recVars
<1>3. PICK x \in {"ifArmed", "ifNone"} : At(g, x)
  BY DEF IfArmed, IfNone
<1>4. CASE Then(g, <<>>)
  BY <1>1, <1>2, <1>3, <1>4, QuietThen
<1>5. ASSUME NEW n \in 1..Len(todo[g]), Skip(g, n),
             \A i \in 1..n : todo[g][i] \in {"ifArmed", "ifNone", "start"}
      PROVE  LegsInv'
  <2>1. Moves(g, {"ifArmed", "ifNone", "start"})
    BY <1>0, <1>5, SkipMoves
  <2>2. taken[g] = 0
    BY <1>0, <1>3, NotTaken
  <2>3. ~Resting(g) /\ ~At(g, "find") /\ ~At(g, "end")
    BY <1>3 DEF At, Resting
  <2> QED
    BY <1>2, <2>1, <2>2, <2>3, Quiet
<1>6. Len(todo[g]) \in Nat
  BY <1>0, LenProperties DEF PlansInv, Plan, Steps
<1>7. CASE At(g, "ifArmed") /\ Skip(g, 3)
  <2>1. /\ 1 \in 1..Len(todo[g]) /\ todo[g][1] = "ifArmed"
        /\ 1 + 2 <= Len(todo[g]) /\ todo[g][1 + 1] = "ifNone" /\ todo[g][1 + 2] = "start"
    BY <1>0, <1>7, AtFacts DEF FollowsAt
  <2>2. 3 \in 1..Len(todo[g]) /\ todo[g][2] = "ifNone" /\ todo[g][3] = "start"
    BY <1>6, <2>1
  <2>3. \A i \in 1..3 : i = 1 \/ i = 2 \/ i = 3
    OBVIOUS
  <2>4. \A i \in 1..3 : todo[g][i] \in {"ifArmed", "ifNone", "start"}
    BY <2>1, <2>2, <2>3
  <2> QED
    BY <1>5, <1>7, <2>2, <2>4
<1>8. CASE At(g, "ifNone") /\ Skip(g, 2)
  <2>1. /\ 1 \in 1..Len(todo[g]) /\ todo[g][1] = "ifNone"
        /\ 1 + 1 <= Len(todo[g]) /\ todo[g][1 + 1] = "start"
    BY <1>0, <1>8, AtFacts DEF FollowsAt
  <2>2. 2 \in 1..Len(todo[g]) /\ todo[g][2] = "start"
    BY <1>6, <2>1
  <2>3. \A i \in 1..2 : i = 1 \/ i = 2
    OBVIOUS
  <2>4. \A i \in 1..2 : todo[g][i] \in {"ifArmed", "ifNone", "start"}
    BY <2>1, <2>2, <2>3
  <2> QED
    BY <1>5, <1>8, <2>2, <2>4
<1> QED
  BY <1>4, <1>7, <1>8 DEF IfArmed, IfNone

LEMMA UnlistStep ==
    ASSUME LegsInv, NEW g \in Goroutines, Unlist(g)
    PROVE  LegsInv'
<1>0. PlansInv /\ TakesInv
  BY DEF LegsInv
<1>1. At(g, "unlist") /\ g # "hook" /\ "hook" \in Goroutines
  BY <1>0, NotHook, GoroutineFacts DEF Unlist, Workers
<1>2. /\ 1 \in 1..Len(todo[g]) /\ todo[g][1] = "unlist" /\ Tail(todo[g]) = After(todo[g], 1)
      /\ Plan(g, todo[g]) /\ todo[g] # <<>>
  BY <1>0, <1>1, AtFacts DEF PlansInv
<1>3. Carries(g, todo[g], After(todo[g], 1), {"unlist"})
  <2>1. \A i \in 1..1 : todo[g][i] \in {"unlist"}
    BY <1>2
  <2> QED
    BY <1>2, <2>1, AfterCarries
<1>4. PICK r, e : /\ r = After(todo[g], 1)
                  /\ e = IF listed = "none" THEN todo["hook"] ELSE <<"ended">>
  OBVIOUS
<1>5. todo' = [todo EXCEPT ![g] = r, !["hook"] = e]
  BY <1>2, <1>4 DEF Unlist
<1>6. /\ DOMAIN todo' = Goroutines /\ todo'[g] = r /\ todo'["hook"] = e
      /\ \A h \in Goroutines \ {g, "hook"} : todo'[h] = todo[h]
  BY <1>0, <1>1, <1>5 DEF PlansInv
<1>7. Plan("hook", e)
  BY <1>0, <1>1, <1>4, HookPlan DEF PlansInv
<1>8. Moves(g, {"unlist"})
  BY <1>3, <1>4, <1>6, <1>7 DEF Moves
<1>9. taken[g] = 0 /\ ~Resting(g) /\ ~At(g, "find") /\ ~At(g, "end")
  BY <1>0, <1>1, NotTaken DEF At, Resting
<1>10. UNCHANGED <<stage, known, legVars, recorder, running, made, taken, aiVars>>
  BY DEF Unlist, recVars
<1> QED
  BY <1>8, <1>9, <1>10, Quiet

LEMMA FindStep ==
    ASSUME LegsInv, NEW g \in Goroutines, Find(g)
    PROVE  LegsInv'
<1>0. PlansInv /\ TakesInv
  BY DEF LegsInv
<1>1. At(g, "find") /\ UNCHANGED <<stage, known, legVars, recorder, running, made, taken, aiVars>>
  BY DEF Find, recVars
<1>2. /\ 1 \in 1..Len(todo[g]) /\ todo[g][1] = "find" /\ May(g, "find")
      /\ 1 + 1 <= Len(todo[g]) /\ todo[g][1 + 1] \in {"end", "reject"}
      /\ todo[g] \in Steps /\ todo[g] # <<>>
  BY <1>0, <1>1, AtFacts DEF FollowsAt, PlansInv, Plan
<1>3. Len(todo[g]) \in Nat
  BY <1>2, LenProperties DEF Steps
<1>4. 2 \in 1..Len(todo[g]) /\ todo[g][2] \in {"end", "reject"}
  BY <1>2, <1>3
<1>5. g \in {"http", "hangup"} /\ g \notin Legs
  BY <1>2, LegsAssumption DEF May, Common, Workers
<1>6. taken[g] = 0 /\ ~Resting(g)
  BY <1>0, <1>1, NotTaken DEF At, Resting
<1>7. CASE known /\ Then(g, <<>>)
  <2>1. Moves(g, {"find"}) /\ todo'[g] = <<>> \o After(todo[g], 1) /\ After(todo[g], 1) \in Steps
    BY <1>0, <1>1, <1>7, SimplePlans, ThenMoves
  <2>2. todo'[g] = After(todo[g], 1)
    BY <2>1, ConcatEmptySeq DEF Steps
  <2>3. Len(After(todo[g], 1)) = Len(todo[g]) - 1 /\ After(todo[g], 1)[1] = todo[g][1 + 1]
    BY <1>2, <1>3, AfterFacts
  <2>4. ASSUME g = "hangup" PROVE At(g, "end")'
    <3>1. todo[g][2] = "end"
      <4>1. May(g, todo[g][2])
        BY <1>0, <1>4 DEF PlansInv, Plan
      <4> QED
        BY <1>4, <1>5, <2>4, <4>1 DEF May, Common
    <3>2. Len(todo'[g]) # 0 /\ todo'[g][1] = "end" /\ todo'[g] \in Seq(Names)
      BY <1>3, <1>4, <2>1, <2>2, <2>3, <3>1 DEF Steps
    <3>3. todo'[g] # <<>> /\ Head(todo'[g]) = "end"
      BY <3>2
    <3> QED
      BY <3>3 DEF At
  <2> QED
    BY <1>1, <1>5, <1>6, <2>1, <2>4, Quiet
<1>8. CASE ~known /\ Skip(g, 2)
  <2>1. \A i \in 1..2 : i = 1 \/ i = 2
    OBVIOUS
  <2>2. \A i \in 1..2 : todo[g][i] \in {"find", "end", "reject"}
    BY <1>2, <1>4, <2>1
  <2>3. Moves(g, {"find", "end", "reject"})
    BY <1>0, <1>4, <1>8, <2>2, SkipMoves
  <2> QED
    BY <1>1, <1>5, <1>6, <1>8, <2>3, Quiet
<1> QED
  BY <1>7, <1>8 DEF Find

LEMMA RemoveSteps ==
    ASSUME LegsInv, NEW g \in Goroutines, Drain(g) \/ Remove(g)
    PROVE  LegsInv'
<1>0. PlansInv /\ TakesInv
  BY DEF LegsInv
<1>1. ~known' /\ UNCHANGED <<stage, legVars, recorder, running, made, taken, aiVars>>
  BY DEF Drain, Remove, recVars
<1>2. PICK x \in {"drain", "remove"} : At(g, x) /\ (Then(g, <<>>) \/ (x = "drain" /\ Skip(g, 2)))
  BY DEF Drain, Remove
<1>3. taken[g] = 0 /\ ~Resting(g) /\ ~At(g, "find") /\ ~At(g, "end")
  BY <1>0, <1>2, NotTaken DEF At, Resting
<1>4. CASE Then(g, <<>>)
  <2>1. Moves(g, {x})
    BY <1>0, <1>2, <1>4, SimplePlans, ThenMoves
  <2> QED
    BY <1>1, <1>3, <2>1, Quiet
<1>5. CASE x = "drain" /\ Skip(g, 2)
  <2>1. /\ 1 \in 1..Len(todo[g]) /\ todo[g][1] = "drain" /\ todo[g] \in Steps
        /\ 1 + 1 <= Len(todo[g]) /\ todo[g][1 + 1] = "end"
    BY <1>0, <1>2, <1>5, AtFacts DEF FollowsAt, PlansInv, Plan
  <2>2. Len(todo[g]) \in Nat
    BY <2>1, LenProperties DEF Steps
  <2>3. 2 \in 1..Len(todo[g]) /\ todo[g][2] = "end"
    BY <2>1, <2>2
  <2>4. \A i \in 1..2 : i = 1 \/ i = 2
    OBVIOUS
  <2>5. \A i \in 1..2 : todo[g][i] \in {"drain", "end"}
    BY <2>1, <2>3, <2>4
  <2>6. Moves(g, {"drain", "end"})
    BY <1>0, <1>5, <2>3, <2>5, SkipMoves
  <2> QED
    BY <1>1, <1>3, <2>6, Quiet
<1> QED
  BY <1>2, <1>4, <1>5

\* The call is removed, and what is attached is detached after that.
LEMMA JoinSecure ==
    ASSUME NEW p \in Steps, NEW r \in Steps, Has(p, "remove"), Has(r, "detach")
    PROVE  Secure(p \o r) /\ Has(p \o r, "detach")
<1>1. /\ Len(p \o r) = Len(p) + Len(r) /\ Len(p) \in Nat /\ Len(r) \in Nat
      /\ \A i \in 1..Len(p) : (p \o r)[i] = p[i]
      /\ \A i \in 1..Len(r) : (p \o r)[Len(p) + i] = r[i]
  BY JoinFacts
<1>2. PICK i \in 1..Len(p), j \in 1..Len(r) : p[i] = "remove" /\ r[j] = "detach"
  BY DEF Has
<1>3. i \in 1..(Len(p) + Len(r)) /\ Len(p) + j \in 1..(Len(p) + Len(r)) /\ i < Len(p) + j
  BY <1>1
<1>4. Secure(p \o r)
  BY <1>1, <1>2, <1>3 DEF Secure
<1> QED
  BY <1>4, JoinHas

\* Whoever ends the call takes it out of the table, and detaches after that.
LEMMA EmitEnded ==
    ASSUME LegsInv, NEW g \in Enders, NEW x, At(g, x), x \notin {"find", "finish", "register"},
           NEW after, Simple(after), Emit(g, "ended", after),
           Has(after, "detach") \/ Has(After(todo[g], 1), "detach"),
           UNCHANGED <<known, legVars, recVars, aiVars>>,
           x \notin {"set", "detach", "remove"}
    PROVE  LegsInv'
<1>0. PlansInv /\ LinksInv /\ OpenInv /\ EndInv /\ TakesInv /\ AiInv /\ DropEndsCall
  BY DEF LegsInv
<1>1. g \in Goroutines /\ g # "hook" /\ g \notin Legs /\ g # "ai"
  BY GoroutineFacts DEF Enders
<1>2. PICK o : o = OnStateChange("ended")
  OBVIOUS
<1>3. Simple(o) /\ Has(o, "remove")
  BY <1>2, SimplePlans, HasEnd
<1>4. PICK r : r = After(todo[g], 1)
  OBVIOUS
<1>5. Simple(o \o after)
  BY <1>3, JoinSimple
<1>6. Then(g, o \o after) /\ stage' = "ended"
  BY <1>2 DEF Emit
<1>7. Moves(g, {x}) /\ todo'[g] = (o \o after) \o r /\ r \in Steps /\ ~Has(r, "reject")
  BY <1>0, <1>1, <1>4, <1>5, <1>6, ThenMoves
<1>8. (o \o after) \o r = o \o (after \o r) /\ after \o r \in Steps
  BY <1>3, <1>7, ConcatAssociative, JoinFacts DEF Simple, Steps
<1>9. Has(after \o r, "detach")
  BY <1>4, <1>7, JoinHas DEF Simple
<1>10. Secure(todo'[g]) /\ Has(todo'[g], "detach")
  BY <1>3, <1>7, <1>8, <1>9, JoinSecure DEF Simple
<1>11. ~Has(todo'[g], "reject")
  <2>1. ~Has(o \o after, "reject")
    BY <1>5 DEF Simple, Has, Common
  <2> QED
    BY <1>5, <1>7, <2>1, JoinHas DEF Simple
<1>12. PlansInv'
  BY <1>0, <1>1, <1>7, MovesPlans
<1>u. bridges' = bridges /\ link' = link /\ fired' = fired
  BY DEF legVars
<1>13. LinksInv' /\ OpenInv'
  BY <1>0, <1>1, <1>7, <1>u, LinksKept DEF LinksInv
<1>14. EndInv'
  BY <1>10, <1>11 DEF EndInv
<1>15. TakesInv'
  <2>1. taken[g] = 0
    BY <1>0, <1>1, NotTaken
  <2> QED
    BY <1>0, <1>1, <1>7, <2>1, TakesKept DEF recVars
<1>16. AiInv'
  BY <1>0, <1>1, <1>7, AiKept
<1>17. DropEndsCall'
  BY <1>6 DEF DropEndsCall, Going
<1> QED
  BY <1>12, <1>13, <1>14, <1>15, <1>16, <1>17 DEF LegsInv

LEMMA EndStep ==
    ASSUME LegsInv, NEW g \in Goroutines, End(g)
    PROVE  LegsInv'
<1>0. PlansInv /\ TakesInv
  BY DEF LegsInv
<1>1. At(g, "end") /\ UNCHANGED <<known, legVars, recVars, aiVars>>
  BY DEF End
<1>2. May(g, "end")
  BY <1>0, <1>1, AtFacts
<1>3. g \in Enders /\ g \notin Legs
  BY <1>2, LegsAssumption DEF May, Common, Workers, Enders
<1>4. CASE Going
  <2>1. Emit(g, "ended", EndedPlan)
    BY <1>4 DEF End
  <2> QED
    BY <1>1, <1>3, <2>1, SimplePlans, HasEnd, EmitEnded
<1>5. CASE ~Going
  <2>1. Then(g, <<>>) /\ stage' = stage
    BY <1>5 DEF End
  <2>2. Moves(g, {"end"})
    BY <1>0, <1>1, <2>1, SimplePlans, ThenMoves
  <2>3. taken[g] = 0 /\ ~Resting(g)
    BY <1>0, <1>1, NotTaken DEF At, Resting
  <2>4. UNCHANGED <<legVars, recorder, running, made, taken, aiVars>>
    BY <1>1 DEF recVars
  <2> QED
    BY <1>1, <1>3, <1>5, <2>1, <2>2, <2>3, <2>4, Quiet DEF Going
<1> QED
  BY <1>4, <1>5

LEMMA RejectStep ==
    ASSUME LegsInv, NEW g \in Goroutines, Reject(g)
    PROVE  LegsInv'
<1>0. PlansInv /\ TakesInv
  BY DEF LegsInv
<1>1. At(g, "reject") /\ UNCHANGED <<known, legVars, recVars, aiVars>>
  BY DEF Reject
<1>2. /\ 1 \in 1..Len(todo[g]) /\ todo[g][1] = "reject" /\ May(g, "reject") /\ todo[g] \in Steps
      /\ FollowsAt(todo[g], 1)
  BY <1>0, <1>1, AtFacts DEF PlansInv, Plan
<1>3. g \in Enders /\ g \notin Legs /\ g = "http"
  BY <1>2, LegsAssumption DEF May, Common, Workers, Enders
<1>4. CASE Emit(g, "ended", <<>>)
  <2>1. PICK j \in (1 + 1)..Len(todo[g]) : todo[g][j] = "detach"
    BY <1>2 DEF FollowsAt
  <2>2. Has(todo[g], "detach")
    <3>1. j \in 1..Len(todo[g])
      BY <1>2
    <3> QED
      BY <2>1, <3>1 DEF Has
  <2>3. \A i \in 1..1 : todo[g][i] # "detach"
    BY <1>2
  <2>4. Has(After(todo[g], 1), "detach")
    BY <1>2, <2>2, <2>3, AfterHas
  <2> QED
    BY <1>1, <1>3, <1>4, <2>4, SimplePlans, EmitEnded
<1>5. CASE Quit(g) /\ UNCHANGED stage
  <2>1. Moves(g, {"set", "detach", "remove"})
    BY <1>0, <1>5, QuitMoves
  <2>2. Has(todo[g], "reject")
    BY <1>2 DEF Has
  <2>3. taken[g] = 0 /\ ~Resting(g)
    BY <1>0, <1>1, NotTaken DEF At, Resting
  <2>4. UNCHANGED <<legVars, recorder, running, made, taken, aiVars>>
    BY <1>1 DEF recVars
  <2> QED
    BY <1>1, <1>3, <1>5, <2>1, <2>2, <2>3, <2>4, Quiet
<1> QED
  BY <1>4, <1>5 DEF Reject

\* A leg is closed: the others stay as they are, and a local close of a WebSocket fires
\* nothing.
LEMMA CloseFacts ==
    ASSUME LinksInv, NEW b \in Legs \cup {NoLeg}, Close(b)
    PROVE  /\ link' \in [Legs -> {"none", "open", "closed", "dropped"}]
           /\ \A l \in Legs : link[l] \in {"none", "dropped"} => link'[l] = link[l]
           /\ \A l \in Legs : link'[l] = "open" => link[l] = "open" /\ l # b
           /\ \A l \in Legs : link'[l] = "dropped" => link[l] = "dropped"
           /\ fired' \subseteq Legs /\ fired \subseteq fired' /\ fired' \ RTC \subseteq fired
<1>1. CASE b = NoLeg
  <2>1. link' = link /\ fired' = fired
    BY <1>1 DEF Close
  <2> QED
    BY <1>1, <2>1, LegsAssumption DEF LinksInv
<1>2. CASE b # NoLeg
  <2>1. /\ link' = [link EXCEPT ![b] = IF link[b] = "open" THEN "closed" ELSE link[b]]
        /\ fired' = IF b \in RTC THEN fired \cup {b} ELSE fired
        /\ b \in Legs
    BY <1>2 DEF Close
  <2>2. PICK c : c = IF link[b] = "open" THEN "closed" ELSE link[b]
    OBVIOUS
  <2>3. link' = [link EXCEPT ![b] = c]
    BY <2>1, <2>2
  <2>4. c \in {"none", "closed", "dropped"} /\ (link[b] # "open" => c = link[b])
        /\ (c = "dropped" => link[b] = "dropped")
    BY <2>1, <2>2 DEF LinksInv
  <2>5. \A l \in Legs : link'[l] = IF l = b THEN c ELSE link[l]
    BY <2>3 DEF LinksInv
  <2>6. link' \in [Legs -> {"none", "open", "closed", "dropped"}]
    BY <2>1, <2>3, <2>4 DEF LinksInv
  <2> QED
    BY <2>1, <2>4, <2>5, <2>6 DEF LinksInv
<1> QED
  BY <1>1, <1>2

LEMMA DetachStep ==
    ASSUME LegsInv, NEW g \in Goroutines, Detach(g)
    PROVE  LegsInv'
<1>0. PlansInv /\ LinksInv /\ OpenInv /\ EndInv /\ TakesInv /\ AiInv /\ DropEndsCall
  BY DEF LegsInv
<1>1. /\ At(g, "detach") /\ Then(g, <<>>) /\ bridges' = NoLeg /\ Close(bridges)
      /\ bridges \in Legs \cup {NoLeg}
      /\ UNCHANGED <<stage, known, recorder, running, made, taken, aiVars>>
  BY <1>0 DEF Detach, recVars, LinksInv
<1>2. Moves(g, {"detach"})
  BY <1>0, <1>1, SimplePlans, ThenMoves
<1>3. taken[g] = 0 /\ ~Resting(g) /\ ~At(g, "find") /\ ~At(g, "end")
  BY <1>0, <1>1, NotTaken DEF At, Resting
<1>4. /\ link' \in [Legs -> {"none", "open", "closed", "dropped"}]
      /\ \A l \in Legs : link[l] \in {"none", "dropped"} => link'[l] = link[l]
      /\ \A l \in Legs : link'[l] = "open" => link[l] = "open" /\ l # bridges
      /\ \A l \in Legs : link'[l] = "dropped" => link[l] = "dropped"
      /\ fired' \subseteq Legs /\ fired \subseteq fired' /\ fired' \ RTC \subseteq fired
  BY <1>0, <1>1, CloseFacts
<1>5. PlansInv'
  BY <1>0, <1>2, MovesPlans
<1>6. LinksInv' /\ OpenInv'
  BY <1>0, <1>1, <1>2, <1>3, <1>4, LinksKept
<1>7. EndInv'
  BY <1>0, <1>1, <1>2, EndKept
<1>8. TakesInv' /\ AiInv'
  BY <1>0, <1>1, <1>2, <1>3, TakesKept, AiKept
<1>9. DropEndsCall'
  BY <1>0, <1>1, <1>2, <1>3, <1>4, DropKept
<1> QED
  BY <1>5, <1>6, <1>7, <1>8, <1>9 DEF LegsInv

LEMMA SetBridgeStep ==
    ASSUME LegsInv, NEW g \in Legs, SetBridge(g)
    PROVE  LegsInv'
<1>0. PlansInv /\ LinksInv /\ OpenInv /\ EndInv /\ TakesInv /\ AiInv /\ DropEndsCall
  BY DEF LegsInv
<1>1. /\ At(g, "set") /\ Then(g, <<>>) /\ bridges \in Legs \cup {NoLeg}
      /\ UNCHANGED <<stage, known, recorder, running, made, taken, aiVars>>
  BY <1>0 DEF SetBridge, recVars, LinksInv
<1>g. g \in Goroutines /\ g \notin Enders /\ g # "hangup" /\ g # "ai" /\ g # "hook"
  BY GoroutineFacts DEF Workers
<1>2. Moves(g, {"set"})
  BY <1>0, <1>1, <1>g, SimplePlans, ThenMoves
<1>3. taken[g] = 0 /\ ~Resting(g) /\ ~At(g, "find") /\ ~At(g, "end")
  BY <1>0, <1>1, <1>g, NotTaken DEF At, Resting
<1>4. PICK b \in Legs \cup {NoLeg} :
            /\ Close(b)
            /\ \/ known /\ b = bridges /\ bridges' = g
               \/ ~known /\ b = g /\ bridges' = bridges
  BY <1>1 DEF SetBridge
<1>5. /\ link' \in [Legs -> {"none", "open", "closed", "dropped"}]
      /\ \A l \in Legs : link[l] \in {"none", "dropped"} => link'[l] = link[l]
      /\ \A l \in Legs : link'[l] = "open" => link[l] = "open" /\ l # b
      /\ \A l \in Legs : link'[l] = "dropped" => link[l] = "dropped"
      /\ fired' \subseteq Legs /\ fired \subseteq fired' /\ fired' \ RTC \subseteq fired
  BY <1>0, <1>4, CloseFacts
<1>6. PlansInv'
  BY <1>0, <1>2, <1>g, MovesPlans
<1>7. LinksInv' /\ OpenInv'
  <2>1. bridges' \in Legs \cup {NoLeg}
    BY <1>1, <1>4
  <2>2. \A l \in Legs : link'[l] = "open" =>
            /\ link[l] = "open"
            /\ bridges = l => bridges' = l
            /\ l = g => bridges' = l
    BY <1>4, <1>5
  <2> QED
    BY <1>0, <1>2, <1>3, <1>5, <1>g, <2>1, <2>2, LinksKept
<1>8. EndInv'
  <2>1. CASE ~known
    BY <1>0, <1>1, <1>2, <1>4, <1>g, <2>1, EndKept
  <2>2. CASE known
    <3>1. \A h \in Enders : todo'[h] = todo[h]
      BY <1>2, <1>g, GoroutineFacts DEF Moves, Workers, Enders
    <3>2. ASSUME stage' = "ended"
          PROVE  \E h \in Enders : Secure(todo'[h]) /\ Has(todo'[h], "detach") /\ ~Has(todo'[h], "reject")
      <4>1. PICK h \in Enders : Secure(todo[h]) /\ ~Has(todo[h], "reject")
        BY <1>0, <1>1, <2>2, <3>2 DEF EndInv, Going
      <4>2. Has(todo[h], "detach")
        BY <4>1 DEF Secure, Has
      <4> QED
        BY <3>1, <4>1, <4>2
    <3> QED
      BY <3>2 DEF EndInv, Going
  <2> QED
    BY <2>1, <2>2
<1>9. TakesInv' /\ AiInv'
  BY <1>0, <1>1, <1>2, <1>3, <1>g, TakesKept, AiKept
<1>10. DropEndsCall'
  BY <1>0, <1>1, <1>2, <1>3, <1>5, <1>g, DropKept
<1> QED
  BY <1>6, <1>7, <1>8, <1>9, <1>10 DEF LegsInv

LEMMA GetStep ==
    ASSUME LegsInv, NEW g \in Goroutines, Get(g)
    PROVE  LegsInv'
<1>0. PlansInv /\ LinksInv /\ OpenInv /\ EndInv /\ TakesInv /\ AiInv /\ DropEndsCall
  BY DEF LegsInv
<1>1. /\ At(g, "get") /\ bridges \in Legs \cup {NoLeg}
      /\ UNCHANGED <<stage, known, bridges, fired, recorder, running, made, taken, aiVars>>
  BY <1>0 DEF Get, recVars, LinksInv
<1>2. May(g, "get")
  BY <1>0, <1>1, AtFacts
<1>3. g \notin Enders /\ g # "hangup" /\ (g \in Legs \/ g = "ai")
  BY <1>2, LegsAssumption DEF May, Common, Enders, Workers
<1>4. taken[g] = 0 /\ ~Resting(g) /\ ~At(g, "find") /\ ~At(g, "end")
  BY <1>0, <1>1, NotTaken DEF At, Resting
<1>5. CASE known
  <2>1. Then(g, <<>>) /\ link' = link
    BY <1>5 DEF Get
  <2> QED
    BY <1>1, <2>1, SimplePlans, QuietThen DEF legVars
<1>6. CASE ~known
  <2>1. Moves(g, {"set", "detach", "remove"})
    BY <1>0, <1>6, QuitMoves DEF Get
  <2>2. CASE g \in Legs /\ link[g] = "open"
    <3>1. link' = [link EXCEPT ![g] = "closed"]
      BY <1>6, <2>2 DEF Get
    <3>2. /\ link' \in [Legs -> {"none", "open", "closed", "dropped"}]
          /\ \A l \in Legs : link'[l] = IF l = g THEN "closed" ELSE link[l]
      BY <1>0, <2>2, <3>1 DEF LinksInv
    <3>3. PlansInv'
      BY <1>0, <2>1, MovesPlans
    <3>4. LinksInv' /\ OpenInv'
      <4>1. fired' \subseteq Legs /\ \A l \in fired' \ RTC : l \in fired
        BY <1>0, <1>1 DEF LinksInv
      <4>2. \A l \in Legs : link[l] \in {"none", "dropped"} => link'[l] = link[l]
        BY <2>2, <3>2
      <4>3. \A l \in Legs : link'[l] = "open" =>
                link[l] = "open" /\ (bridges = l => bridges' = l) /\ l # g
        BY <1>1, <3>2
      <4> QED
        BY <1>0, <1>1, <1>4, <2>1, <3>2, <4>1, <4>2, <4>3, LinksKept
    <3>5. EndInv'
      BY <1>0, <1>1, <1>3, <2>1, EndKept
    <3>6. TakesInv' /\ AiInv'
      BY <1>0, <1>1, <1>4, <2>1, TakesKept, AiKept
    <3>7. DropEndsCall'
      BY <1>0, <1>1, <1>3, <2>1, <3>2, DropKept
    <3> QED
      BY <3>3, <3>4, <3>5, <3>6, <3>7 DEF LegsInv
  <2>3. CASE ~(g \in Legs /\ link[g] = "open")
    <3>1. link' = link
      BY <2>3 DEF Get
    <3>2. UNCHANGED legVars
      BY <1>1, <3>1 DEF legVars
    <3> QED
      BY <1>1, <1>3, <1>4, <2>1, <2>3, <3>2, Quiet
  <2> QED
    BY <2>2, <2>3
<1> QED
  BY <1>5, <1>6

LEMMA MakeStep ==
    ASSUME LegsInv, NEW g \in Legs, Make(g)
    PROVE  LegsInv'
<1>0. PlansInv /\ LinksInv /\ OpenInv /\ EndInv /\ TakesInv /\ AiInv /\ DropEndsCall
  BY DEF LegsInv
<1>1. /\ At(g, "make")
      /\ UNCHANGED <<stage, known, bridges, fired, recorder, running, made, taken, aiVars>>
  BY DEF Make, recVars
<1>g. g \in Goroutines /\ g \notin Enders /\ g # "hangup" /\ g # "ai" /\ g # "hook"
  BY GoroutineFacts DEF Workers
<1>2. /\ 1 \in 1..Len(todo[g]) /\ todo[g][1] = "make" /\ FollowsAt(todo[g], 1)
      /\ Plan(g, todo[g]) /\ todo[g] \in Steps
  BY <1>0, <1>1, <1>g, AtFacts DEF PlansInv, Plan
<1>3. Has(todo[g], "make") /\ link[g] = "none"
  BY <1>0, <1>2 DEF Has, LinksInv
<1>4. taken[g] = 0 /\ ~Resting(g) /\ ~At(g, "find") /\ ~At(g, "end")
  BY <1>0, <1>1, <1>g, NotTaken DEF At, Resting
<1>5. CASE Quit(g) /\ UNCHANGED link
  <2>1. Moves(g, {"set", "detach", "remove"})
    BY <1>0, <1>5, <1>g, QuitMoves
  <2>2. UNCHANGED legVars
    BY <1>1, <1>5 DEF legVars
  <2> QED
    BY <1>1, <1>3, <1>4, <1>g, <2>1, <2>2, Quiet
<1>6. CASE link' = [link EXCEPT ![g] = "open"] /\ Then(g, <<>>)
  <2>1. Moves(g, {"make"}) /\ todo'[g] = <<>> \o After(todo[g], 1) /\ After(todo[g], 1) \in Steps
    BY <1>0, <1>1, <1>6, <1>g, SimplePlans, ThenMoves
  <2>2. todo'[g] = After(todo[g], 1)
    BY <2>1, ConcatEmptySeq DEF Steps
  <2>3. Has(todo'[g], "set")
    <3>1. PICK j \in (1 + 1)..Len(todo[g]) : todo[g][j] = "set"
      BY <1>2 DEF FollowsAt
    <3>2. j \in 1..Len(todo[g])
      BY <1>2
    <3>3. Has(todo[g], "set")
      BY <3>1, <3>2 DEF Has
    <3> QED
      BY <2>1, <3>3 DEF Moves, Carries
  <2>4. ~Has(todo'[g], "make")
    <3>1. /\ Len(After(todo[g], 1)) = Len(todo[g]) - 1 /\ Len(todo[g]) \in Nat
          /\ \A i \in 1..(Len(todo[g]) - 1) : After(todo[g], 1)[i] = todo[g][i + 1]
      BY <1>2, AfterFacts
    <3> SUFFICES ASSUME NEW i \in 1..(Len(todo[g]) - 1), todo[g][i + 1] = "make" PROVE FALSE
      BY <2>2, <3>1 DEF Has
    <3>2. i + 1 \in 1..Len(todo[g]) /\ i + 1 # 1
      BY <3>1
    <3> QED
      BY <1>2, <3>2 DEF Plan, MakeOnce
  <2>5. \A l \in Legs : l # g => todo'[l] = todo[l]
    BY <2>1, GoroutineFacts DEF Moves, Workers
  <2>6. /\ link' \in [Legs -> {"none", "open", "closed", "dropped"}]
        /\ \A l \in Legs : link'[l] = IF l = g THEN "open" ELSE link[l]
    BY <1>0, <1>6 DEF LinksInv
  <2>7. LinksInv'
    <3>1. \A l \in Legs : Has(todo'[l], "make") => link'[l] = "none"
      BY <1>0, <2>4, <2>5, <2>6 DEF LinksInv
    <3>2. \A l \in fired' \ RTC : link'[l] = "dropped"
      BY <1>0, <1>1, <1>3, <2>6 DEF LinksInv, LocalCloseKeepsCall
    <3> QED
      BY <1>0, <1>1, <2>6, <3>1, <3>2 DEF LinksInv, LocalCloseKeepsCall
  <2>8. OpenInv'
    BY <1>0, <1>1, <2>3, <2>5, <2>6 DEF OpenInv
  <2>9. PlansInv' /\ EndInv'
    BY <1>0, <1>1, <1>g, <2>1, MovesPlans, EndKept
  <2>10. TakesInv' /\ AiInv'
    BY <1>0, <1>1, <1>4, <1>g, <2>1, TakesKept, AiKept
  <2>11. DropEndsCall'
    BY <1>0, <1>1, <1>g, <2>1, <2>6, DropKept
  <2> QED
    BY <2>7, <2>8, <2>9, <2>10, <2>11 DEF LegsInv
<1> QED
  BY <1>5, <1>6 DEF Make

LEMMA ResumeStep ==
    ASSUME LegsInv, NEW g \in Legs, Resume(g)
    PROVE  LegsInv'
<1>1. g \in Goroutines
  BY GoroutineFacts
<1>2. PICK s : s = IF stage = "on_hold" THEN "active" ELSE stage
  OBVIOUS
<1>3. At(g, "resume") /\ Then(g, OnStateChange(s) \o <<>>) /\ stage' = s
  BY <1>2 DEF Resume, Emit
<1>4. Simple(OnStateChange(s) \o <<>>)
  BY SimplePlans, JoinSimple
<1>5. stage' = "ended" <=> stage = "ended"
  BY <1>2, <1>3
<1>6. UNCHANGED <<known, legVars, recorder, running, made, taken, aiVars>>
  BY DEF Resume, recVars
<1> QED
  BY <1>1, <1>3, <1>4, <1>5, <1>6, QuietThen

LEMMA DropStep ==
    ASSUME LegsInv, NEW l \in Legs, Drop(l)
    PROVE  LegsInv'
<1>0. PlansInv /\ LinksInv /\ OpenInv /\ EndInv /\ TakesInv /\ AiInv /\ DropEndsCall
  BY DEF LegsInv
<1>1. /\ link[l] = "open" /\ link' = [link EXCEPT ![l] = "dropped"] /\ fired' = fired \cup {l}
      /\ UNCHANGED <<stage, known, todo, bridges, recVars, aiVars>>
  BY DEF Drop
<1>2. /\ link' \in [Legs -> {"none", "open", "closed", "dropped"}]
      /\ \A k \in Legs : link'[k] = IF k = l THEN "dropped" ELSE link[k]
  BY <1>0, <1>1 DEF LinksInv
<1>3. PlansInv' /\ EndInv'
  BY <1>0, <1>1 DEF PlansInv, EndInv, Going
<1>4. LinksInv'
  <2>1. \A k \in Legs : Has(todo'[k], "make") => link'[k] = "none"
    BY <1>0, <1>1, <1>2 DEF LinksInv
  <2>2. \A k \in fired' \ RTC : link'[k] = "dropped"
    BY <1>0, <1>1, <1>2 DEF LinksInv, LocalCloseKeepsCall
  <2> QED
    BY <1>0, <1>1, <1>2, <2>1, <2>2 DEF LinksInv, LocalCloseKeepsCall
<1>5. OpenInv'
  BY <1>0, <1>1, <1>2 DEF OpenInv
<1>6. TakesInv' /\ AiInv'
  BY <1>0, <1>1 DEF TakesInv, AiInv, At, recVars, aiVars
<1>7. DropEndsCall'
  BY <1>0, <1>1, <1>2 DEF DropEndsCall, Going, At
<1> QED
  BY <1>3, <1>4, <1>5, <1>6, <1>7 DEF LegsInv

LEMMA TerminalStep ==
    ASSUME LegsInv, NEW l \in Legs, TerminalICE(l)
    PROVE  LegsInv'
<1>0. PlansInv /\ LinksInv /\ OpenInv /\ EndInv /\ TakesInv /\ AiInv /\ DropEndsCall
  BY DEF LegsInv
<1>1. /\ fired' = fired \ {l} /\ Resting("hangup")
      /\ UNCHANGED <<stage, known, bridges, link, recorder, running, made, taken, aiVars>>
  BY DEF TerminalICE, Start, recVars
<1>2. "hangup" \in Goroutines /\ "hangup" \notin Legs
  BY LegsAssumption, GoroutineFacts DEF Workers
<1>3. PICK t : t = <<"find", "end">>
  OBVIOUS
<1>4. Plan("hangup", t) /\ todo' = [todo EXCEPT !["hangup"] = t]
  BY <1>3, HangupPlans DEF TerminalICE, Start
<1>5. Moves("hangup", {"register"}) /\ todo'["hangup"] = t
  BY <1>0, <1>1, <1>2, <1>4, StartMoves
<1>6. taken["hangup"] = 0 /\ ~At("hangup", "find") /\ ~At("hangup", "end")
  BY <1>0, <1>1, <1>2, NotTaken DEF At, Resting
<1>7. PlansInv' /\ EndInv'
  BY <1>0, <1>1, <1>2, <1>5, MovesPlans, EndKept
<1>8. LinksInv' /\ OpenInv'
  BY <1>0, <1>1, <1>2, <1>5, LinksKept DEF LinksInv
<1>9. TakesInv' /\ AiInv'
  BY <1>0, <1>1, <1>2, <1>5, <1>6, TakesKept, AiKept
<1>10. At("hangup", "find")'
  <2>1. t # <<>> /\ Head(t) = "find"
    BY <1>3
  <2> QED
    BY <1>5, <2>1 DEF At
<1>11. DropEndsCall'
  BY <1>10 DEF DropEndsCall
<1> QED
  BY <1>7, <1>8, <1>9, <1>11 DEF LegsInv

LEMMA AttachStep ==
    ASSUME LegsInv, NEW l \in Legs, Attach(l)
    PROVE  LegsInv'
<1>1. l \in Goroutines /\ l # "ai"
  BY GoroutineFacts DEF Workers
<1>2. PICK t : t = IF l \in RTC THEN AttachBrowser ELSE AttachBrowserWS
  OBVIOUS
<1>3. Plan(l, t)
  BY <1>2, AttachPlans
<1>4. Resting(l) /\ todo' = [todo EXCEPT ![l] = t] /\ link[l] = "none"
  BY <1>2 DEF Attach, Start
<1>5. UNCHANGED <<stage, known, legVars, recorder, running, made, taken, aiVars>>
  BY DEF Attach, others, recVars
<1> QED
  BY <1>1, <1>3, <1>4, <1>5, QuietStart

LEMMA TakeStep ==
    ASSUME LegsInv, NEW g \in Goroutines, Take(g)
    PROVE  LegsInv'
<1>0. PlansInv /\ LinksInv /\ OpenInv /\ EndInv /\ TakesInv /\ AiInv /\ DropEndsCall
  BY DEF LegsInv
<1>1. /\ At(g, "take") /\ recorder' = 0 /\ taken' = [taken EXCEPT ![g] = recorder]
      /\ UNCHANGED <<stage, known, bridges, link, fired, running, made, aiVars>>
  BY DEF Take, legVars
<1>2. PICK p : p = IF recorder = 0 THEN <<>> ELSE <<"finish">>
  OBVIOUS
<1>3. Simple(p) /\ Then(g, p)
  BY <1>2, SimplePlans DEF Take
<1>4. g # "hook"
  BY <1>0, <1>1, NotHook
<1>5. Moves(g, {"take"}) /\ todo'[g] = p \o After(todo[g], 1) /\ After(todo[g], 1) \in Steps
  <2>1. PICK x : x = "take"
    OBVIOUS
  <2>2. At(g, x) /\ x # "find"
    BY <1>1, <2>1
  <2>3. Moves(g, {x}) /\ todo'[g] = p \o After(todo[g], 1) /\ After(todo[g], 1) \in Steps
    BY <1>0, <1>3, <1>4, <2>2, ThenMoves
  <2> QED
    BY <2>1, <2>3
<1>6. taken[g] = 0 /\ ~Resting(g) /\ ~At(g, "find") /\ ~At(g, "end")
  BY <1>0, <1>1, NotTaken DEF At, Resting
<1>7. PlansInv' /\ EndInv'
  BY <1>0, <1>1, <1>5, MovesPlans, EndKept
<1>8. LinksInv' /\ OpenInv'
  BY <1>0, <1>1, <1>5, <1>6, LinksKept DEF LinksInv
<1>9. AiInv' /\ DropEndsCall'
  BY <1>0, <1>1, <1>5, <1>6, AiKept, DropKept
<1>10. \A h \in Goroutines : taken'[h] = IF h = g THEN recorder ELSE taken[h]
  BY <1>0, <1>1 DEF TakesInv
<1>11. ASSUME NEW h \in Goroutines, taken'[h] # 0 PROVE At(h, "finish")'
  <2>1. CASE h = g
    <3>1. p = <<"finish">>
      BY <1>2, <1>10, <1>11, <2>1
    <3>2. todo'[g] # <<>> /\ Head(todo'[g]) = "finish"
      BY <1>5, <3>1 DEF Steps
    <3> QED
      BY <2>1, <3>2 DEF At
  <2>2. CASE h # g
    <3>1. At(h, "finish")
      BY <1>0, <1>10, <1>11, <2>2 DEF TakesInv
    <3>2. h # "hook"
      BY <1>0, <3>1, NotHook
    <3>3. todo'[h] = todo[h]
      BY <1>5, <2>2, <3>2 DEF Moves
    <3> QED
      BY <3>1, <3>3 DEF At
  <2> QED
    BY <2>1, <2>2
<1>12. ASSUME NEW k \in running PROVE \E h \in Goroutines : k = taken'[h]
  <2>1. CASE k = recorder
    BY <1>10, <2>1
  <2>2. CASE k # recorder
    <3>1. PICK h \in Goroutines : k = taken[h]
      BY <1>0, <2>2 DEF TakesInv
    <3>2. h # g
      BY <1>0, <1>6, <1>12, <3>1 DEF TakesInv
    <3> QED
      BY <1>10, <3>1, <3>2
  <2> QED
    BY <2>1, <2>2
<1>13. TakesInv'
  <2>1. taken' \in [Goroutines -> Nat]
    BY <1>0, <1>1 DEF TakesInv
  <2> QED
    BY <1>0, <1>1, <1>11, <1>12, <2>1 DEF TakesInv
<1> QED
  BY <1>7, <1>8, <1>9, <1>13 DEF LegsInv

\* Steps that touch the recordings or the Gemini session only.
LEMMA Elsewhere ==
    ASSUME LegsInv, NEW g \in Goroutines, NEW done, Moves(g, done), ~Resting(g),
           ~At(g, "find"), ~At(g, "end"), g \in Enders \/ g \in Legs => done \cap {"set", "detach", "remove"} = {},
           UNCHANGED <<stage, known, legVars>>
    PROVE  PlansInv' /\ LinksInv' /\ OpenInv' /\ EndInv' /\ DropEndsCall'
<1>0. PlansInv /\ LinksInv /\ OpenInv /\ EndInv /\ DropEndsCall
  BY DEF LegsInv
<1>u. bridges' = bridges /\ link' = link /\ fired' = fired
  BY DEF legVars
<1>1. PlansInv' /\ EndInv'
  BY <1>0, <1>u, MovesPlans, EndKept
<1>2. LinksInv' /\ OpenInv'
  BY <1>0, <1>u, LinksKept DEF LinksInv
<1> QED
  BY <1>0, <1>1, <1>2, <1>u, DropKept

LEMMA FinishStep ==
    ASSUME LegsInv, NEW g \in Goroutines, Finish(g)
    PROVE  LegsInv'
<1>0. PlansInv /\ TakesInv /\ AiInv
  BY DEF LegsInv
<1>1. /\ At(g, "finish") /\ Then(g, <<>>)
      /\ running' = running \ {taken[g]} /\ taken' = [taken EXCEPT ![g] = 0]
      /\ UNCHANGED <<stage, known, legVars, recorder, made, aiVars>>
  BY DEF Finish
<1>2. Moves(g, {"finish"})
  BY <1>0, <1>1, SimplePlans, ThenMoves
<1>3. ~Resting(g) /\ ~At(g, "find") /\ ~At(g, "end")
  BY <1>1 DEF At, Resting
<1>4. PlansInv' /\ LinksInv' /\ OpenInv' /\ EndInv' /\ DropEndsCall'
  BY <1>1, <1>2, <1>3, Elsewhere
<1>5. AiInv'
  BY <1>0, <1>1, <1>2, AiKept
<1>6. \A h \in Goroutines : taken'[h] = IF h = g THEN 0 ELSE taken[h]
  BY <1>0, <1>1 DEF TakesInv
<1>7. ASSUME NEW h \in Goroutines, taken'[h] # 0 PROVE At(h, "finish")'
  <2>1. h # g /\ At(h, "finish")
    BY <1>0, <1>6, <1>7 DEF TakesInv
  <2>2. h # "hook"
    BY <1>0, <2>1, NotHook
  <2>3. todo'[h] = todo[h]
    BY <1>2, <2>1, <2>2 DEF Moves
  <2> QED
    BY <2>1, <2>3 DEF At
<1>8. ASSUME NEW k \in running' PROVE k = recorder \/ \E h \in Goroutines : k = taken'[h]
  <2>1. k \in running /\ k # taken[g]
    BY <1>1
  <2> QED
    BY <1>0, <1>6, <2>1 DEF TakesInv
<1>9. TakesInv'
  <2>1. taken' \in [Goroutines -> Nat]
    BY <1>0, <1>1 DEF TakesInv
  <2> QED
    BY <1>0, <1>1, <1>7, <1>8, <2>1 DEF TakesInv
<1> QED
  BY <1>4, <1>5, <1>9 DEF LegsInv

LEMMA StartWavStep ==
    ASSUME LegsInv, NEW g \in Goroutines, StartWav(g)
    PROVE  LegsInv'
<1>0. PlansInv /\ TakesInv /\ AiInv
  BY DEF LegsInv
<1>1. /\ At(g, "start") /\ Then(g, <<>>)
      /\ UNCHANGED <<stage, known, legVars, taken, aiVars>>
  BY DEF StartWav
<1>2. Moves(g, {"start"})
  BY <1>0, <1>1, SimplePlans, ThenMoves
<1>3. taken[g] = 0 /\ ~Resting(g) /\ ~At(g, "find") /\ ~At(g, "end")
  BY <1>0, <1>1, NotTaken DEF At, Resting
<1>4. PlansInv' /\ LinksInv' /\ OpenInv' /\ EndInv' /\ DropEndsCall'
  BY <1>1, <1>2, <1>3, Elsewhere
<1>5. AiInv'
  BY <1>0, <1>1, <1>2, AiKept
<1>6. CASE UNCHANGED <<made, recorder, running>>
  BY <1>0, <1>1, <1>2, <1>3, <1>4, <1>5, <1>6, TakesKept DEF LegsInv
<1>7. CASE recorder = 0 /\ made' = made + 1 /\ recorder' = made' /\ running' = running \cup {made'}
  <2>1. ASSUME NEW h \in Goroutines, taken'[h] # 0 PROVE At(h, "finish")'
    <3>1. h # g /\ At(h, "finish")
      BY <1>0, <1>1, <1>3, <2>1 DEF TakesInv
    <3>2. h # "hook"
      BY <1>0, <3>1, NotHook
    <3>3. todo'[h] = todo[h]
      BY <1>2, <3>1, <3>2 DEF Moves
    <3> QED
      BY <3>1, <3>3 DEF At
  <2>2. ASSUME NEW k \in running' PROVE k = recorder' \/ \E h \in Goroutines : k = taken'[h]
    <3>1. k = made' \/ (k \in running /\ k # 0)
      BY <1>0, <1>7 DEF TakesInv
    <3> QED
      BY <1>0, <1>1, <1>7, <3>1 DEF TakesInv
  <2>3. made' \in Nat \ {0} /\ running' \subseteq Nat \ {0}
    BY <1>0, <1>7 DEF TakesInv
  <2>4. TakesInv'
    BY <1>0, <1>1, <1>7, <2>1, <2>2, <2>3 DEF TakesInv
  <2> QED
    BY <1>4, <1>5, <2>4 DEF LegsInv
<1> QED
  BY <1>6, <1>7 DEF StartWav, MayRecord

LEMMA AutoAnswerStep ==
    ASSUME LegsInv, AutoAnswer
    PROVE  LegsInv'
<1>0. PlansInv /\ TakesInv
  BY DEF LegsInv
<1>1. /\ At("ai", "accept") /\ "ai" \in Goroutines /\ "ai" \notin Legs /\ "ai" \notin Enders
      /\ UNCHANGED <<known, legVars, recorder, running, made, taken, aiVars>>
  BY LegsAssumption, GoroutineFacts DEF AutoAnswer, recVars, Workers, Enders
<1>2. CASE known /\ Valid([state |-> stage], "local_accepted")
  <2>1. Then("ai", OnStateChange("connecting") \o <<>>) /\ stage' = "connecting"
    BY <1>2 DEF AutoAnswer, Emit
  <2>2. stage # "ended"
    BY <1>2 DEF Valid, Source
  <2>3. PICK p : p = OnStateChange("connecting") \o <<>>
    OBVIOUS
  <2>4. Simple(p) /\ Then("ai", p)
    BY <2>1, <2>3, SimplePlans, JoinSimple
  <2> QED
    BY <1>1, <2>1, <2>2, <2>4, QuietThen
<1>3. CASE ~(known /\ Valid([state |-> stage], "local_accepted"))
  <2>1. Quit("ai") /\ stage' = stage
    BY <1>3 DEF AutoAnswer
  <2>2. Moves("ai", {"set", "detach", "remove"})
    BY <1>0, <1>1, <2>1, QuitMoves
  <2>3. taken["ai"] = 0
    BY <1>0, <1>1, NotTaken
  <2> QED
    BY <1>1, <2>1, <2>2, <2>3, Quiet
<1> QED
  BY <1>2, <1>3

LEMMA PollStep ==
    ASSUME LegsInv, Poll
    PROVE  LegsInv'
<1>0. PlansInv /\ TakesInv /\ AiInv
  BY DEF LegsInv
<1>1. /\ At("ai", "poll") /\ "ai" \in Goroutines /\ "ai" \notin Legs /\ "ai" \notin Enders
      /\ UNCHANGED <<stage, known, legVars, recorder, running, made, taken, aiVars>>
  BY LegsAssumption, GoroutineFacts DEF Poll, recVars, Workers, Enders
<1>2. taken["ai"] = 0
  BY <1>0, <1>1, NotTaken
<1>3. CASE Quit("ai")
  <2>1. Moves("ai", {"set", "detach", "remove"})
    BY <1>0, <1>1, <1>3, QuitMoves
  <2> QED
    BY <1>1, <1>2, <2>1, Quiet
<1>4. CASE \E record \in BOOLEAN :
                todo' = [todo EXCEPT !["ai"] =
                    <<"get">> \o (IF record THEN <<"ifActive">> ELSE <<>>)
                              \o SubSeq(attachGeminiOnConnect, 3, 6)]
  <2>1. PICK record \in BOOLEAN :
                todo' = [todo EXCEPT !["ai"] =
                    <<"get">> \o (IF record THEN <<"ifActive">> ELSE <<>>)
                              \o SubSeq(attachGeminiOnConnect, 3, 6)]
    BY <1>4
  <2>2. PICK t : t = <<"get">> \o (IF record THEN <<"ifActive">> ELSE <<>>)
                               \o SubSeq(attachGeminiOnConnect, 3, 6)
    OBVIOUS
  <2>3. Plan("ai", t) /\ Preceded(t)
    BY <2>2, PollPlan
  <2>4. todo' = [todo EXCEPT !["ai"] = t]
    BY <2>1, <2>2
  <2>5. ~Has(t, "make") /\ ~Has(t, "reject")
    BY <1>1, <2>3 DEF Plan, Has, May, Common
  <2>6. Carries("ai", todo["ai"], t, {"set", "detach", "remove"})
    BY <2>3, <2>5 DEF Carries
  <2>7. Moves("ai", {"set", "detach", "remove"})
    BY <1>0, <1>1, <2>4, <2>6, OneMoves
  <2> QED
    BY <1>1, <1>2, <2>7, Quiet
<1> QED
  BY <1>3, <1>4 DEF Poll

LEMMA GeminiSteps ==
    ASSUME LegsInv, Register \/ Connect("dial") \/ Connect("setup") \/ ReadLoop
    PROVE  LegsInv'
<1>0. PlansInv /\ TakesInv /\ AiInv
  BY DEF LegsInv
<1>1. /\ "ai" \in Goroutines /\ "ai" \notin Legs /\ "ai" \notin Enders
      /\ UNCHANGED <<stage, known, legVars, recorder, running, made, taken>>
  BY LegsAssumption, GoroutineFacts DEF Register, Connect, ReadLoop, recVars, Workers, Enders
<1>2. PICK x \in {"register", "dial", "setup", "read"} :
            /\ At("ai", x)
            /\ \/ x = "register" /\ Register
               \/ x \in {"dial", "setup"} /\ Connect(x)
               \/ x = "read" /\ ReadLoop
  BY DEF Register, Connect, ReadLoop
<1>3. taken["ai"] = 0 /\ ~Resting("ai") /\ ~At("ai", "find") /\ ~At("ai", "end")
  BY <1>0, <1>1, <1>2, NotTaken DEF At, Resting
<1>4. ASSUME NEW done, Moves("ai", done)
      PROVE  PlansInv' /\ LinksInv' /\ OpenInv' /\ EndInv' /\ DropEndsCall' /\ TakesInv'
  BY <1>0, <1>1, <1>3, <1>4, Elsewhere, TakesKept
<1>5. CASE x = "register"
  <2>1. Then("ai", <<>>) /\ registered' /\ UNCHANGED <<cancelled, sock>> /\ registered' \in BOOLEAN
    BY <1>2, <1>5 DEF Register
  <2>2. Moves("ai", {x})
    BY <1>0, <1>1, <1>2, <2>1, SimplePlans, ThenMoves
  <2>3. AiInv'
    BY <1>0, <2>1 DEF AiInv
  <2> QED
    BY <1>4, <2>2, <2>3 DEF LegsInv
<1>6. CASE x \in {"dial", "setup"}
  <2>1. CASE ~cancelled /\ sock' = TRUE /\ Then("ai", <<>>) /\ UNCHANGED <<registered, cancelled>>
    <3>1. Moves("ai", {x})
      BY <1>0, <1>1, <1>2, <1>6, <2>1, SimplePlans, ThenMoves
    <3>2. ~Preceded(todo["ai"])
      <4>1. 1 \in 1..Len(todo["ai"]) /\ todo["ai"][1] = x
        BY <1>0, <1>1, <1>2, AtFacts
      <4>2. 1..(1 - 1) = {}
        OBVIOUS
      <4> QED
        BY <1>6, <4>1, <4>2 DEF Preceded
    <3>3. AiInv'
      BY <1>0, <2>1, <3>2 DEF AiInv
    <3> QED
      BY <1>4, <3>1, <3>3 DEF LegsInv
  <2>2. CASE sock' = FALSE /\ registered' = FALSE /\ Quit("ai") /\ UNCHANGED cancelled
    <3>1. Moves("ai", {"set", "detach", "remove"}) /\ todo'["ai"] = <<>>
      BY <1>0, <1>1, <2>2, QuitMoves
    <3>2. Preceded(<<>>)
      BY EmptyPlan DEF Preceded, Has
    <3>3. AiInv'
      BY <1>0, <2>2, <3>1, <3>2 DEF AiInv
    <3> QED
      BY <1>4, <3>1, <3>3 DEF LegsInv
  <2> QED
    BY <1>2, <1>6, <2>1, <2>2 DEF Connect, MayConnect
<1>7. CASE x = "read"
  <2>1. Quit("ai") /\ cancelled' = TRUE /\ sock' = FALSE /\ UNCHANGED registered
    BY <1>2, <1>7 DEF ReadLoop
  <2>2. Moves("ai", {"set", "detach", "remove"})
    BY <1>0, <1>1, <2>1, QuitMoves
  <2>3. AiInv'
    BY <1>0, <2>1 DEF AiInv
  <2> QED
    BY <1>4, <2>2, <2>3 DEF LegsInv
<1> QED
  BY <1>2, <1>5, <1>6, <1>7

LEMMA HookStep ==
    ASSUME LegsInv, HandleCallEndedAI
    PROVE  LegsInv'
<1>0. PlansInv /\ TakesInv /\ AiInv
  BY DEF LegsInv
<1>1. /\ At("hook", "ended") /\ Then("hook", <<>>)
      /\ "hook" \in Goroutines /\ "ai" \in Goroutines /\ "hook" \notin Legs /\ "hook" \notin Enders
      /\ UNCHANGED <<stage, known, legVars, recorder, running, made, taken>>
  BY LegsAssumption, GoroutineFacts DEF HandleCallEndedAI, recVars, Workers, Enders
<1>2. Moves("hook", {"ended"})
  BY <1>0, <1>1, SimplePlans, ThenMoves
<1>3. taken["hook"] = 0 /\ ~Resting("hook") /\ ~At("hook", "find") /\ ~At("hook", "end")
  BY <1>0, <1>1, NotTaken DEF At, Resting
<1>4. PlansInv' /\ LinksInv' /\ OpenInv' /\ EndInv' /\ DropEndsCall' /\ TakesInv'
  BY <1>0, <1>1, <1>2, <1>3, Elsewhere, TakesKept
<1>5. todo'["ai"] = todo["ai"]
  BY <1>1, <1>2 DEF Moves
<1>6. /\ registered' = FALSE /\ cancelled' = (cancelled \/ registered)
      /\ sock' = (sock /\ ~registered)
  BY DEF HandleCallEndedAI
<1>7. AiInv'
  BY <1>0, <1>5, <1>6, Zenon DEF AiInv
<1> QED
  BY <1>4, <1>7 DEF LegsInv

LEMMA ManagerStep ==
    ASSUME LegsInv, ManagerReports
    PROVE  LegsInv'
<1>1. PICK t \in {"remote_accepted", "local_accepted", "media_connected", "media_lost",
                  "media_restored", "hold"} :
            /\ stage' = Target([state |-> stage], t)
            /\ todo' = [todo EXCEPT !["manager"] = OnStateChange(stage')]
  BY DEF ManagerReports
<1>2. stage' # "ended" /\ stage # "ended"
  BY <1>1 DEF ManagerReports, Going, Target
<1>3. PICK s : s = stage'
  OBVIOUS
<1>4. "manager" \in Goroutines /\ "manager" \notin Legs
  BY LegsAssumption, GoroutineFacts DEF Workers
<1>5. Plan("manager", OnStateChange(s))
  BY SimplePlans, SimplePlan
<1>6. todo' = [todo EXCEPT !["manager"] = OnStateChange(s)] /\ Resting("manager")
  BY <1>1, <1>3 DEF ManagerReports
<1>7. UNCHANGED <<known, legVars, recorder, running, made, taken, aiVars>>
  BY DEF ManagerReports, recVars
<1> QED
  BY <1>2, <1>4, <1>5, <1>6, <1>7, QuietStart

LEMMA BeginSteps ==
    ASSUME LegsInv, OnPeerAudio \/ Record \/ HttpEnds \/ Hangup \/ Sweep
    PROVE  LegsInv'
<1>1. UNCHANGED <<stage, known, legVars, recorder, running, made, taken, aiVars>>
  BY DEF OnPeerAudio, Record, HttpEnds, Hangup, Sweep, others, recVars
<1>2. /\ Plan("audio", startRecordingIfArmed)
      /\ Plan("record", <<"ifActive">>) /\ Plan("record", StopRecording)
  BY SimplePlans, SimplePlan
<1>3. ASSUME NEW g \in Workers, g # "ai", NEW t, Plan(g, t), Start(g, t) PROVE LegsInv'
  <2>1. g \in Goroutines /\ g \notin Legs
    BY GoroutineFacts
  <2> QED
    BY <1>1, <1>3, <2>1, QuietStart DEF Start
<1>4. {"audio", "record", "http", "hangup", "sweep"} \subseteq Workers
  BY DEF Workers
<1>5. CASE OnPeerAudio
  BY <1>2, <1>3, <1>4, <1>5 DEF OnPeerAudio
<1>6. CASE Record
  BY <1>2, <1>3, <1>4, <1>6 DEF Record
<1>7. CASE HttpEnds
  <2>1. PICK x \in {"end", "reject"} : Start("http", <<"find", x>> \o removeCall \o <<"unlist">>)
    BY <1>7 DEF HttpEnds
  <2>2. Plan("http", <<"find", x>> \o removeCall \o <<"unlist">>)
    BY HttpPlans
  <2> QED
    BY <1>3, <1>4, <2>1, <2>2
<1>8. CASE Hangup
  BY <1>3, <1>4, <1>8, HangupPlans DEF Hangup
<1>9. CASE Sweep
  BY <1>3, <1>4, <1>9, SweepPlan DEF Sweep
<1> QED
  BY <1>5, <1>6, <1>7, <1>8, <1>9

LEMMA LegsInitInv ==
    ASSUME LegsInit
    PROVE  LegsInv
<1>1. PICK ai \in {<<>>, handleStartAICall, handleIncomingCallAI} :
            todo = [g \in Goroutines |-> IF g = "ai" THEN ai ELSE <<>>]
  BY DEF LegsInit
<1>2. "ai" \in Goroutines /\ \A l \in Legs : l \in Goroutines /\ l # "ai"
  BY GoroutineFacts DEF Workers
<1>3. Plan("ai", ai) /\ Preceded(ai)
  BY AiPlans
<1>4. DOMAIN todo = Goroutines /\ \A g \in Goroutines : todo[g] = IF g = "ai" THEN ai ELSE <<>>
  BY <1>1
<1>5. PlansInv
  BY <1>3, <1>4, EmptyPlan DEF PlansInv
<1>6. LinksInv
  <2>1. \A l \in Legs : ~Has(todo[l], "make")
    BY <1>2, <1>4, EmptyPlan
  <2> QED
    BY <2>1 DEF LegsInit, LinksInv, LocalCloseKeepsCall
<1>7. OpenInv /\ EndInv /\ DropEndsCall
  BY DEF LegsInit, OpenInv, EndInv, DropEndsCall, Going
<1>8. TakesInv
  BY DEF LegsInit, TakesInv
<1>9. AiInv
  BY <1>2, <1>3, <1>4 DEF LegsInit, AiInv
<1> QED
  BY <1>5, <1>6, <1>7, <1>8, <1>9 DEF LegsInv

LEMMA LegsStep ==
    ASSUME LegsInv, [LegsNext]_legsVars
    PROVE  LegsInv'
<1>1. ASSUME NEW g \in Goroutines, Step(g) PROVE LegsInv'
  BY <1>1, SmallSteps, RecordChecks, UnlistStep, FindStep, EndStep, RejectStep, RemoveSteps,
     DetachStep, GetStep, TakeStep, FinishStep, StartWavStep DEF Step
<1>2. ASSUME NEW l \in Legs, Operator(l) PROVE LegsInv'
  BY <1>2, AttachStep, MakeStep, SetBridgeStep, ResumeStep, DropStep, TerminalStep DEF Operator
<1>3. CASE Gemini
  BY <1>3, AutoAnswerStep, PollStep, GeminiSteps, HookStep DEF Gemini
<1>4. CASE ManagerReports
  BY <1>4, ManagerStep
<1>5. CASE OnPeerAudio \/ Record \/ HttpEnds \/ Hangup \/ Sweep
  BY <1>5, BeginSteps
<1>6. CASE UNCHANGED legsVars
  BY <1>6 DEF legsVars, legVars, recVars, aiVars, LegsInv, PlansInv, LinksInv, OpenInv, EndInv,
              TakesInv, AiInv, DropEndsCall, LocalCloseKeepsCall, Going, At
<1> QED
  BY <1>1, <1>2, <1>3, <1>4, <1>5, <1>6 DEF LegsNext

LEMMA LegsInvariant == LegsSpec => []LegsInv
<1>1. LegsInit => LegsInv
  BY LegsInitInv
<1>2. LegsInv /\ [LegsNext]_legsVars => LegsInv'
  BY LegsStep
<1> QED
  BY <1>1, <1>2, PTL DEF LegsSpec

-----------------------------------------------------------------------------
(* What it means.                                                          *)

\* Once every goroutine is done, the only open transport of an operator is the leg in the
\* table of a call that goes on: attachBrowser and attachBrowserWS put it there or close
\* it, setBridge closes the one it replaces, and whoever ends the call takes it out of
\* call.Client before its last detachBridge, so that a leg attached meanwhile is found.
THEOREM NoLegOutlivesCall == LegsSpec => []OpenIsAttached
<1>1. LegsInv => OpenIsAttached
  <2> SUFFICES ASSUME LegsInv, NEW l \in Legs, link[l] = "open", LegsSettled
               PROVE  l = bridges /\ Going
    BY DEF OpenIsAttached
  <2>1. \A g \in Goroutines : \A x : ~Has(todo[g], x)
    BY EmptyPlan DEF LegsSettled, Resting
  <2>2. bridges = l /\ l # NoLeg
    BY <2>1, GoroutineFacts, LegsAssumption DEF LegsInv, OpenInv
  <2>3. Going
    BY <2>1, <2>2, GoroutineFacts DEF LegsInv, EndInv
  <2> QED
    BY <2>2, <2>3
<1> QED
  BY <1>1, LegsInvariant, PTL

\* A browser that goes away ends the call: as long as the call goes on and can be found,
\* OnTerminalICE or OnTerminal has run and terminateCall has still to end the call.
THEOREM DroppedLegEndsCall == LegsSpec => []DropEndsCall
<1>1. LegsInv => DropEndsCall
  BY DEF LegsInv
<1> QED
  BY <1>1, LegsInvariant, PTL

\* WSBridge.Close, called by the program, never makes the read loop end the call.
THEOREM CloseIsNoHangup == LegsSpec => []LocalCloseKeepsCall
<1>1. LegsInv => LocalCloseKeepsCall
  BY DEF LegsInv, LinksInv
<1> QED
  BY <1>1, LegsInvariant, PTL

\* However starts and stops of the recording race, every open WAV file has its recorder
\* in the table or in the hands of the goroutine that closes it next; and the socket to
\* Gemini is open only while the session is where handleCallEndedAI finds it.
THEOREM NoHelperIsLost == LegsSpec => []HelpersOwned
<1>1. LegsInv => HelpersOwned
  BY DEF LegsInv, TakesInv, AiInv, HelpersOwned
<1> QED
  BY <1>1, LegsInvariant, PTL
=============================================================================
