------------------------ MODULE SemanticAnalysisProofs ------------------------
(***************************************************************************)
(* Proofs about SemanticAnalysis: what holds of one unit, whichever is     *)
(* analyzed.  The part about callables is SemanticFlowProofs; the parts    *)
(* about constructors and about class declarations are here.               *)
(*                                                                         *)
(* In a constructor the walk's path states and the executions are two sets *)
(* that follow each other: every execution has stored what some path state *)
(* says, every path state says no less than some execution has stored, and *)
(* for a field that no arm and no loop stores to the two sets agree.       *)
(*                                                                         *)
(* Among classes the ancestors of one form a chain.  The member a class is *)
(* compared with is the nearest above it, and what that one keeps of the   *)
(* farther ones passes on: a type without parameters is the same seen from *)
(* anywhere below.                                                         *)
(***************************************************************************)
EXTENDS SemanticAnalysis, Sequences, TLAPS

Flow == INSTANCE SemanticFlowProofs

Covered(R, S, skip) ==
  \A r \in R : \E s \in S : s.initialized \subseteq r.initialized \cup skip
Met(S, R) == \A s \in S : \E r \in R : r.initialized \subseteq s.initialized

(* The same is known of f in x and y; for all x in X there is such a y.    *)
SameMark(f, x, y) ==
  /\ f \in x.initialized <=> f \in y.initialized
  /\ f \in x.duplicate <=> f \in y.duplicate
Within(f, X, Y) == \A x \in X : \E y \in Y : SameMark(f, x, y)

Plain(skip, rep) == Constructor!trackedFields \ (skip \cup rep)

Followed(R, S, skip, rep) ==
  /\ Covered(R, S, skip) /\ Met(S, R)
  /\ \A f \in Plain(skip, rep) : Within(f, R, S) /\ Within(f, S, R)

(* Inside block d nothing is lost of what held where it was opened, and    *)
(* inside a loop nothing is gained for the fields it does not store to.    *)
LoopAt(b, d) == \E e \in 1..d : b[e].kind = "loop"

Kept(b, d, X, skip, rep) ==
  /\ Covered(X, b[d].states, skip)
  /\ LoopAt(b, d) => \A f \in Plain(skip, rep) : Within(f, X, b[d].states)

IsBlock(c) ==
  c = [kind |-> c.kind, states |-> c.states, runs |-> c.runs, outs |-> c.outs, left |-> c.left]

LevelOK(b, d, next, skip, rep) ==
  /\ IsBlock(b[d])
  /\ d = 1 => b[d].kind = "body"
  /\ Followed(b[d].runs, b[d].states, skip, rep)
  /\ Followed(b[d].left, b[d].outs, skip, rep)
  /\ Kept(b, d, b[d].left, skip, rep)
  /\ Kept(b, d, next, skip, rep)

(* The executions one level further in than d.                             *)
Further(b, d, R) == IF d = Len(b) THEN R ELSE b[d + 1].runs

BlocksOK(b, R, skip, rep) ==
  /\ Flow!IsSeq(b) /\ Len(b) # 0
  /\ \A d \in 1..Len(b) : LevelOK(b, d, Further(b, d, R), skip, rep)

CInv ==
  /\ BlocksOK(blocks, runs, skipped, repeated)
  /\ Followed(runs, states, skipped, repeated)
  /\ Followed(ends, exits, skipped, repeated)
  /\ ConstructorsInitialize
-----------------------------------------------------------------------------
LEMMA FollowedUnion ==
  ASSUME NEW R, NEW S, NEW Q, NEW T, NEW skip, NEW rep,
         Followed(R, S, skip, rep), Followed(Q, T, skip, rep)
  PROVE  Followed(R \cup Q, S \cup T, skip, rep)
<1>1. Covered(R \cup Q, S \cup T, skip) /\ Met(S \cup T, R \cup Q)
  BY DEF Followed, Covered, Met
<1>2. \A f \in Plain(skip, rep) : Within(f, R \cup Q, S \cup T) /\ Within(f, S \cup T, R \cup Q)
  BY DEF Followed, Within
<1> QED
  BY <1>1, <1>2 DEF Followed

LEMMA NothingFollowed ==
  ASSUME NEW skip, NEW rep
  PROVE  Followed({}, {}, skip, rep)
BY DEF Followed, Covered, Met, Within

LEMMA FollowedMore ==
  ASSUME NEW R, NEW S, NEW skip, NEW rep, NEW skip2, NEW rep2,
         skip \subseteq skip2, rep \subseteq rep2, Followed(R, S, skip, rep)
  PROVE  Followed(R, S, skip2, rep2)
BY DEF Followed, Covered, Plain

LEMMA KeptUnion ==
  ASSUME NEW b, NEW d, NEW X, NEW Y, NEW skip, NEW rep,
         Kept(b, d, X, skip, rep), Kept(b, d, Y, skip, rep)
  PROVE  Kept(b, d, X \cup Y, skip, rep)
<1>1. Covered(X \cup Y, b[d].states, skip)
  BY DEF Kept, Covered
<1>2. ASSUME LoopAt(b, d), NEW f \in Plain(skip, rep)
      PROVE  Within(f, X \cup Y, b[d].states)
  BY <1>2 DEF Kept, Within
<1> QED
  BY <1>1, <1>2 DEF Kept

LEMMA KeptMore ==
  ASSUME NEW b, NEW d, NEW X, NEW skip, NEW rep, NEW skip2, NEW rep2,
         skip \subseteq skip2, rep \subseteq rep2, Kept(b, d, X, skip, rep)
  PROVE  Kept(b, d, X, skip2, rep2)
BY DEF Kept, Covered, Plain

LEMMA NothingKept ==
  ASSUME NEW b, NEW d, NEW skip, NEW rep
  PROVE  Kept(b, d, {}, skip, rep)
BY DEF Kept, Covered, Within

(* It depends on the blocks up to d only.                                  *)
SameBelow(b, c, d) ==
  /\ c[d].states = b[d].states
  /\ \A e \in 1..d : c[e].kind = "loop" => b[e].kind = "loop"

LEMMA KeptSame ==
  ASSUME NEW b, NEW c, NEW d, NEW X, NEW skip, NEW rep,
         SameBelow(b, c, d), Kept(b, d, X, skip, rep)
  PROVE  Kept(c, d, X, skip, rep)
BY DEF Kept, LoopAt, SameBelow

(* What is kept since a block was opened is kept since the one around it.  *)
LEMMA KeptBelow ==
  ASSUME NEW b, NEW d \in Nat \ {0, 1}, NEW X, NEW skip, NEW rep,
         Followed(b[d].runs, b[d].states, skip, rep),
         Kept(b, d - 1, b[d].runs, skip, rep), Kept(b, d, X, skip, rep)
  PROVE  Kept(b, d - 1, X, skip, rep)
<1>1. Covered(X, b[d - 1].states, skip)
  <2> SUFFICES ASSUME NEW x \in X
               PROVE  \E s \in b[d - 1].states : s.initialized \subseteq x.initialized \cup skip
    BY DEF Covered
  <2>1. PICK s \in b[d].states : s.initialized \subseteq x.initialized \cup skip
    BY DEF Kept, Covered
  <2>2. PICK r \in b[d].runs : r.initialized \subseteq s.initialized
    BY DEF Followed, Met
  <2>3. PICK t \in b[d - 1].states : t.initialized \subseteq r.initialized \cup skip
    BY DEF Kept, Covered
  <2> QED
    BY <2>1, <2>2, <2>3
<1>2. ASSUME LoopAt(b, d - 1), NEW f \in Plain(skip, rep)
      PROVE  Within(f, X, b[d - 1].states)
  <2>1. LoopAt(b, d)
    BY <1>2 DEF LoopAt
  <2>2. /\ Within(f, X, b[d].states) /\ Within(f, b[d].states, b[d].runs)
        /\ Within(f, b[d].runs, b[d - 1].states)
    BY <1>2, <2>1 DEF Kept, Followed
  <2> QED
    BY <2>2 DEF Within, SameMark
<1> QED
  BY <1>1, <1>2 DEF Kept

(* What follows a block's states has kept all of what it opened with.      *)
LEMMA FollowedIsKept ==
  ASSUME NEW b, NEW d, NEW R, NEW skip, NEW rep, Followed(R, b[d].states, skip, rep)
  PROVE  Kept(b, d, R, skip, rep)
BY DEF Followed, Kept
-----------------------------------------------------------------------------
(* Stores.                                                                 *)
Stored(X, f) == {Constructor!StoreTo(x, f) : x \in X}

LEMMA StoredFields ==
  ASSUME NEW x, NEW f
  PROVE  /\ Constructor!StoreTo(x, f).initialized = x.initialized \cup {f}
         /\ \A g : g # f => SameMark(g, Constructor!StoreTo(x, f), x)
         /\ f \in Constructor!StoreTo(x, f).duplicate <=> f \in x.initialized \cup x.duplicate
         /\ Constructor!StoreTo(x, f) = [initialized |-> x.initialized \cup {f},
                                         duplicate |-> x.duplicate \cup ({f} \cap x.initialized)]
<1>1. CASE f \in x.initialized
  <2>1. Constructor!StoreTo(x, f) =
          [initialized |-> x.initialized \cup {f}, duplicate |-> x.duplicate \cup {f}]
    BY <1>1 DEF Constructor!StoreTo
  <2>2. {f} \cap x.initialized = {f}
    BY <1>1
  <2> QED
    BY <1>1, <2>1, <2>2 DEF SameMark
<1>2. CASE f \notin x.initialized
  <2>1. Constructor!StoreTo(x, f) =
          [initialized |-> x.initialized \cup {f}, duplicate |-> x.duplicate]
    BY <1>2 DEF Constructor!StoreTo
  <2>2. {f} \cap x.initialized = {} /\ x.duplicate \cup {} = x.duplicate
    BY <1>2
  <2> QED
    BY <1>2, <2>1, <2>2 DEF SameMark
<1> QED
  BY <1>1, <1>2

LEMMA StoredSame ==
  ASSUME NEW x, NEW y, NEW f, NEW g, SameMark(g, x, y)
  PROVE  SameMark(g, Constructor!StoreTo(x, f), Constructor!StoreTo(y, f))
<1>1. CASE g = f
  BY <1>1, StoredFields DEF SameMark
<1>2. CASE g # f
  BY <1>2, StoredFields DEF SameMark
<1> QED
  BY <1>1, <1>2

LEMMA StoredFollowed ==
  ASSUME NEW R, NEW S, NEW f, NEW skip, NEW rep, Followed(R, S, skip, rep)
  PROVE  Followed(Stored(R, f), Stored(S, f), skip, rep)
<1>1. Covered(Stored(R, f), Stored(S, f), skip)
  <2> SUFFICES ASSUME NEW r \in R
               PROVE  \E s \in S : Constructor!StoreTo(s, f).initialized
                                     \subseteq Constructor!StoreTo(r, f).initialized \cup skip
    BY DEF Covered, Stored
  <2>1. PICK s \in S : s.initialized \subseteq r.initialized \cup skip
    BY DEF Followed, Covered
  <2> QED
    BY <2>1, StoredFields
<1>2. Met(Stored(S, f), Stored(R, f))
  <2> SUFFICES ASSUME NEW s \in S
               PROVE  \E r \in R : Constructor!StoreTo(r, f).initialized
                                     \subseteq Constructor!StoreTo(s, f).initialized
    BY DEF Met, Stored
  <2>1. PICK r \in R : r.initialized \subseteq s.initialized
    BY DEF Followed, Met
  <2> QED
    BY <2>1, StoredFields
<1>3. ASSUME NEW g, NEW X, NEW Y, Within(g, X, Y)
      PROVE  Within(g, Stored(X, f), Stored(Y, f))
  <2> SUFFICES ASSUME NEW x \in X
               PROVE  \E y \in Y : SameMark(g, Constructor!StoreTo(x, f), Constructor!StoreTo(y, f))
    BY DEF Within, Stored
  <2>1. PICK y \in Y : SameMark(g, x, y)
    BY <1>3 DEF Within
  <2> QED
    BY <2>1, StoredSame
<1> QED
  BY <1>1, <1>2, <1>3 DEF Followed

(* A store inside a loop is one to a field that the loop stores to.        *)
LEMMA StoredKept ==
  ASSUME NEW b, NEW d, NEW X, NEW f, NEW skip, NEW rep, NEW skip2, NEW rep2,
         skip \subseteq skip2, rep \subseteq rep2,
         Kept(b, d, X, skip, rep), LoopAt(b, d) => f \in rep2 \cup skip2
  PROVE  Kept(b, d, Stored(X, f), skip2, rep2)
<1>1. Covered(Stored(X, f), b[d].states, skip2)
  <2> SUFFICES ASSUME NEW x \in X
               PROVE  \E s \in b[d].states :
                        s.initialized \subseteq Constructor!StoreTo(x, f).initialized \cup skip2
    BY DEF Covered, Stored
  <2>1. PICK s \in b[d].states : s.initialized \subseteq x.initialized \cup skip
    BY DEF Kept, Covered
  <2> QED
    BY <2>1, StoredFields
<1>2. ASSUME LoopAt(b, d), NEW g \in Plain(skip2, rep2)
      PROVE  Within(g, Stored(X, f), b[d].states)
  <2>1. g # f /\ g \in Plain(skip, rep)
    BY <1>2 DEF Plain
  <2>2. Within(g, X, b[d].states)
    BY <1>2, <2>1 DEF Kept
  <2>3. \A x : SameMark(g, Constructor!StoreTo(x, f), x)
    BY <2>1, StoredFields
  <2> QED
    BY <2>2, <2>3 DEF Within, Stored, SameMark
<1> QED
  BY <1>1, <1>2 DEF Kept

(* A store that an execution may skip.                                     *)
LEMMA SkippedFollowed ==
  ASSUME NEW R, NEW S, NEW f, NEW skip, NEW rep, NEW rep2, rep \subseteq rep2,
         Followed(R, S, skip, rep)
  PROVE  Followed(R \cup Stored(R, f), Stored(S, f), skip \cup {f}, rep2)
<1>1. Followed(Stored(R, f), Stored(S, f), skip \cup {f}, rep2)
  <2>1. Followed(Stored(R, f), Stored(S, f), skip, rep)
    BY StoredFollowed
  <2>2. skip \subseteq skip \cup {f}
    OBVIOUS
  <2> QED
    BY <2>1, <2>2, FollowedMore
<1>2. Covered(R, Stored(S, f), skip \cup {f})
  <2> SUFFICES ASSUME NEW r \in R
               PROVE  \E s \in S : Constructor!StoreTo(s, f).initialized
                                     \subseteq r.initialized \cup (skip \cup {f})
    BY DEF Covered, Stored
  <2>1. PICK s \in S : s.initialized \subseteq r.initialized \cup skip
    BY DEF Followed, Covered
  <2> QED
    BY <2>1, StoredFields
<1>3. ASSUME NEW g \in Plain(skip \cup {f}, rep2)
      PROVE  Within(g, R, Stored(S, f))
  <2>1. g # f /\ g \in Plain(skip, rep)
    BY DEF Plain
  <2>2. Within(g, R, S)
    BY <2>1 DEF Followed
  <2>3. \A x : SameMark(g, Constructor!StoreTo(x, f), x)
    BY <2>1, StoredFields
  <2> QED
    BY <2>2, <2>3 DEF Within, Stored, SameMark
<1>4. Covered(R \cup Stored(R, f), Stored(S, f), skip \cup {f})
  BY <1>1, <1>2 DEF Covered, Followed
<1>5. Met(Stored(S, f), R \cup Stored(R, f))
  BY <1>1 DEF Met, Followed
<1>6. \A g \in Plain(skip \cup {f}, rep2) :
        Within(g, R \cup Stored(R, f), Stored(S, f)) /\ Within(g, Stored(S, f), R \cup Stored(R, f))
  BY <1>1, <1>3 DEF Within, Followed
<1> QED
  BY <1>4, <1>5, <1>6 DEF Followed
-----------------------------------------------------------------------------
(* The stack of blocks.                                                    *)
LEMMA TopLevel ==
  ASSUME NEW b, NEW R, NEW skip, NEW rep, BlocksOK(b, R, skip, rep)
  PROVE  /\ Len(b) \in Nat \ {0} /\ Len(b) \in 1..Len(b)
         /\ LevelOK(b, Len(b), R, skip, rep)
<1>1. Len(b) \in Nat \ {0}
  BY DEF BlocksOK, Flow!IsSeq
<1>2. Len(b) \in 1..Len(b)
  BY <1>1
<1> QED
  BY <1>1, <1>2 DEF BlocksOK, Further

(* A statement of the innermost block.                                     *)
LEMMA BlocksStay ==
  ASSUME NEW b, NEW R, NEW skip, NEW rep, NEW Q, NEW skip2, NEW rep2,
         skip \subseteq skip2, rep \subseteq rep2,
         BlocksOK(b, R, skip, rep), Kept(b, Len(b), Q, skip2, rep2)
  PROVE  BlocksOK(b, Q, skip2, rep2)
<1>1. ASSUME NEW d \in 1..Len(b)
      PROVE  LevelOK(b, d, Further(b, d, Q), skip2, rep2)
  <2>1. LevelOK(b, d, Further(b, d, R), skip, rep)
    BY DEF BlocksOK
  <2>2. Kept(b, d, Further(b, d, R), skip, rep) /\ Kept(b, d, b[d].left, skip, rep)
    BY <2>1 DEF LevelOK
  <2>3. Kept(b, d, Further(b, d, R), skip2, rep2) /\ Kept(b, d, b[d].left, skip2, rep2)
    BY <2>2, KeptMore
  <2>4. Kept(b, d, Further(b, d, Q), skip2, rep2)
    BY <2>3 DEF Further
  <2>5. /\ Followed(b[d].runs, b[d].states, skip2, rep2)
        /\ Followed(b[d].left, b[d].outs, skip2, rep2)
    BY <2>1, FollowedMore DEF LevelOK
  <2> QED
    BY <2>1, <2>3, <2>4, <2>5 DEF LevelOK
<1> QED
  BY <1>1 DEF BlocksOK

LEMMA Opened ==
  ASSUME NEW b, NEW R, NEW skip, NEW rep, NEW c,
         BlocksOK(b, R, skip, rep), IsBlock(c), Followed(c.runs, c.states, skip, rep),
         c.runs = R, c.outs = {}, c.left = {}
  PROVE  BlocksOK(Flow!Grown(b, c), R, skip, rep)
<1> DEFINE n == Len(b)
           t == Flow!Grown(b, c)
<1>1. Flow!IsSeq(b) /\ n \in Nat \ {0}
  BY TopLevel DEF BlocksOK
<1>2. /\ Flow!IsSeq(t) /\ Len(t) = n + 1 /\ t[n + 1] = c
      /\ \A i \in 1..n : t[i] = b[i]
  BY <1>1, Flow!PushSeq
<1> HIDE DEF t, n
<1>3. ASSUME NEW d \in 1..n
      PROVE  LevelOK(t, d, Further(t, d, R), skip, rep)
  <2>1. LevelOK(b, d, Further(b, d, R), skip, rep)
    BY DEF BlocksOK, n
  <2>2. SameBelow(b, t, d) /\ t[d] = b[d]
    BY <1>1, <1>2 DEF SameBelow
  <2>3. Further(t, d, R) = Further(b, d, R)
    <3>1. CASE d = n
      BY <3>1, <1>1, <1>2 DEF Further, n
    <3>2. CASE d # n
      <4>1. d # n + 1 /\ d + 1 \in 1..n
        BY <3>2, <1>1
      <4> QED
        BY <4>1, <3>2, <1>1, <1>2 DEF Further, n
    <3> QED
      BY <3>1, <3>2
  <2>4. Kept(b, d, b[d].left, skip, rep) /\ Kept(b, d, Further(b, d, R), skip, rep)
    BY <2>1 DEF LevelOK
  <2>5. Kept(t, d, b[d].left, skip, rep) /\ Kept(t, d, Further(b, d, R), skip, rep)
    BY <2>2, <2>4, KeptSame
  <2> QED
    BY <2>1, <2>2, <2>3, <2>5 DEF LevelOK
<1>4. LevelOK(t, n + 1, Further(t, n + 1, R), skip, rep)
  <2>1. Further(t, n + 1, R) = R /\ n + 1 # 1
    BY <1>1, <1>2 DEF Further
  <2>2. Kept(t, n + 1, R, skip, rep)
    <3>1. Followed(R, t[n + 1].states, skip, rep)
      BY <1>2
    <3> QED
      BY <3>1, FollowedIsKept
  <2> QED
    BY <2>1, <2>2, <1>2, NothingFollowed, NothingKept DEF LevelOK
<1>5. \A d \in 1..(n + 1) : d \in 1..n \/ d = n + 1
  BY <1>1
<1>6. Len(t) # 0
  BY <1>1, <1>2
<1>7. ASSUME NEW d \in 1..Len(t)
      PROVE  LevelOK(t, d, Further(t, d, R), skip, rep)
  BY <1>2, <1>3, <1>4, <1>5
<1>8. BlocksOK(t, R, skip, rep)
  BY <1>2, <1>6, <1>7 DEF BlocksOK
<1> QED
  BY <1>8 DEF t

(* A branch has ended or the next one starts.                              *)
LEMMA Rebuilt ==
  ASSUME NEW b, NEW R, NEW skip, NEW rep, NEW e, NEW Q,
         BlocksOK(b, R, skip, rep), b[Len(b)].kind # "body", IsBlock(e),
         e.kind # "loop", e.states = b[Len(b)].states, e.runs = b[Len(b)].runs,
         Followed(e.left, e.outs, skip, rep),
         Kept(b, Len(b), e.left, skip, rep), Kept(b, Len(b), Q, skip, rep)
  PROVE  BlocksOK(Flow!Put(b, Len(b), e), Q, skip, rep)
<1> DEFINE n == Len(b)
           t == Flow!Put(b, n, e)
<1>1. /\ Flow!IsSeq(b) /\ n \in Nat \ {0} /\ n \in 1..n
      /\ LevelOK(b, n, R, skip, rep)
  BY TopLevel DEF BlocksOK
<1>2. /\ Flow!IsSeq(t) /\ Len(t) = n
      /\ \A i \in 1..n : t[i] = IF i = n THEN e ELSE b[i]
  BY <1>1, Flow!PutSeq
<1>3. n # 1 /\ e.states = b[n].states /\ e.runs = b[n].runs
      /\ Kept(b, n, e.left, skip, rep) /\ Kept(b, n, Q, skip, rep)
  BY <1>1 DEF LevelOK
<1> HIDE DEF t, n
<1>4. ASSUME NEW d \in 1..n
      PROVE  SameBelow(b, t, d)
  BY <1>1, <1>2, <1>3 DEF SameBelow
<1>5. ASSUME NEW d \in 1..n, d # n
      PROVE  LevelOK(t, d, Further(t, d, Q), skip, rep)
  <2>1. LevelOK(b, d, Further(b, d, R), skip, rep)
    BY DEF BlocksOK, n
  <2>2. t[d] = b[d] /\ d + 1 \in 1..n /\ t[d + 1].runs = b[d + 1].runs
    BY <1>1, <1>2, <1>3, <1>5
  <2>3. Further(t, d, Q) = Further(b, d, R)
    BY <2>2, <1>2, <1>5 DEF Further, n
  <2>4. Kept(b, d, b[d].left, skip, rep) /\ Kept(b, d, Further(b, d, R), skip, rep)
    BY <2>1 DEF LevelOK
  <2>5. Kept(t, d, b[d].left, skip, rep) /\ Kept(t, d, Further(b, d, R), skip, rep)
    BY <1>4, <2>4, KeptSame
  <2> QED
    BY <2>1, <2>2, <2>3, <2>5 DEF LevelOK
<1>6. LevelOK(t, n, Further(t, n, Q), skip, rep)
  <2>1. Further(t, n, Q) = Q /\ t[n] = e
    BY <1>1, <1>2 DEF Further
  <2>2. SameBelow(b, t, n)
    BY <1>1, <1>4
  <2>3. Kept(t, n, e.left, skip, rep) /\ Kept(t, n, Q, skip, rep)
    BY <2>2, <1>3, KeptSame
  <2>4. Followed(e.runs, e.states, skip, rep)
    BY <1>1, <1>3 DEF LevelOK
  <2> QED
    BY <2>1, <2>3, <2>4, <1>3 DEF LevelOK
<1>7. BlocksOK(t, Q, skip, rep)
  BY <1>1, <1>2, <1>5, <1>6 DEF BlocksOK
<1> QED
  BY <1>7 DEF t, n

(* A block is left: what it has kept is kept by the one around it.         *)
LEMMA Left ==
  ASSUME NEW b, NEW R, NEW skip, NEW rep, NEW Q,
         BlocksOK(b, R, skip, rep), b[Len(b)].kind # "body",
         Kept(b, Len(b), Q, skip, rep)
  PROVE  BlocksOK(Flow!Cut(b, Len(b) - 1), Q, skip, rep)
<1> DEFINE n == Len(b)
           m == n - 1
           t == Flow!Cut(b, m)
<1>1. /\ Flow!IsSeq(b) /\ n \in Nat \ {0} /\ n \in 1..n
      /\ LevelOK(b, n, R, skip, rep)
  BY TopLevel DEF BlocksOK
<1>2. n # 1 /\ Kept(b, n, Q, skip, rep)
  BY <1>1 DEF LevelOK
<1>3. /\ m \in 0..Len(b) /\ m \in Nat \ {0} /\ m + 1 = n /\ m # n
      /\ n \in Nat \ {0, 1} /\ m = n - 1 /\ \A d \in 1..m : d \in 1..n
  BY <1>1, <1>2
<1>4. Flow!IsSeq(t) /\ Len(t) = m /\ \A i \in 1..(m) : t[i] = b[i]
  BY <1>1, <1>3, Flow!CutSeq
<1> HIDE DEF n, m, t
<1>5. \A d \in 1..(m) : SameBelow(b, t, d)
  BY <1>3, <1>4 DEF SameBelow
<1>6. \A d \in 1..(m) : LevelOK(b, d, Further(b, d, R), skip, rep)
  BY <1>3 DEF BlocksOK, n
<1>7. Kept(b, m, Q, skip, rep)
  <2>1. Further(b, m, R) = b[n].runs
    BY <1>3 DEF Further, n
  <2>2. m \in 1..(m)
    BY <1>3
  <2>3. Kept(b, m, b[n].runs, skip, rep)
    BY <2>1, <2>2, <1>6 DEF LevelOK
  <2>4. Followed(b[n].runs, b[n].states, skip, rep)
    BY <1>1 DEF LevelOK
  <2> QED
    BY <2>3, <2>4, <1>2, <1>3, KeptBelow
<1>8. ASSUME NEW d \in 1..(m)
      PROVE  LevelOK(t, d, Further(t, d, Q), skip, rep)
  <2>1. Kept(b, d, Further(t, d, Q), skip, rep)
    <3>1. CASE d = m
      <4>1. Further(t, d, Q) = Q
        BY <3>1, <1>4 DEF Further
      <4> QED
        BY <4>1, <3>1, <1>7
    <3>2. CASE d # m
      <4>1. d + 1 \in 1..(m) /\ d # n
        BY <3>2, <1>3
      <4>2. Further(t, d, Q) = Further(b, d, R)
        BY <4>1, <3>2, <1>4 DEF Further, n
      <4> QED
        BY <4>2, <1>6 DEF LevelOK
    <3> QED
      BY <3>1, <3>2
  <2>2. LevelOK(b, d, Further(b, d, R), skip, rep) /\ t[d] = b[d] /\ SameBelow(b, t, d)
    BY <1>4, <1>5, <1>6
  <2>3. Kept(b, d, b[d].left, skip, rep)
    BY <2>2 DEF LevelOK
  <2>4. Kept(t, d, b[d].left, skip, rep) /\ Kept(t, d, Further(t, d, Q), skip, rep)
    BY <2>1, <2>2, <2>3, KeptSame
  <2> QED
    BY <2>2, <2>4 DEF LevelOK
<1>9. Len(t) # 0
  BY <1>3, <1>4
<1>10. BlocksOK(t, Q, skip, rep)
  BY <1>4, <1>8, <1>9 DEF BlocksOK
<1> QED
  BY <1>10 DEF t, m, n
-----------------------------------------------------------------------------
(* The steps of a constructor.                                             *)
Going == verdict = "open" /\ verdict' = "open"
Untold == warned' = warned /\ duplicated' = duplicated /\ (skipped' = skipped \/ skipped' # {})

(* Where nothing is decided, what was said remains right.                  *)
LEMMA StillRight ==
  ASSUME ConstructorsInitialize, Going, Untold
  PROVE  ConstructorsInitialize'
BY DEF ConstructorsInitialize, Constructor!ConstructorsInitialize,
       Constructor!ConstructionWarningsExact, Going, Untold

LEMMA AtTop ==
  ASSUME CInv
  PROVE  /\ Constructor!Depth = Len(blocks) /\ Constructor!Top = blocks[Len(blocks)]
         /\ Len(blocks) \in Nat \ {0}
         /\ LevelOK(blocks, Len(blocks), runs, skipped, repeated)
         /\ Constructor!InLoop <=> LoopAt(blocks, Len(blocks))
BY TopLevel DEF CInv, Constructor!Depth, Constructor!Top, Constructor!InLoop, LoopAt

LEMMA StoreStep ==
  ASSUME CInv, NEW f, Constructor!Store(f)
  PROVE  CInv'
<1>1. /\ states' = Stored(states, f) /\ runs' = Stored(runs, f)
      /\ blocks' = blocks /\ exits' = exits /\ ends' = ends /\ skipped' = skipped
      /\ repeated \subseteq repeated' /\ (Constructor!InLoop => f \in repeated')
      /\ Going /\ Untold
  <2>1. \A r : [initialized |-> r.initialized \cup {f},
                duplicate |-> r.duplicate \cup ({f} \cap r.initialized)] = Constructor!StoreTo(r, f)
    BY StoredFields
  <2>2. states' = Stored(states, f) /\ runs' = Stored(runs, f)
    BY <2>1 DEF Constructor!Store, Stored
  <2> QED
    BY <2>2 DEF Constructor!Store, Constructor!Takes, Going, Untold
<1>2. /\ Followed(runs, states, skipped, repeated') /\ Followed(ends, exits, skipped, repeated')
  BY <1>1, FollowedMore DEF CInv
<1>3. Followed(Stored(runs, f), Stored(states, f), skipped, repeated')
  BY <1>2, StoredFollowed
<1>4. Kept(blocks, Len(blocks), Stored(runs, f), skipped, repeated')
  <2>1. Kept(blocks, Len(blocks), runs, skipped, repeated)
    BY AtTop DEF LevelOK
  <2>2. LoopAt(blocks, Len(blocks)) => f \in repeated' \cup skipped
    BY <1>1, AtTop
  <2> QED
    BY <2>1, <2>2, <1>1, StoredKept
<1>5. BlocksOK(blocks, Stored(runs, f), skipped, repeated')
  BY <1>1, <1>4, BlocksStay DEF CInv
<1>6. ConstructorsInitialize'
  BY <1>1, StillRight DEF CInv
<1> QED
  BY <1>1, <1>2, <1>3, <1>5, <1>6 DEF CInv

LEMMA StoreInArmStep ==
  ASSUME CInv, NEW f, Constructor!StoreInArm(f)
  PROVE  CInv'
<1>1. /\ states' = Stored(states, f) /\ runs' = runs \cup Stored(runs, f)
      /\ blocks' = blocks /\ exits' = exits /\ ends' = ends /\ skipped' = skipped \cup {f}
      /\ repeated \subseteq repeated' /\ Going /\ Untold
  <2>1. \A r : [initialized |-> r.initialized \cup {f},
                duplicate |-> r.duplicate \cup ({f} \cap r.initialized)] = Constructor!StoreTo(r, f)
    BY StoredFields
  <2>2. states' = Stored(states, f) /\ runs' = runs \cup Stored(runs, f)
    BY <2>1 DEF Constructor!StoreInArm, Stored
  <2> QED
    BY <2>2 DEF Constructor!StoreInArm, Constructor!Takes, Going, Untold
<1>2. skipped \subseteq skipped \cup {f}
  OBVIOUS
<1>3. Followed(ends, exits, skipped \cup {f}, repeated')
  BY <1>1, <1>2, FollowedMore DEF CInv
<1>4. Followed(runs \cup Stored(runs, f), Stored(states, f), skipped \cup {f}, repeated')
  BY <1>1, SkippedFollowed DEF CInv
<1>5. Kept(blocks, Len(blocks), runs \cup Stored(runs, f), skipped \cup {f}, repeated')
  <2>1. Kept(blocks, Len(blocks), runs, skipped, repeated)
    BY AtTop DEF LevelOK
  <2>2. Kept(blocks, Len(blocks), runs, skipped \cup {f}, repeated')
    BY <2>1, <1>1, <1>2, KeptMore
  <2>3. LoopAt(blocks, Len(blocks)) => f \in repeated' \cup (skipped \cup {f})
    OBVIOUS
  <2>4. Kept(blocks, Len(blocks), Stored(runs, f), skipped \cup {f}, repeated')
    BY <2>1, <2>3, <1>1, <1>2, StoredKept
  <2> QED
    BY <2>2, <2>4, KeptUnion
<1>6. BlocksOK(blocks, runs \cup Stored(runs, f), skipped \cup {f}, repeated')
  BY <1>1, <1>2, <1>5, BlocksStay DEF CInv
<1>7. ConstructorsInitialize'
  BY <1>1, StillRight DEF CInv
<1> QED
  BY <1>1, <1>3, <1>4, <1>6, <1>7 DEF CInv

(* A field read or the object handed out too early.                        *)
WarnedOf(fields) ==
  warned'.what # {} =>
    /\ warned'.told <=> Constructor!TooEarly(fields, states)
    /\ warned'.due <=> Constructor!TooEarly(fields, runs)

LEMMA WarningStep ==
  ASSUME CInv, NEW fields, Going, WarnedOf(fields),
         duplicated' = duplicated, skipped' = skipped, repeated' = repeated, blocks' = blocks,
         states' = states, runs' = runs, exits' = exits, ends' = ends
  PROVE  CInv'
<1>1. skipped = {} => (Constructor!TooEarly(fields, states) <=> Constructor!TooEarly(fields, runs))
  <2> SUFFICES ASSUME skipped = {}
               PROVE  Constructor!TooEarly(fields, states) <=> Constructor!TooEarly(fields, runs)
    OBVIOUS
  <2>1. Covered(runs, states, {}) /\ Met(states, runs)
    BY DEF CInv, Followed
  <2>2. ASSUME NEW s \in states, ~(fields \subseteq s.initialized)
        PROVE  \E r \in runs : ~(fields \subseteq r.initialized)
    BY <2>1, <2>2 DEF Met
  <2>3. ASSUME NEW r \in runs, ~(fields \subseteq r.initialized)
        PROVE  \E s \in states : ~(fields \subseteq s.initialized)
    BY <2>1, <2>3 DEF Covered
  <2> QED
    BY <2>2, <2>3 DEF Constructor!TooEarly
<1>2. Constructor!ConstructionWarningsExact'
  BY <1>1 DEF Constructor!ConstructionWarningsExact, WarnedOf
<1>3. ConstructorsInitialize'
  BY <1>2 DEF ConstructorsInitialize, Constructor!ConstructorsInitialize, Going
<1> QED
  BY <1>3 DEF CInv

LEMMA ReadFieldStep ==
  ASSUME CInv, NEW f \in Constructor!trackedFields, Constructor!ReadField(f)
  PROVE  CInv'
<1>1. /\ warned' = [what |-> {f} \ Preset, told |-> Constructor!TooEarly({f}, states),
                    due |-> f \in Required /\ \E r \in runs : f \notin r.initialized]
      /\ Going /\ duplicated' = duplicated /\ skipped' = skipped /\ repeated' = repeated
      /\ blocks' = blocks /\ states' = states /\ runs' = runs /\ exits' = exits /\ ends' = ends
  BY DEF Constructor!ReadField, Constructor!Takes, Going
<1>2. CASE f \in Required
  <2>1. Constructor!TooEarly({f}, runs) <=> f \in Required /\ \E r \in runs : f \notin r.initialized
    BY <1>2 DEF Constructor!TooEarly
  <2>2. WarnedOf({f})
    BY <2>1, <1>1 DEF WarnedOf
  <2> QED
    BY <2>1, <2>2, <1>1, WarningStep
<1>3. CASE f \notin Required
  <2>1. {f} \ Preset = {}
    BY <1>3 DEF Constructor!trackedFields
  <2>2. ConstructorsInitialize'
    BY <1>1, <2>1 DEF CInv, ConstructorsInitialize, Constructor!ConstructorsInitialize,
                      Constructor!ConstructionWarningsExact, Going
  <2> QED
    BY <1>1, <2>2 DEF CInv
<1> QED
  BY <1>2, <1>3

LEMMA UseSelfStep ==
  ASSUME CInv, Constructor!UseSelf
  PROVE  CInv'
<1>1. /\ warned' = [what |-> Required, told |-> Constructor!TooEarly(Required, states),
                    due |-> \E r \in runs : ~(Required \subseteq r.initialized)]
      /\ Going /\ duplicated' = duplicated /\ skipped' = skipped /\ repeated' = repeated
      /\ blocks' = blocks /\ states' = states /\ runs' = runs /\ exits' = exits /\ ends' = ends
  BY DEF Constructor!UseSelf, Constructor!Takes, Going
<1>2. Constructor!TooEarly(Required, runs) <=> \E r \in runs : ~(Required \subseteq r.initialized)
  BY DEF Constructor!TooEarly
<1>3. WarnedOf(Required)
  BY <1>1, <1>2 DEF WarnedOf
<1> QED
  BY <1>1, <1>3, WarningStep

LEMMA ReturnStep ==
  ASSUME CInv, Constructor!Return
  PROVE  CInv'
<1>1. /\ exits' = exits \cup states /\ ends' = ends \cup runs /\ states' = {} /\ runs' = {}
      /\ blocks' = blocks /\ skipped' = skipped /\ repeated' = repeated /\ Going /\ Untold
  BY DEF Constructor!Return, Constructor!Takes, Going, Untold
<1>2. Followed(ends \cup runs, exits \cup states, skipped, repeated)
  BY FollowedUnion DEF CInv
<1>3. BlocksOK(blocks, {}, skipped, repeated)
  BY BlocksStay, NothingKept DEF CInv
<1>4. ConstructorsInitialize'
  BY <1>1, StillRight DEF CInv
<1> QED
  BY <1>1, <1>2, <1>3, <1>4, NothingFollowed DEF CInv
-----------------------------------------------------------------------------
LEMMA OpenStep ==
  ASSUME CInv, NEW kind \in {"if", "loop", "catch"}, Constructor!Open(kind)
  PROVE  CInv'
<1> DEFINE c == Constructor!Block(kind)
<1>1. /\ blocks' = Flow!Grown(blocks, c)
      /\ states' = states /\ runs' = runs /\ exits' = exits /\ ends' = ends
      /\ skipped' = skipped /\ repeated' = repeated /\ Going /\ Untold
  BY DEF Constructor!Open, Constructor!Takes, Going, Untold, Flow!Grown
<1>2. /\ IsBlock(c) /\ c.states = states /\ c.runs = runs /\ c.outs = {} /\ c.left = {}
  BY DEF Constructor!Block, IsBlock
<1>3. ConstructorsInitialize'
  BY <1>1, StillRight DEF CInv
<1> HIDE DEF c
<1>4. BlocksOK(blocks, runs, skipped, repeated) /\ Followed(c.runs, c.states, skipped, repeated)
  BY <1>2 DEF CInv
<1>5. BlocksOK(Flow!Grown(blocks, c), runs, skipped, repeated)
  BY <1>2, <1>4, Opened
<1> QED
  BY <1>1, <1>3, <1>5 DEF CInv

(* A record that differs from c in its kind, and in what has left it.      *)
Like(c, e) ==
  IsBlock(e) /\ e.states = c.states /\ e.runs = c.runs /\ e.kind # "loop"

LEMMA EndBranchStep ==
  ASSUME CInv, Constructor!EndBranch
  PROVE  CInv'
<1> DEFINE n == Len(blocks)
           c == blocks[n]
           kind == IF c.kind = "else" THEN "after" ELSE "between"
           e == [kind |-> kind, states |-> c.states, runs |-> c.runs,
                 outs |-> c.outs \cup states, left |-> c.left \cup runs]
<1>1. /\ Constructor!Depth = n /\ Constructor!Top = c /\ n \in Nat \ {0} /\ n \in 1..n
      /\ LevelOK(blocks, n, runs, skipped, repeated)
  BY AtTop
<1>2. blocks' = Flow!Put(blocks, n, e)
  <2>1. blocks' = Flow!Put(blocks, n, [c EXCEPT !.kind = kind, !.outs = c.outs \cup states,
                                                !.left = c.left \cup runs])
    BY <1>1 DEF Constructor!EndBranch, Flow!Put
  <2>2. c = [kind |-> c.kind, states |-> c.states, runs |-> c.runs,
             outs |-> c.outs, left |-> c.left]
    BY <1>1 DEF LevelOK, IsBlock
  <2> DEFINE outs == c.outs \cup states
             left == c.left \cup runs
             u == [c EXCEPT !.kind = kind, !.outs = outs, !.left = left]
  <2> HIDE DEF c, kind, outs, left
  <2>3. PICK k, s, r, o, l : c = [kind |-> k, states |-> s, runs |-> r, outs |-> o, left |-> l]
    BY <2>2
  <2>4. c.states = s /\ c.runs = r
    BY <2>3
  <2>5. u = [c EXCEPT !.kind = kind, !.outs = outs, !.left = left]
    OBVIOUS
  <2> HIDE DEF u
  <2>6. u = [kind |-> kind, states |-> s, runs |-> r, outs |-> outs, left |-> left]
    BY <2>3, <2>5
  <2> QED
    BY <2>1, <2>4, <2>5, <2>6 DEF outs, left
<1>3. /\ c.kind # "body" /\ states' = c.states /\ runs' = c.runs /\ exits' = exits /\ ends' = ends
      /\ skipped' = skipped /\ repeated' = repeated /\ Going /\ Untold
  BY <1>1 DEF Constructor!EndBranch, Constructor!Seam, Going, Untold
<1>4. Like(c, e) /\ e.outs = c.outs \cup states /\ e.left = c.left \cup runs
  BY DEF Like, IsBlock
<1>5. /\ BlocksOK(blocks, runs, skipped, repeated) /\ Followed(runs, states, skipped, repeated)
      /\ Followed(ends, exits, skipped, repeated) /\ ConstructorsInitialize'
  BY <1>3, StillRight DEF CInv
<1>6. /\ Followed(c.runs, c.states, skipped, repeated) /\ Followed(c.left, c.outs, skipped, repeated)
      /\ Kept(blocks, n, c.left, skipped, repeated) /\ Kept(blocks, n, runs, skipped, repeated)
  BY <1>1 DEF LevelOK
<1> HIDE DEF e
<1>7. Followed(e.left, e.outs, skipped, repeated)
  BY <1>4, <1>5, <1>6, FollowedUnion
<1>8. Kept(blocks, n, e.left, skipped, repeated) /\ Kept(blocks, n, c.runs, skipped, repeated)
  BY <1>4, <1>6, KeptUnion, FollowedIsKept
<1>9. BlocksOK(Flow!Put(blocks, n, e), c.runs, skipped, repeated)
  BY <1>3, <1>4, <1>5, <1>7, <1>8, Rebuilt DEF Like
<1> QED
  BY <1>2, <1>3, <1>5, <1>6, <1>9 DEF CInv

LEMMA NextBranchStep ==
  ASSUME CInv, NEW kind \in {"if", "else"}, Constructor!NextBranch(kind)
  PROVE  CInv'
<1> DEFINE n == Len(blocks)
           c == blocks[n]
           e == [kind |-> kind, states |-> c.states, runs |-> c.runs,
                 outs |-> c.outs, left |-> c.left]
<1>1. /\ Constructor!Depth = n /\ Constructor!Top = c /\ n \in Nat \ {0} /\ n \in 1..n
      /\ LevelOK(blocks, n, runs, skipped, repeated)
  BY AtTop
<1>2. blocks' = Flow!Put(blocks, n, e)
  <2>1. blocks' = Flow!Put(blocks, n, [c EXCEPT !.kind = kind])
    BY <1>1 DEF Constructor!NextBranch, Flow!Put
  <2>2. c = [kind |-> c.kind, states |-> c.states, runs |-> c.runs,
             outs |-> c.outs, left |-> c.left]
    BY <1>1 DEF LevelOK, IsBlock
  <2>3. [c EXCEPT !.kind = kind] = e
    BY <2>2
  <2> QED
    BY <2>1, <2>3
<1>3. /\ c.kind # "body" /\ states' = states /\ runs' = runs /\ exits' = exits /\ ends' = ends
      /\ skipped' = skipped /\ repeated' = repeated /\ Going /\ Untold
  BY <1>1 DEF Constructor!NextBranch, Constructor!Takes, Going, Untold
<1>4. Like(c, e) /\ e.outs = c.outs /\ e.left = c.left
  BY DEF Like, IsBlock
<1>5. BlocksOK(blocks, runs, skipped, repeated) /\ ConstructorsInitialize'
  BY <1>3, StillRight DEF CInv
<1>6. /\ Followed(c.left, c.outs, skipped, repeated)
      /\ Kept(blocks, n, c.left, skipped, repeated) /\ Kept(blocks, n, runs, skipped, repeated)
  BY <1>1 DEF LevelOK
<1> HIDE DEF e
<1>7. BlocksOK(Flow!Put(blocks, n, e), runs, skipped, repeated)
  BY <1>3, <1>4, <1>5, <1>6, Rebuilt DEF Like
<1> QED
  BY <1>2, <1>3, <1>5, <1>7 DEF CInv

(* A statement with blocks of its own ends.                                *)
LEMMA LeavingStep ==
  ASSUME CInv, blocks[Len(blocks)].kind # "body", Going, Untold,
         blocks' = SubSeq(blocks, 1, Constructor!Depth - 1),
         Followed(runs', states', skipped, repeated),
         Kept(blocks, Len(blocks), runs', skipped, repeated),
         exits' = exits, ends' = ends, skipped' = skipped, repeated' = repeated
  PROVE  CInv'
<1>1. blocks' = Flow!Cut(blocks, Len(blocks) - 1)
  BY AtTop DEF Flow!Cut
<1>2. BlocksOK(Flow!Cut(blocks, Len(blocks) - 1), runs', skipped, repeated)
  BY Left DEF CInv
<1>3. ConstructorsInitialize'
  BY StillRight DEF CInv
<1> QED
  BY <1>1, <1>2, <1>3 DEF CInv

LEMMA EndIfStep ==
  ASSUME CInv, Constructor!EndIf
  PROVE  CInv'
<1> DEFINE n == Len(blocks)
           c == blocks[n]
<1>1. Constructor!Top = c /\ LevelOK(blocks, n, runs, skipped, repeated)
  BY AtTop
<1>2. /\ Followed(c.runs, c.states, skipped, repeated) /\ Followed(c.left, c.outs, skipped, repeated)
      /\ Kept(blocks, n, c.left, skipped, repeated) /\ Kept(blocks, n, c.runs, skipped, repeated)
  BY <1>1, FollowedIsKept DEF LevelOK
<1>3. /\ Followed(c.left \cup c.runs, c.outs \cup c.states, skipped, repeated)
      /\ Kept(blocks, n, c.left \cup c.runs, skipped, repeated)
  BY <1>2, FollowedUnion, KeptUnion
<1>4. /\ c.kind # "body" /\ blocks' = SubSeq(blocks, 1, Constructor!Depth - 1)
      /\ exits' = exits /\ ends' = ends
      /\ skipped' = skipped /\ repeated' = repeated /\ Going /\ Untold
  BY <1>1 DEF Constructor!EndIf, Constructor!Seam, Going, Untold
<1>5. \/ runs' = c.left \cup c.runs /\ states' = c.outs \cup c.states
      \/ runs' = c.left /\ states' = c.outs
  BY <1>1 DEF Constructor!EndIf
<1>6. Followed(runs', states', skipped, repeated) /\ Kept(blocks, n, runs', skipped, repeated)
  BY <1>2, <1>3, <1>5
<1> QED
  BY <1>4, <1>6, LeavingStep

LEMMA EndLoopStep ==
  ASSUME CInv, Constructor!EndLoop
  PROVE  CInv'
<1> DEFINE n == Len(blocks)
           c == blocks[n]
<1>1. Constructor!Top = c /\ LevelOK(blocks, n, runs, skipped, repeated) /\ n \in 1..n
  BY AtTop
<1>2. /\ c.kind = "loop" /\ blocks' = SubSeq(blocks, 1, Constructor!Depth - 1)
      /\ states' = c.states /\ runs' = c.runs \cup runs /\ exits' = exits /\ ends' = ends
      /\ skipped' = skipped /\ repeated' = repeated /\ Going /\ Untold
  BY <1>1 DEF Constructor!EndLoop, Constructor!Seam, Constructor!BehindLoop, Going, Untold
<1>3. /\ Followed(c.runs, c.states, skipped, repeated)
      /\ Kept(blocks, n, runs, skipped, repeated) /\ Kept(blocks, n, c.runs, skipped, repeated)
  BY <1>1, FollowedIsKept DEF LevelOK
<1>4. Kept(blocks, n, c.runs \cup runs, skipped, repeated)
  BY <1>3, KeptUnion
<1>5. Followed(c.runs \cup runs, c.states, skipped, repeated)
  <2>1. Covered(c.runs \cup runs, c.states, skipped) /\ Met(c.states, c.runs \cup runs)
    BY <1>3 DEF Followed, Kept, Covered, Met
  <2>2. LoopAt(blocks, n)
    BY <1>1, <1>2 DEF LoopAt
  <2>3. ASSUME NEW f \in Plain(skipped, repeated)
        PROVE  Within(f, c.runs \cup runs, c.states) /\ Within(f, c.states, c.runs \cup runs)
    <3>1. Within(f, c.runs, c.states) /\ Within(f, c.states, c.runs)
      BY <1>3 DEF Followed
    <3>2. Within(f, runs, c.states)
      BY <2>2, <1>3 DEF Kept
    <3> QED
      BY <3>1, <3>2 DEF Within
  <2> QED
    BY <2>1, <2>3 DEF Followed
<1> QED
  BY <1>2, <1>4, <1>5, LeavingStep

LEMMA EndSecureStep ==
  ASSUME CInv, Constructor!EndSecure
  PROVE  CInv'
<1> DEFINE n == Len(blocks)
           c == blocks[n]
<1>1. Constructor!Top = c /\ LevelOK(blocks, n, runs, skipped, repeated)
  BY AtTop
<1>2. /\ c.kind # "body" /\ blocks' = SubSeq(blocks, 1, Constructor!Depth - 1)
      /\ states' = c.states \cup states /\ runs' = c.runs \cup runs
      /\ exits' = exits /\ ends' = ends
      /\ skipped' = skipped /\ repeated' = repeated /\ Going /\ Untold
  BY <1>1 DEF Constructor!EndSecure, Constructor!Seam, Going, Untold
<1>3. /\ Followed(c.runs, c.states, skipped, repeated) /\ Followed(runs, states, skipped, repeated)
      /\ Kept(blocks, n, runs, skipped, repeated) /\ Kept(blocks, n, c.runs, skipped, repeated)
  BY <1>1, FollowedIsKept DEF LevelOK, CInv
<1>4. Kept(blocks, n, c.runs \cup runs, skipped, repeated)
  BY <1>3, KeptUnion
<1>5. Followed(c.runs \cup runs, c.states \cup states, skipped, repeated)
  BY <1>3, FollowedUnion
<1> QED
  BY <1>2, <1>4, <1>5, LeavingStep
-----------------------------------------------------------------------------
(* The end of the body: what every path has, every execution has.          *)
LEMMA ValidateStep ==
  ASSUME CInv, Constructor!validateClassFieldInitializationPolicy
  PROVE  CInv'
<1> DEFINE E == ends \cup runs
           X == exits \cup states
<1>1. /\ ends' = E /\ exits' = X /\ blocks' = blocks /\ states' = states /\ runs' = runs
      /\ warned' = warned /\ skipped' = skipped /\ repeated' = repeated
  BY DEF Constructor!validateClassFieldInitializationPolicy
<1>2. Followed(E, X, skipped, repeated)
  BY FollowedUnion DEF CInv
<1>3. verdict' = "accepted" =>
        /\ Constructor!missingRequiredFieldsFromStates(X) = {}
        /\ duplicated' = Constructor!duplicateFieldsFromStates(X)
  BY DEF Constructor!validateClassFieldInitializationPolicy
<1> HIDE DEF E, X
<1>4. ASSUME verdict' = "accepted", NEW r \in E
      PROVE  Required \subseteq r.initialized \cup skipped
  <2>1. PICK s \in X : s.initialized \subseteq r.initialized \cup skipped
    BY <1>2 DEF Followed, Covered
  <2>2. Required \ s.initialized = {}
    BY <1>3, <1>4 DEF Constructor!missingRequiredFieldsFromStates,
                      Constructor!missingRequiredFieldsFromState
  <2> QED
    BY <2>1, <2>2
<1>5. ASSUME verdict' = "accepted", NEW f \in Constructor!trackedFields \ (repeated \cup skipped)
      PROVE  f \in duplicated' <=> \E r \in E : f \in r.duplicate
  <2>1. f \in duplicated' <=> \E s \in X : f \in s.duplicate
    BY <1>3, <1>5 DEF Constructor!duplicateFieldsFromStates
  <2>2. f \in Plain(skipped, repeated)
    BY DEF Plain
  <2>3. Within(f, E, X) /\ Within(f, X, E)
    BY <2>2, <1>2 DEF Followed
  <2> QED
    BY <2>1, <2>3 DEF Within, SameMark
<1>6. Constructor!ConstructorsInitialize'
  BY <1>1, <1>4, <1>5 DEF Constructor!ConstructorsInitialize, Constructor!trackedFields
<1>7. Constructor!ConstructionWarningsExact'
  BY <1>1 DEF CInv, ConstructorsInitialize, Constructor!ConstructionWarningsExact
<1> QED
  BY <1>1, <1>2, <1>6, <1>7 DEF CInv, ConstructorsInitialize

LEMMA ConstructorInit == Constructor!Init => CInv
<1> SUFFICES ASSUME Constructor!Init PROVE CInv
  OBVIOUS
<1> DEFINE c == Constructor!Block("body")
<1>1. /\ blocks = <<c>> /\ states = {Constructor!Start} /\ runs = {Constructor!Start}
      /\ exits = {} /\ ends = {} /\ verdict = "open" /\ warned.what = {}
  BY DEF Constructor!Init
<1>2. /\ IsBlock(c) /\ c.kind = "body" /\ c.states = states /\ c.runs = runs
      /\ c.outs = {} /\ c.left = {}
  BY DEF Constructor!Block, IsBlock
<1> HIDE DEF c
<1>3. Followed(runs, states, skipped, repeated)
  BY <1>1 DEF Followed, Covered, Met, Within, SameMark
<1>4. /\ Flow!IsSeq(blocks) /\ Len(blocks) = 1 /\ blocks[1] = c
  BY <1>1 DEF Flow!IsSeq
<1>5. LevelOK(blocks, 1, Further(blocks, 1, runs), skipped, repeated)
  <2>1. Followed(runs, blocks[1].states, skipped, repeated)
    BY <1>2, <1>3, <1>4
  <2> QED
    BY <2>1, <1>2, <1>4, FollowedIsKept, NothingFollowed, NothingKept DEF LevelOK, Further
<1>6. BlocksOK(blocks, runs, skipped, repeated)
  BY <1>4, <1>5 DEF BlocksOK
<1>7. ConstructorsInitialize
  BY <1>1 DEF ConstructorsInitialize, Constructor!ConstructorsInitialize,
              Constructor!ConstructionWarningsExact
<1> QED
  BY <1>1, <1>3, <1>6, <1>7, NothingFollowed DEF CInv

LEMMA ConstructorStep == CInv /\ Constructor!Next => CInv'
<1> SUFFICES ASSUME CInv, Constructor!Next PROVE CInv'
  OBVIOUS
<1>1. ASSUME NEW f \in Constructor!trackedFields,
             Constructor!Store(f) \/ Constructor!StoreInArm(f) \/ Constructor!ReadField(f)
      PROVE  CInv'
  BY <1>1, StoreStep, StoreInArmStep, ReadFieldStep
<1>2. CASE Constructor!UseSelf \/ Constructor!Return
  BY <1>2, UseSelfStep, ReturnStep
<1>3. ASSUME NEW kind \in {"if", "loop", "catch"}, Constructor!Open(kind) PROVE CInv'
  BY <1>3, OpenStep
<1>4. ASSUME NEW kind \in {"if", "else"}, Constructor!NextBranch(kind) PROVE CInv'
  BY <1>4, NextBranchStep
<1>5. CASE Constructor!EndBranch
  BY <1>5, EndBranchStep
<1>6. CASE Constructor!EndIf \/ Constructor!EndLoop \/ Constructor!EndSecure
  BY <1>6, EndIfStep, EndLoopStep, EndSecureStep
<1>7. CASE Constructor!validateClassFieldInitializationPolicy
  BY <1>7, ValidateStep
<1> QED
  BY <1>1, <1>2, <1>3, <1>4, <1>5, <1>6, <1>7 DEF Constructor!Next
-----------------------------------------------------------------------------
(* Callable and Flow instantiate the same definitions.                     *)
LEMMA SameFlow ==
  /\ Callable!Init => Flow!Init
  /\ Flow!InitializedHasValue => Callable!InitializedHasValue
  /\ Flow!UnusedIsUnread => Callable!UnusedIsUnread
  /\ Flow!DeadStoresAreDead => Callable!DeadStoresAreDead
BY DEF Callable!Given, Flow!Given, Callable!Scope, Flow!Scope, Callable!Init, Flow!Init,
       Callable!Unset, Flow!Unset, Callable!InitializedHasValue, Flow!InitializedHasValue,
       Callable!UnusedIsUnread, Flow!UnusedIsUnread,
       Callable!DeadStoresAreDead, Flow!DeadStoresAreDead

LEMMA SameFlowStep == Callable!Next => Flow!Next
BY DEF Callable!Nobody, Flow!Nobody, Callable!Unset, Flow!Unset, Callable!Absent,
       Flow!Absent, Callable!Given, Flow!Given, Callable!Stored, Flow!Stored,
       Callable!Carried, Flow!Carried, Callable!Depth, Flow!Depth, Callable!ValuesNow,
       Flow!ValuesNow, Callable!NamedValues, Flow!NamedValues, Callable!NewStore,
       Flow!NewStore, Callable!Nearest, Flow!Nearest,
       Callable!findNearestSemanticBinding, Flow!findNearestSemanticBinding,
       Callable!findNearestSemanticUsageBinding, Flow!findNearestSemanticUsageBinding,
       Callable!findNearestSemanticDeadStoreBinding,
       Flow!findNearestSemanticDeadStoreBinding, Callable!Early, Flow!Early,
       Callable!WithinScope, Flow!WithinScope, Callable!Outer, Flow!Outer,
       Callable!Scope, Flow!Scope, Callable!MayOf, Flow!MayOf,
       Callable!clearSemanticDeadStorePendingWrites,
       Flow!clearSemanticDeadStorePendingWrites, Callable!markSemanticDeadStoreRead,
       Flow!markSemanticDeadStoreRead, Callable!ReadsOf, Flow!ReadsOf, Callable!Refused,
       Flow!Refused, Callable!UseOf, Flow!UseOf, Callable!StoreAt, Flow!StoreAt,
       Callable!markSemanticDeadStoreWrite, Flow!markSemanticDeadStoreWrite,
       Callable!Takes, Flow!Takes, Callable!Seam, Flow!Seam, Callable!Top, Flow!Top,
       Callable!Place, Flow!Place, Callable!Blocks, Flow!Blocks, Callable!Same,
       Flow!Same, Callable!Untold, Flow!Untold, Callable!Read, Flow!Read,
       Callable!Assign, Flow!Assign, Callable!AssignInArm, Flow!AssignInArm,
       Callable!Capture, Flow!Capture, Callable!Declare, Flow!Declare, Callable!Return,
       Flow!Return, Callable!Push, Flow!Push, Callable!Room, Flow!Room,
       Callable!LeftUnread, Flow!LeftUnread, Callable!LeftUnused, Flow!LeftUnused,
       Callable!CloseTop, Flow!CloseTop, Callable!Entering, Flow!Entering,
       Callable!Leaving, Flow!Leaving, Callable!JoinMay, Flow!JoinMay, Callable!Overtaken,
       Flow!Overtaken, Callable!Conditions, Flow!Conditions, Callable!Evaluating,
       Flow!Evaluating, Callable!Asking, Flow!Asking, Callable!Behind, Flow!Behind,
       Callable!OpenIf, Flow!OpenIf, Callable!OpenBranch, Flow!OpenBranch,
       Callable!NextCondition, Flow!NextCondition, Callable!OpenElse, Flow!OpenElse,
       Callable!OpenRound, Flow!OpenRound, Callable!EndBranch, Flow!EndBranch,
       Callable!mergeContinuingSemanticFlowStates,
       Flow!mergeContinuingSemanticFlowStates, Callable!ContinuingStates,
       Flow!ContinuingStates, Callable!EndIf, Flow!EndIf, Callable!OpenLoop,
       Flow!OpenLoop, Callable!EndLoop, Flow!EndLoop, Callable!OpenSecure,
       Flow!OpenSecure, Callable!EndSecure, Flow!EndSecure,
       Callable!validateCallableSemanticFlow, Flow!validateCallableSemanticFlow,
       Callable!Next, Flow!Next

-----------------------------------------------------------------------------
(* Class declarations, as the sequence s of the admitted ones.             *)
None == Declarations!None
Sub(type, p, arg) == Declarations!substituteTypeParams(type, p, arg)

(* A class and its ancestors stand in the order of their declarations, and *)
(* a type argument says nothing of a type without parameters.              *)
LineOK(s, c) ==
  /\ s[c].base \in 0..(c - 1)
  /\ s[c].above = {c} \cup (IF s[c].base = 0 THEN {} ELSE s[s[c].base].above)
  /\ s[c].above \subseteq 1..c
  /\ \A d \in s[c].above : s[d].above \subseteq s[c].above
  /\ \A x, y \in s[c].above : x <= y => x \in s[y].above
  /\ s[c].base # 0 => \A g \in Grounds : Sub(g, s[s[c].base].param, s[c].arg) = g
  /\ s[c].member.kind \in {None, "method", "field"}
  /\ s[c].param \in Parameters \cup {None}

LinesOK(s) == Flow!IsSeq(s) /\ \A c \in 1..Len(s) : LineOK(s, c)

Holders(s, c, kind) == {d \in s[c].above : s[d].member.kind = kind}
Finds(s, c, kind) ==
  IF Holders(s, c, kind) = {} THEN 0 ELSE Declarations!Max(Holders(s, c, kind))

Plainly(s, c, d) ==
  s[d].member.kind = "method" => s[d].member.type \in Grounds \/ s[c].base = d

(* What a class keeps of one ancestor.  Where the checks are right about   *)
(* the types, only the direct superclass says one that is replaced.        *)
Keeps(s, c, d) ==
  (s[c].member.kind # None /\ s[d].member.kind # None) =>
    /\ s[c].member.kind = s[d].member.kind
    /\ s[c].member.kind = "method" =>
         /\ s[c].member.hidden => s[d].member.hidden
         /\ (\A e \in s[c].above \ {c} : Plainly(s, c, e)) =>
              s[c].member.type = IF s[c].base = d THEN Sub(s[d].member.type, s[d].param, s[c].arg)
                                 ELSE s[d].member.type

Conforming(s, c, k) ==
  s[c].ifaceArg # None =>
    \E d \in s[c].above :
      /\ d = Finds(s, c, k.kind)
      /\ s[d].member.hidden => k.hidden
      /\ d = c \/ s[d].member.type \in Grounds =>
           s[d].member.type = Sub(k.type, Declarations!IfaceParam, s[c].ifaceArg)

(* The types seen along the chains are defined, one class after the other. *)
SeenBody(s, f, d, type, e) ==
  IF e = d \/ d \notin s[e].above THEN type
  ELSE Sub(f[s[e].base], s[s[e].base].param, s[e].arg)
Seeing(s, d, type) == \E f : f = [e \in 1..Len(s) |-> SeenBody(s, f, d, type, e)]

KInv ==
  /\ LinesOK(classes)
  /\ \A c \in 1..Len(classes) : \A d \in classes[c].above \ {c} : Keeps(classes, c, d)
  /\ \A c \in 1..Len(classes) : Conforming(classes, c, contract)
  /\ \A d, type : Seeing(classes, d, type)

LEMMA FindFacts ==
  ASSUME NEW s, NEW c \in Nat, s[c].above \subseteq 1..c, NEW kind
  PROVE  /\ Finds(s, c, kind) \in 0..c
         /\ Finds(s, c, kind) = 0 => \A d \in s[c].above : s[d].member.kind # kind
         /\ Finds(s, c, kind) # 0 =>
              /\ Finds(s, c, kind) \in s[c].above
              /\ s[Finds(s, c, kind)].member.kind = kind
              /\ \A d \in s[c].above : s[d].member.kind = kind => d <= Finds(s, c, kind)
<1> DEFINE H == Holders(s, c, kind)
<1>1. H \in SUBSET (1..c) /\ \A d : d \in H <=> (d \in s[c].above /\ s[d].member.kind = kind)
  BY DEF Holders
<1>2. PICK h : h = Finds(s, c, kind)
  OBVIOUS
<1>3. h = IF H = {} THEN 0 ELSE CHOOSE x \in H : \A y \in H : x >= y
  BY <1>2 DEF Finds, Declarations!Max
<1> HIDE DEF H
<1>4. /\ h \in 0..c
      /\ h = 0 => H = {}
      /\ h # 0 => h \in H /\ \A d \in H : d <= h
  <2>1. CASE H = {}
    BY <1>3, <2>1
  <2>2. CASE H # {}
    <3>1. PICK m \in H : \A y \in H : y <= m
      BY <1>1, <2>2, Flow!Greatest
    <3>2. \A y \in H : m >= y
      BY <1>1, <3>1
    <3>3. h \in H /\ \A y \in H : h >= y
      BY <1>3, <2>2, <3>1, <3>2
    <3>4. h \in 1..c /\ \A y \in H : y <= h
      BY <1>1, <3>3
    <3> QED
      BY <3>3, <3>4
  <2> QED
    BY <2>1, <2>2
<1> QED
  BY <1>1, <1>2, <1>4

(* What the checks call by other names.                                    *)
LEMMA SameClasses ==
  /\ \A c : Declarations!Above(c) = classes[c].above
  /\ \A c, kind : Declarations!FindRecursive(c, kind) = Finds(classes, c, kind)
  /\ \A c, d : Declarations!Plain(c, d) <=> Plainly(classes, c, d)
BY DEF Declarations!Above, Declarations!FindRecursive, Finds, Holders, Declarations!Plain, Plainly

(* The types seen along a chain: those of the direct superclass and those  *)
(* that no argument can replace.                                           *)
LEMMA SeenTypes ==
  ASSUME LinesOK(classes), NEW c \in 1..Len(classes), NEW d \in classes[c].above, NEW type,
         Seeing(classes, d, type)
  PROVE  /\ c = d => Declarations!SeenFrom(c, d, type) = type
         /\ (c # d /\ classes[c].base = d) =>
              Declarations!SeenFrom(c, d, type) = Sub(type, classes[d].param, classes[c].arg)
         /\ type \in Grounds => Declarations!SeenFrom(c, d, type) = type
<1> DEFINE D == 1..Len(classes)
           f == CHOOSE f : f = [e \in D |-> SeenBody(classes, f, d, type, e)]
<1>1. f = [e \in D |-> SeenBody(classes, f, d, type, e)]
  BY DEF Seeing
<1>2. DOMAIN classes = D /\ Len(classes) \in Nat
  BY DEF LinesOK, Flow!IsSeq
<1>3. Declarations!SeenFrom(c, d, type) = f[c]
  BY <1>2 DEF Declarations!SeenFrom, SeenBody, Declarations!Above, Sub
<1> HIDE DEF f
<1>4. \A e \in D : f[e] = SeenBody(classes, f, d, type, e)
  BY <1>1
<1>5. \A e \in D : LineOK(classes, e)
  BY DEF LinesOK
<1>6. ASSUME NEW e \in D, d \in classes[e].above, e # d
      PROVE  /\ classes[e].base \in D /\ classes[e].base < e /\ classes[e].base # 0
             /\ d \in classes[classes[e].base].above
             /\ f[e] = Sub(f[classes[e].base], classes[classes[e].base].param, classes[e].arg)
  <2>1. LineOK(classes, e)
    BY <1>5
  <2>2. classes[e].base # 0 /\ d \in classes[classes[e].base].above
    BY <2>1, <1>6 DEF LineOK
  <2>3. classes[e].base \in D /\ classes[e].base < e
    BY <1>2, <2>1, <2>2 DEF LineOK
  <2>4. f[e] = SeenBody(classes, f, d, type, e)
    BY <1>4
  <2> QED
    BY <1>6, <2>2, <2>3, <2>4 DEF SeenBody
<1>7. \A e \in D : e = d \/ d \notin classes[e].above => f[e] = type
  BY <1>4 DEF SeenBody
<1>8. ASSUME c # d, classes[c].base = d
      PROVE  f[c] = Sub(type, classes[d].param, classes[c].arg)
  <2>1. d \in D /\ f[c] = Sub(f[d], classes[d].param, classes[c].arg)
    BY <1>6, <1>8
  <2> QED
    BY <1>7, <2>1
<1>9. ASSUME type \in Grounds PROVE f[c] = type
  <2> DEFINE S == {e \in D : f[e] # type}
  <2>1. SUFFICES ASSUME S # {} PROVE FALSE
    OBVIOUS
  <2>2. S \in SUBSET Nat
    OBVIOUS
  <2> HIDE DEF S
  <2>3. PICK e \in S : \A x \in S : e <= x
    BY <2>1, <2>2, Flow!Least
  <2>4. e \in D /\ f[e] # type /\ e \in Nat
    BY DEF S
  <2>5. e # d /\ d \in classes[e].above
    BY <1>7, <2>4
  <2>6. /\ classes[e].base \in D /\ classes[e].base < e /\ classes[e].base # 0
        /\ f[e] = Sub(f[classes[e].base], classes[classes[e].base].param, classes[e].arg)
    BY <1>6, <2>4, <2>5
  <2>7. classes[e].base \notin S
    BY <2>3, <2>4, <2>6
  <2>8. f[classes[e].base] = type
    BY <2>6, <2>7 DEF S
  <2>9. Sub(type, classes[classes[e].base].param, classes[e].arg) = type
    BY <1>5, <1>9, <2>4, <2>6 DEF LineOK
  <2> QED
    BY <2>4, <2>6, <2>8, <2>9
<1> QED
  BY <1>3, <1>7, <1>8, <1>9

(* The claims as the analysis of the program states them.                  *)
LEMMA ContractsFollow == KInv => ContractsKept
<1> SUFFICES ASSUME KInv
             PROVE  Declarations!SubclassesKeepContracts /\ Declarations!ClassesConform
  BY DEF ContractsKept
<1>1. DOMAIN classes = 1..Len(classes) /\ \A c \in 1..Len(classes) : LineOK(classes, c)
  BY DEF KInv, LinesOK, Flow!IsSeq
<1>2. ASSUME NEW c \in 1..Len(classes), NEW d \in classes[c].above \ {c},
             classes[c].member.kind # None, classes[d].member.kind # None
      PROVE  /\ classes[c].member.kind = classes[d].member.kind
             /\ classes[c].member.kind = "method" =>
                  /\ classes[c].member.hidden => classes[d].member.hidden
                  /\ (\A e \in classes[c].above \ {c} : Plainly(classes, c, e)) =>
                       classes[c].member.type = Declarations!SeenFrom(c, d, classes[d].member.type)
  <2>1. Keeps(classes, c, d) /\ Seeing(classes, d, classes[d].member.type) /\ LinesOK(classes)
    BY DEF KInv
  <2>2. ASSUME classes[c].member.kind = "method",
               \A e \in classes[c].above \ {c} : Plainly(classes, c, e)
        PROVE  classes[c].member.type = Declarations!SeenFrom(c, d, classes[d].member.type)
    <3>1. CASE classes[c].base = d
      <4>1. Declarations!SeenFrom(c, d, classes[d].member.type)
              = Sub(classes[d].member.type, classes[d].param, classes[c].arg)
        BY <2>1, <3>1, SeenTypes
      <4> QED
        BY <4>1, <1>2, <2>1, <2>2, <3>1 DEF Keeps
    <3>2. CASE classes[c].base # d
      <4>1. classes[d].member.type \in Grounds /\ classes[c].member.type = classes[d].member.type
        BY <1>2, <2>1, <2>2, <3>2 DEF Keeps, Plainly
      <4>2. Declarations!SeenFrom(c, d, classes[d].member.type) = classes[d].member.type
        BY <2>1, <4>1, SeenTypes
      <4> QED
        BY <4>1, <4>2
    <3> QED
      BY <3>1, <3>2
  <2> QED
    BY <1>2, <2>1, <2>2 DEF Keeps
<1>3. Declarations!SubclassesKeepContracts
  BY <1>1, <1>2, SameClasses DEF Declarations!SubclassesKeepContracts, None
<1>4. ASSUME NEW c \in 1..Len(classes), classes[c].ifaceArg # None
      PROVE  \E d \in classes[c].above :
               /\ d = Finds(classes, c, contract.kind)
               /\ classes[d].member.hidden => contract.hidden
               /\ (d = c \/ classes[d].member.type \in Grounds) =>
                    Declarations!SeenFrom(c, d, classes[d].member.type) =
                      Sub(contract.type, Declarations!IfaceParam, classes[c].ifaceArg)
  <2>1. PICK d \in classes[c].above :
          /\ d = Finds(classes, c, contract.kind)
          /\ classes[d].member.hidden => contract.hidden
          /\ d = c \/ classes[d].member.type \in Grounds =>
               classes[d].member.type = Sub(contract.type, Declarations!IfaceParam, classes[c].ifaceArg)
    BY <1>4 DEF KInv, Conforming
  <2>2. Seeing(classes, d, classes[d].member.type) /\ LinesOK(classes)
    BY DEF KInv
  <2>3. (d = c \/ classes[d].member.type \in Grounds) =>
          Declarations!SeenFrom(c, d, classes[d].member.type) = classes[d].member.type
    BY <2>2, SeenTypes
  <2> QED
    BY <2>1, <2>3
<1>5. Declarations!ClassesConform
  BY <1>1, <1>4, SameClasses DEF Declarations!ClassesConform, None, Sub
<1> QED
  BY <1>3, <1>5

(* One more class.                                                         *)
Longer(s, t) ==
  /\ Flow!IsSeq(s) /\ Flow!IsSeq(t) /\ Len(s) \in Nat /\ Len(t) = Len(s) + 1
  /\ \A i \in 1..Len(s) : t[i] = s[i]

LEMMA ClassesBefore ==
  ASSUME NEW s, NEW t, LinesOK(s), Longer(s, t), NEW c \in 1..Len(s)
  PROVE  /\ t[c] = s[c] /\ LineOK(s, c) /\ c \in Nat /\ c <= Len(s)
         /\ \A d \in s[c].above : d \in 1..Len(s) /\ d <= c /\ t[d] = s[d]
         /\ \A kind : Finds(t, c, kind) = Finds(s, c, kind)
         /\ \A d \in s[c].above : Keeps(s, c, d) => Keeps(t, c, d)
         /\ \A k : Conforming(s, c, k) => Conforming(t, c, k)
         /\ LineOK(t, c)
<1>1. LineOK(s, c) /\ c \in Nat /\ c <= Len(s) /\ t[c] = s[c]
  BY DEF LinesOK, Longer
<1>2. ASSUME NEW d \in s[c].above PROVE d \in 1..Len(s) /\ d <= c /\ t[d] = s[d]
  <2>1. d \in 1..c
    BY <1>1 DEF LineOK
  <2>2. d \in 1..Len(s) /\ d <= c
    BY <1>1, <2>1 DEF Longer
  <2> QED
    BY <2>2 DEF Longer
<1>3. \A kind : Finds(t, c, kind) = Finds(s, c, kind)
  <2>1. \A kind : Holders(t, c, kind) = Holders(s, c, kind)
    BY <1>1, <1>2 DEF Holders
  <2> QED
    BY <2>1 DEF Finds
<1>4. \A d \in s[c].above : Keeps(s, c, d) => Keeps(t, c, d)
  BY <1>1, <1>2 DEF Keeps, Plainly
<1>5. \A k : Conforming(s, c, k) => Conforming(t, c, k)
  BY <1>1, <1>2, <1>3 DEF Conforming
<1>6. LineOK(t, c)
  <2>1. s[c].base # 0 => t[s[c].base] = s[s[c].base]
    <3>1. s[c].base # 0 => s[c].base \in 1..Len(s)
      BY <1>1 DEF LineOK, Longer
    <3> QED
      BY <3>1 DEF Longer
  <2> QED
    BY <1>1, <1>2, <2>1 DEF LineOK
<1> QED
  BY <1>1, <1>2, <1>3, <1>4, <1>5, <1>6

LEMMA SeeingMore ==
  ASSUME NEW s, NEW t, LinesOK(s), Longer(s, t), LineOK(t, Len(t)), NEW d, NEW type,
         Seeing(s, d, type)
  PROVE  Seeing(t, d, type)
<1> DEFINE n == Len(s)
<1>0. n \in Nat /\ Len(t) = n + 1
  BY DEF Longer
<1> HIDE DEF n
<1>1. PICK f : f = [e \in 1..n |-> SeenBody(s, f, d, type, e)]
  BY DEF Seeing, n
<1> DEFINE g == [e \in 1..(n + 1) |-> IF e = n + 1 THEN SeenBody(t, f, d, type, e) ELSE f[e]]
<1>2. /\ \A e \in 1..n : g[e] = f[e] /\ f[e] = SeenBody(s, f, d, type, e)
      /\ g[n + 1] = SeenBody(t, f, d, type, n + 1)
  <2>1. n + 1 \in 1..(n + 1) /\ \A e \in 1..n : e \in 1..(n + 1) /\ e # n + 1
    BY <1>0
  <2>2. \A e \in 1..n : f[e] = SeenBody(s, f, d, type, e)
    BY <1>1
  <2> QED
    BY <2>1, <2>2
<1>a. DOMAIN g = 1..(n + 1) /\ g = [e \in 1..(n + 1) |-> g[e]]
  OBVIOUS
<1> HIDE DEF g
<1>3. ASSUME NEW e \in 1..n PROVE g[e] = SeenBody(t, g, d, type, e)
  <2>1. /\ t[e] = s[e] /\ LineOK(s, e) /\ e \in Nat /\ e <= n
    BY <1>3, ClassesBefore DEF n
  <2>2. CASE e = d \/ d \notin s[e].above
    BY <2>1, <2>2, <1>2, <1>3 DEF SeenBody
  <2>3. CASE ~ (e = d \/ d \notin s[e].above)
    <3>1. s[e].base \in 1..n
      BY <2>1, <2>3, <1>0 DEF LineOK
    <3>2. t[s[e].base] = s[s[e].base] /\ g[s[e].base] = f[s[e].base]
      BY <3>1, <1>2 DEF Longer, n
    <3> QED
      BY <2>1, <2>3, <3>2, <1>2, <1>3 DEF SeenBody
  <2> QED
    BY <2>2, <2>3
<1>4. g[n + 1] = SeenBody(t, g, d, type, n + 1)
  <2>1. LineOK(t, n + 1)
    BY <1>0
  <2>2. CASE n + 1 = d \/ d \notin t[n + 1].above
    BY <2>2, <1>2 DEF SeenBody
  <2>3. CASE ~ (n + 1 = d \/ d \notin t[n + 1].above)
    <3>1. t[n + 1].base \in 1..n
      <4>1. t[n + 1].base \in 0..((n + 1) - 1)
        BY <2>1 DEF LineOK
      <4>2. t[n + 1].base # 0
        BY <2>1, <2>3 DEF LineOK
      <4> QED
        BY <4>1, <4>2, <1>0
    <3>2. g[t[n + 1].base] = f[t[n + 1].base]
      BY <3>1, <1>2
    <3> QED
      BY <2>3, <3>2, <1>2 DEF SeenBody
  <2> QED
    BY <2>2, <2>3
<1>5. \A e \in 1..(n + 1) : g[e] = SeenBody(t, g, d, type, e)
  <2>1. \A e \in 1..(n + 1) : e \in 1..n \/ e = n + 1
    BY <1>0
  <2> QED
    BY <2>1, <1>3, <1>4
<1>6. g = [e \in 1..(n + 1) |-> SeenBody(t, g, d, type, e)]
  BY <1>5, <1>a
<1> QED
  BY <1>0, <1>6 DEF Seeing

(* What the checks ask of class c<param> : base<arg> { member }, where the *)
(* classes before it are as claimed.                                       *)
IsDeclared(t, c, param, base, arg, member, ifaceArg) ==
  /\ t[c].param = param /\ t[c].base = base /\ t[c].arg = arg
  /\ t[c].member = member /\ t[c].ifaceArg = ifaceArg
  /\ t[c].above = {c} \cup (IF base = 0 THEN {} ELSE t[base].above)

LEMMA NewLine ==
  ASSUME NEW s, NEW t, LinesOK(s), Longer(s, t),
         NEW param \in Parameters \cup {None}, NEW base \in 0..Len(s), NEW arg, NEW member, NEW ifaceArg,
         IsDeclared(t, Len(t), param, base, arg, member, ifaceArg),
         member.kind \in {None, "method", "field"},
         base # 0 /\ s[base].param = None => arg = None
  PROVE  LineOK(t, Len(t))
<1> DEFINE c == Len(s) + 1
<1>1. c = Len(t) /\ c \in Nat /\ Len(s) \in Nat /\ base \in 0..(c - 1) /\ base \in Nat
  BY DEF Longer
<1>2. /\ t[c].base = base /\ t[c].arg = arg /\ t[c].member = member /\ t[c].param = param
      /\ t[c].above = {c} \cup (IF base = 0 THEN {} ELSE t[base].above)
  BY <1>1 DEF IsDeclared
<1>3. base # 0 => base \in 1..Len(s)
  BY <1>1
<1> HIDE DEF c
<1>4. ASSUME base # 0
      PROVE  /\ t[base] = s[base] /\ t[base].above \subseteq 1..base /\ base < c
             /\ \A d \in t[base].above : t[d].above \subseteq t[base].above
             /\ \A g \in Grounds : Sub(g, t[base].param, arg) = g
  <2>1. t[base] = s[base] /\ LineOK(s, base) /\ LineOK(t, base)
    BY <1>3, <1>4, ClassesBefore
  <2>2. \A g \in Grounds : Sub(g, t[base].param, arg) = g
    <3>1. CASE s[base].param = None
      BY <1>4, <2>1, <3>1 DEF Sub, Declarations!substituteTypeParams
    <3>2. CASE s[base].param # None
      <4>1. t[base].param \in Parameters
        BY <2>1, <3>2 DEF LineOK
      <4>2. \A g \in Grounds : g # t[base].param
        BY <4>1, AnalysisAssumption
      <4> QED
        BY <4>2 DEF Sub, Declarations!substituteTypeParams
    <3> QED
      BY <3>1, <3>2
  <2>3. base < c
    BY <1>1, <1>4
  <2> QED
    BY <2>1, <2>2, <2>3 DEF LineOK
<1>5. t[c].above \subseteq 1..c
  <2>1. CASE base = 0
    BY <2>1, <1>1, <1>2
  <2>2. CASE base # 0
    BY <2>2, <1>1, <1>2, <1>4
  <2> QED
    BY <2>1, <2>2
<1>6. ASSUME NEW d \in t[c].above PROVE t[d].above \subseteq t[c].above
  <2>1. CASE d = c
    BY <2>1
  <2>2. CASE d # c
    BY <2>2, <1>2, <1>4, <1>6
  <2> QED
    BY <2>1, <2>2
<1>7. ASSUME NEW x \in t[c].above, NEW y \in t[c].above, x <= y PROVE x \in t[y].above
  <2>1. CASE y = c
    BY <2>1
  <2>2. CASE y # c
    <3>1. base # 0 /\ y \in t[base].above /\ y \in 1..base
      BY <2>2, <1>2, <1>4
    <3>2. x # c
      BY <3>1, <1>1, <1>4, <1>7
    <3>3. x \in s[base].above /\ y \in s[base].above /\ LineOK(s, base) /\ t[y] = s[y]
      BY <3>1, <3>2, <1>2, <1>3, <1>4, ClassesBefore
    <3> QED
      BY <3>3, <1>7 DEF LineOK
  <2> QED
    BY <2>1, <2>2
<1>8. LineOK(t, c)
  BY <1>1, <1>2, <1>4, <1>5, <1>6, <1>7 DEF LineOK
<1> QED
  BY <1>1, <1>8

(* The check of an override, where the classes before are s.               *)
Admitted(s, base, arg, member) ==
  /\ member.kind = "field" => Finds(s, base, "method") = 0
  /\ member.kind = "method" => Finds(s, base, "field") = 0
  /\ (member.kind = "method" /\ Finds(s, base, "method") # 0) =>
       LET inherited == s[Finds(s, base, "method")].member
       IN /\ inherited.hidden \/ ~ member.hidden
          /\ Sub(inherited.type, s[base].param, arg) = member.type

LEMMA NewKeeps ==
  ASSUME NEW s, NEW t, LinesOK(s), \A x \in 1..Len(s) : \A y \in s[x].above \ {x} : Keeps(s, x, y),
         Longer(s, t), NEW c, c = Len(t), LineOK(t, c),
         NEW base \in 1..Len(s), t[c].base = base, t[c].above = {c} \cup t[base].above,
         NEW member, t[c].member = member, Admitted(s, base, t[c].arg, member),
         member.kind \in {None, "method", "field"}, NEW d \in t[c].above \ {c}
  PROVE  Keeps(t, c, d)
<1>1. /\ c \in Nat /\ base \in Nat /\ base < c
      /\ t[base] = s[base] /\ LineOK(s, base)
      /\ \A y \in s[base].above : y \in 1..Len(s) /\ y <= base /\ t[y] = s[y]
  BY ClassesBefore DEF Longer
<1>2. d \in s[base].above /\ t[d] = s[d] /\ d \in 1..Len(s) /\ d <= base /\ s[base].above \subseteq 1..base
  BY <1>1 DEF LineOK
<1> SUFFICES ASSUME member.kind # None, s[d].member.kind # None
             PROVE  /\ member.kind = s[d].member.kind
                    /\ member.kind = "method" =>
                         /\ member.hidden => s[d].member.hidden
                         /\ (\A e \in t[c].above \ {c} : Plainly(t, c, e)) =>
                              member.type = IF base = d THEN Sub(s[d].member.type, s[d].param, t[c].arg)
                                            ELSE s[d].member.type
  BY <1>2 DEF Keeps
<1>3. LineOK(s, d)
  BY <1>2, ClassesBefore
<1>4. member.kind = s[d].member.kind
  <2>1. s[d].member.kind \in {"method", "field"}
    BY <1>3 DEF LineOK
  <2>2. /\ Finds(s, base, "field") = 0 => s[d].member.kind # "field"
        /\ Finds(s, base, "method") = 0 => s[d].member.kind # "method"
    BY <1>1, <1>2, FindFacts
  <2> QED
    BY <2>1, <2>2 DEF Admitted
<1>5. SUFFICES ASSUME member.kind = "method"
               PROVE  /\ member.hidden => s[d].member.hidden
                      /\ (\A e \in t[c].above \ {c} : Plainly(t, c, e)) =>
                           member.type = IF base = d THEN Sub(s[d].member.type, s[d].param, t[c].arg)
                                         ELSE s[d].member.type
  BY <1>4
<1> DEFINE h == Finds(s, base, "method")
<1>6. /\ h # 0 /\ h \in s[base].above /\ s[h].member.kind = "method"
      /\ d <= h /\ h \in 0..base
  <2>1. /\ h \in 0..base
        /\ h = 0 => \A y \in s[base].above : s[y].member.kind # "method"
        /\ h # 0 =>
             /\ h \in s[base].above /\ s[h].member.kind = "method"
             /\ \A y \in s[base].above : s[y].member.kind = "method" => y <= h
    BY <1>1, <1>2, FindFacts
  <2> HIDE DEF h
  <2> QED
    BY <2>1, <1>2, <1>4, <1>5
<1>7. /\ s[h].member.hidden \/ ~ member.hidden
      /\ Sub(s[h].member.type, s[base].param, t[c].arg) = member.type
  BY <1>5, <1>6 DEF Admitted
<1> HIDE DEF h
<1>8. h \in 1..Len(s) /\ LineOK(s, h) /\ h <= base
  BY <1>1, <1>6, ClassesBefore
<1>9. d \in s[h].above /\ (h # d => Keeps(s, h, d)) /\ s[h].above \subseteq s[base].above
  <2>1. d \in s[h].above /\ s[h].above \subseteq s[base].above
    BY <1>1, <1>2, <1>6 DEF LineOK
  <2> QED
    BY <2>1, <1>8
<1>10. member.hidden => s[d].member.hidden
  BY <1>4, <1>5, <1>6, <1>7, <1>9 DEF Keeps
<1>11. ASSUME \A e \in t[c].above \ {c} : Plainly(t, c, e), base = d
       PROVE  member.type = Sub(s[d].member.type, s[d].param, t[c].arg)
  <2>1. h = d
    BY <1>1, <1>2, <1>6, <1>8, <1>11
  <2> QED
    BY <2>1, <1>7, <1>11
<1>12. ASSUME \A e \in t[c].above \ {c} : Plainly(t, c, e), base # d
       PROVE  member.type = s[d].member.type
  <2>1. s[d].member.type \in Grounds
    BY <1>2, <1>4, <1>5, <1>12 DEF Plainly
  <2>2. s[h].member.type = s[d].member.type
    <3>1. CASE h = d
      BY <3>1
    <3>2. CASE h # d
      <4>1. ASSUME NEW e \in s[h].above \ {h} PROVE Plainly(s, h, e)
        <5>1. e \in s[base].above /\ t[e] = s[e] /\ e \in 1..h /\ e # base /\ e # c
          <6>1. e \in s[base].above /\ e \in 1..h
            BY <1>8, <1>9 DEF LineOK
          <6> QED
            BY <6>1, <1>1, <1>8, <4>1
        <5>2. Plainly(t, c, e)
          BY <5>1, <1>1, <1>12
        <5> QED
          BY <5>1, <5>2 DEF Plainly
      <4>2. s[h].member.type = IF s[h].base = d THEN Sub(s[d].member.type, s[d].param, s[h].arg)
                               ELSE s[d].member.type
        BY <4>1, <3>2, <1>4, <1>5, <1>6, <1>9 DEF Keeps
      <4>3. s[h].base = d => Sub(s[d].member.type, s[d].param, s[h].arg) = s[d].member.type
        <5>1. d # 0
          BY <1>2
        <5> QED
          BY <5>1, <2>1, <1>8 DEF LineOK
      <4> QED
        BY <4>2, <4>3
    <3> QED
      BY <3>1, <3>2
  <2>3. Sub(s[d].member.type, s[base].param, t[c].arg) = s[d].member.type
    <3>1. base # 0 /\ t[base].param = s[base].param
      BY <1>1
    <3> QED
      BY <3>1, <2>1 DEF LineOK
  <2> QED
    BY <2>2, <2>3, <1>7
<1> QED
  BY <1>10, <1>11, <1>12

(* The check of the interface's contract k.                                *)
Implements(s, base, member, ifaceArg, k) ==
  LET holder == IF base = 0 THEN 0 ELSE Finds(s, base, k.kind)
      found == IF member.kind = k.kind THEN member
               ELSE IF holder = 0 THEN Declarations!NoMember ELSE s[holder].member
  IN /\ found # Declarations!NoMember
     /\ k.hidden \/ ~ found.hidden
     /\ Sub(k.type, Declarations!IfaceParam, ifaceArg) = found.type

LEMMA NewConforms ==
  ASSUME NEW s, NEW t, LinesOK(s), Longer(s, t), NEW c, c = Len(t), LineOK(t, c),
         NEW base \in 0..Len(s), t[c].base = base,
         t[c].above = {c} \cup (IF base = 0 THEN {} ELSE t[base].above),
         NEW k, Implements(s, base, t[c].member, t[c].ifaceArg, k)
  PROVE  Conforming(t, c, k)
<1> DEFINE member == t[c].member
<1>1. c \in Nat /\ c = Len(s) + 1 /\ c \in t[c].above /\ t[c].above \subseteq 1..c
  BY DEF Longer, LineOK
<1> DEFINE h == Finds(t, c, k.kind)
<1>2. /\ h \in 0..c
      /\ h = 0 => \A d \in t[c].above : t[d].member.kind # k.kind
      /\ h # 0 => h \in t[c].above /\ t[h].member.kind = k.kind
                 /\ \A d \in t[c].above : t[d].member.kind = k.kind => d <= h
  BY <1>1, FindFacts
<1>3. CASE member.kind = k.kind
  <2>1. h = c
    <3> HIDE DEF h
    <3>1. h # 0 /\ c <= h
      BY <1>1, <1>2, <1>3
    <3> QED
      BY <3>1, <1>1, <1>2
  <2>2. /\ k.hidden \/ ~ member.hidden
        /\ member.type = Sub(k.type, Declarations!IfaceParam, t[c].ifaceArg)
    BY <1>3 DEF Implements
  <2>3. c = Finds(t, c, k.kind)
    BY <2>1
  <2> QED
    BY <2>2, <2>3, <1>1 DEF Conforming
<1>4. CASE member.kind # k.kind
  <2> DEFINE g == Finds(s, base, k.kind)
  <2>1. /\ base # 0 /\ g # 0
        /\ k.hidden \/ ~ s[g].member.hidden
        /\ s[g].member.type = Sub(k.type, Declarations!IfaceParam, t[c].ifaceArg)
    BY <1>4 DEF Implements
  <2>2. base \in 1..Len(s)
    BY <2>1, <1>1
  <2>3. /\ g = Finds(t, base, k.kind) /\ LineOK(t, base) /\ base \in Nat
        /\ \A d \in s[base].above : t[d] = s[d]
        /\ t[base] = s[base]
    BY <2>2, ClassesBefore
  <2>4. Holders(t, c, k.kind) = Holders(t, base, k.kind)
    BY <2>1, <1>4 DEF Holders
  <2>5. h = g
    BY <2>3, <2>4 DEF Finds
  <2>6. g \in t[base].above
    <3>1. t[base].above \subseteq 1..base
      BY <2>3 DEF LineOK
    <3>2. Finds(t, base, k.kind) # 0 => Finds(t, base, k.kind) \in t[base].above
      BY <3>1, <2>3, FindFacts
    <3> QED
      BY <3>2, <2>1, <2>3
  <2>7. t[g] = s[g] /\ g \in t[c].above
    BY <2>1, <2>3, <2>6
  <2>8. g = Finds(t, c, k.kind)
    BY <2>5
  <2> HIDE DEF g
  <2> QED
    BY <2>1, <2>7, <2>8 DEF Conforming
<1> QED
  BY <1>3, <1>4

LEMMA ClassStep == KInv /\ Declarations!Next => KInv'
<1> SUFFICES ASSUME KInv, Declarations!Next PROVE KInv'
  OBVIOUS
<1>1. PICK param \in Parameters \cup {None}, base \in 0..MaxClasses,
           arg \in Declarations!Types \cup {None},
           member \in Declarations!MembersOver(Declarations!Types),
           ifaceArg \in Declarations!Types \cup {None} :
        Declarations!DeclareClass(param, base, arg, member, ifaceArg)
  BY DEF Declarations!Next, None
<1> DEFINE n == Len(classes)
           c == n + 1
           e == [param |-> param, base |-> base, arg |-> arg, member |-> member, ifaceArg |-> ifaceArg,
                 above |-> {c} \cup IF base = 0 THEN {} ELSE Declarations!Above(base)]
<1>2. /\ base = 0 \/ base \in DOMAIN classes
      /\ IF base = 0 \/ classes[base].param = None THEN arg = None ELSE TRUE
      /\ base # 0 => Declarations!validateClassOverrideContracts(base, arg, member)
      /\ ifaceArg # None => Declarations!Conforms(base, member, ifaceArg)
      /\ classes' = Flow!Grown(classes, e) /\ contract' = contract
  BY <1>1 DEF Declarations!DeclareClass, None, Flow!Grown
<1>3. LinesOK(classes) /\ Flow!IsSeq(classes) /\ DOMAIN classes = 1..n /\ n \in Nat
  BY DEF KInv, LinesOK, Flow!IsSeq
<1>4. /\ e.param = param /\ e.base = base /\ e.arg = arg /\ e.member = member
      /\ e.ifaceArg = ifaceArg
      /\ e.above = {c} \cup IF base = 0 THEN {} ELSE classes[base].above
  BY SameClasses
<1> HIDE DEF e
<1>5. Longer(classes, classes') /\ classes'[c] = e /\ Len(classes') = c
  BY <1>2, <1>3, Flow!PushSeq DEF Longer
<1>6. base \in 0..n /\ (base # 0 => base \in 1..n /\ classes'[base] = classes[base])
  BY <1>2, <1>3, <1>5 DEF Longer
<1> HIDE DEF n, c
<1>7. IsDeclared(classes', c, param, base, arg, member, ifaceArg)
  BY <1>4, <1>5, <1>6 DEF IsDeclared
<1>8. member.kind \in {None, "method", "field"}
  BY DEF Declarations!MembersOver, Declarations!NoMember, None
<1>9. LineOK(classes', c)
  BY <1>2, <1>3, <1>5, <1>6, <1>7, <1>8, NewLine DEF n
<1>10. base # 0 => Admitted(classes, base, arg, member)
  BY <1>2, SameClasses DEF Declarations!validateClassOverrideContracts, Admitted,
       Declarations!protectedVisibilityCompatible, Declarations!RequiredType, Sub
<1>11. ifaceArg # None => Implements(classes, base, member, ifaceArg, contract)
  BY <1>2, SameClasses DEF Declarations!Conforms, Implements,
       Declarations!protectedVisibilityCompatible, Declarations!ContractType, Sub
<1>12. \A x \in 1..Len(classes') : x \in 1..Len(classes) \/ x = c
  BY <1>3, <1>5 DEF c, n
<1>13. LinesOK(classes')
  BY <1>3, <1>5, <1>9, <1>12, ClassesBefore DEF LinesOK, Longer
<1>14. ASSUME NEW x \in 1..Len(classes'), NEW d \in classes'[x].above \ {x}
       PROVE  Keeps(classes', x, d)
  <2>1. CASE x = c
    <3>1. base # 0
      BY <1>7, <1>14, <2>1 DEF IsDeclared
    <3>2. /\ base \in 1..Len(classes) /\ c = Len(classes')
          /\ classes'[c].base = base /\ classes'[c].above = {c} \cup classes'[base].above
          /\ classes'[c].member = member /\ classes'[c].arg = arg
      BY <3>1, <1>5, <1>6, <1>7 DEF IsDeclared, n
    <3>3. \A i \in 1..Len(classes) : \A y \in classes[i].above \ {i} : Keeps(classes, i, y)
      BY DEF KInv
    <3> QED
      BY <3>1, <3>2, <3>3, <2>1, <1>3, <1>5, <1>8, <1>9, <1>10, <1>14, NewKeeps
  <2>2. CASE x # c
    <3>1. x \in 1..Len(classes)
      BY <2>2, <1>12
    <3>2. classes'[x] = classes[x] /\ d \in classes[x].above /\ Keeps(classes, x, d)
      BY <3>1, <1>3, <1>5, <1>14, ClassesBefore DEF KInv
    <3> QED
      BY <3>1, <3>2, <1>3, <1>5, ClassesBefore
  <2> QED
    BY <2>1, <2>2
<1>15. ASSUME NEW x \in 1..Len(classes') PROVE Conforming(classes', x, contract)
  <2>1. CASE x = c /\ ifaceArg # None
    <3>1. /\ base \in 0..Len(classes) /\ c = Len(classes')
          /\ classes'[c].base = base
          /\ classes'[c].above = {c} \cup (IF base = 0 THEN {} ELSE classes'[base].above)
          /\ classes'[c].member = member /\ classes'[c].ifaceArg = ifaceArg
      BY <1>5, <1>6, <1>7 DEF IsDeclared, n
    <3> QED
      BY <3>1, <2>1, <1>3, <1>5, <1>9, <1>11, NewConforms
  <2>2. CASE x = c /\ ifaceArg = None
    BY <2>2, <1>7 DEF IsDeclared, Conforming
  <2>3. CASE x # c
    <3>1. x \in 1..Len(classes)
      BY <2>3, <1>12
    <3>2. Conforming(classes, x, contract)
      BY <3>1 DEF KInv
    <3> QED
      BY <3>1, <3>2, <1>3, <1>5, ClassesBefore
  <2> QED
    BY <2>1, <2>2, <2>3
<1>16. \A d, type : Seeing(classes', d, type)
  <2>1. LineOK(classes', Len(classes'))
    BY <1>5, <1>9
  <2>2. \A d, type : Seeing(classes, d, type)
    BY DEF KInv
  <2> QED
    BY <2>1, <2>2, <1>3, <1>5, SeeingMore
<1> QED
  BY <1>2, <1>13, <1>14, <1>15, <1>16 DEF KInv

LEMMA ClassInit == NoClasses \/ Declarations!Init => KInv
<1> SUFFICES ASSUME classes = <<>> PROVE KInv
  BY DEF NoClasses, Declarations!Init
<1>1. Len(classes) = 0 /\ classes \in Seq({}) /\ \A c : c \notin 1..0
  OBVIOUS
<1>2. Flow!IsSeq(classes)
  BY <1>1, Flow!AnySeq
<1>3. \A d, type : Seeing(classes, d, type)
  <2> SUFFICES ASSUME NEW d, NEW type PROVE Seeing(classes, d, type)
    OBVIOUS
  <2> DEFINE g == [x \in 1..0 |-> type]
  <2>1. DOMAIN g = 1..0 /\ g = [x \in 1..0 |-> g[x]]
    OBVIOUS
  <2> HIDE DEF g
  <2>2. g = [x \in 1..0 |-> SeenBody(classes, g, d, type, x)]
    BY <2>1, <1>1
  <2> QED
    BY <2>2, <1>1 DEF Seeing
<1> QED
  BY <1>1, <1>2, <1>3 DEF KInv, LinesOK

-----------------------------------------------------------------------------
(* The unit under analysis is as its proofs say, the others are untouched. *)
SInv ==
  /\ subject \in {"callable", "constructor", "classes"}
  /\ IF subject = "callable" THEN Flow!IInv /\ Flow!UInv /\ Flow!StoresInv ELSE NoCallable
  /\ IF subject = "constructor" THEN CInv ELSE NoConstructor
  /\ IF subject = "classes" THEN KInv ELSE NoClasses

LEMMA SInit == Init => SInv
<1> SUFFICES ASSUME Init PROVE SInv
  OBVIOUS
<1>1. Callable!Init => Flow!IInv /\ Flow!UInv /\ Flow!StoresInv
  BY SameFlow, Flow!InitOK, Flow!UseInit, Flow!StoresInit
<1> QED
  BY <1>1, ConstructorInit, ClassInit DEF Init, SInv

LEMMA SStep == SInv /\ [Next]_vars => SInv'
<1> SUFFICES ASSUME SInv, [Next]_vars PROVE SInv'
  OBVIOUS
<1>0. MaxEvents \in Nat
  BY AnalysisAssumption
<1>1. CASE AnalyzeCallable
  <2>1. Flow!IInv' /\ Flow!UInv' /\ Flow!StoresInv'
    BY <1>0, <1>1, SameFlowStep, Flow!StepOK, Flow!UseStep, Flow!StoresKept DEF SInv, AnalyzeCallable
  <2>2. NoConstructor' /\ NoClasses' /\ subject' = subject /\ subject = "callable"
    BY <1>1 DEF SInv, AnalyzeCallable, ofConstructors, ofClasses, NoConstructor, NoClasses
  <2> QED
    BY <2>1, <2>2 DEF SInv
<1>2. CASE AnalyzeConstructor
  <2>1. CInv'
    BY <1>2, ConstructorStep DEF SInv, AnalyzeConstructor
  <2>2. NoCallable' /\ NoClasses' /\ subject' = subject /\ subject = "constructor"
    BY <1>2 DEF SInv, AnalyzeConstructor, ofCallables, ofClasses, NoCallable, NoClasses
  <2> QED
    BY <2>1, <2>2 DEF SInv
<1>3. CASE AnalyzeClass
  <2>1. /\ NoCallable' /\ NoConstructor' /\ subject' = subject /\ subject = "classes"
    BY <1>3 DEF SInv, AnalyzeClass, ofCallables, ofConstructors, NoCallable, NoConstructor
  <2>2. KInv'
    BY <1>3, ClassStep DEF SInv, AnalyzeClass
  <2> QED
    BY <2>1, <2>2 DEF SInv
<1>4. CASE UNCHANGED vars
  <2>1. /\ subject' = subject /\ (NoCallable => NoCallable') /\ (NoConstructor => NoConstructor')
        /\ NoClasses => NoClasses'
    BY <1>4 DEF vars, ofCallables, ofConstructors, ofClasses, NoCallable, NoConstructor, NoClasses
  <2>2. Flow!IInv /\ Flow!UInv /\ Flow!StoresInv => Flow!IInv' /\ Flow!UInv' /\ Flow!StoresInv'
    BY <1>0, <1>4, Flow!StepOK, Flow!UseStep, Flow!StoresKept DEF vars, ofCallables, Flow!vars
  <2>3. CInv => CInv'
    BY <1>4 DEF vars, ofConstructors, CInv, ConstructorsInitialize,
                Constructor!ConstructorsInitialize, Constructor!ConstructionWarningsExact
  <2>4. KInv => KInv'
    BY <1>4 DEF vars, ofClasses, KInv
  <2> QED
    BY <2>1, <2>2, <2>3, <2>4 DEF SInv
<1> QED
  BY <1>1, <1>2, <1>3, <1>4 DEF Next

LEMMA SInvariant == Spec => []SInv
BY SInit, SStep, PTL DEF Spec

(* What the definite initialization walk calls initialized has a value on  *)
(* every execution, whatever unit is under analysis (SemanticA.cpp).       *)
THEOREM InitializedInAnyUnit == Spec => []InitializedHasValue
<1>1. ASSUME SInv PROVE InitializedHasValue
  <2>1. CASE subject = "callable"
    <3>1. Flow!InitializedHasValue
      BY <1>1, <2>1, Flow!IInvHasValues DEF SInv
    <3> QED
      BY <3>1, SameFlow DEF InitializedHasValue
  <2>2. CASE subject # "callable"
    BY <1>1, <2>2 DEF SInv, NoCallable, InitializedHasValue, Callable!InitializedHasValue
  <2> QED
    BY <2>1, <2>2
<1> QED
  BY <1>1, SInvariant, PTL

(* What the usage walk reports as unused is read by no execution, whatever *)
(* unit is under analysis (SemanticA.cpp).                                 *)
THEOREM UnusedInAnyUnit == Spec => []UnusedIsUnread
<1>1. ASSUME SInv PROVE UnusedIsUnread
  <2>1. CASE subject = "callable"
    <3>1. Flow!UnusedIsUnread
      BY <1>1, <2>1 DEF SInv, Flow!UInv
    <3> QED
      BY <3>1, SameFlow DEF UnusedIsUnread
  <2>2. CASE subject # "callable"
    BY <1>1, <2>2 DEF SInv, NoCallable, UnusedIsUnread, Callable!UnusedIsUnread
  <2> QED
    BY <2>1, <2>2
<1> QED
  BY <1>1, SInvariant, PTL

(* What the dead-store walk reports is read by no execution, unless it     *)
(* cannot follow the variable, whatever unit is under analysis             *)
(* (SemanticA.cpp).                                                        *)
THEOREM DeadStoresInAnyUnit == Spec => []DeadStoresAreDead
<1>1. ASSUME SInv PROVE DeadStoresAreDead
  <2>1. CASE subject = "callable"
    <3>1. Flow!DeadStoresAreDead
      BY <1>1, <2>1, Flow!StoresAreDead DEF SInv
    <3> QED
      BY <3>1, SameFlow DEF DeadStoresAreDead
  <2>2. CASE subject # "callable"
    BY <1>1, <2>2 DEF SInv, NoCallable, DeadStoresAreDead, Callable!DeadStoresAreDead
  <2> QED
    BY <2>1, <2>2
<1> QED
  BY <1>1, SInvariant, PTL

(* A constructor the analyzer accepts gives every required field a value   *)
(* on every execution, is told of every double store, and of every field   *)
(* read or object handed out too early (the field initialization policy of *)
(* SemanticA.cpp), arms and loops aside as the property says.              *)
THEOREM AcceptedConstructorsInitialize == Spec => []ConstructorsInitialize
<1>1. ASSUME SInv PROVE ConstructorsInitialize
  <2>1. CASE subject = "constructor"
    BY <1>1, <2>1 DEF SInv, CInv
  <2>2. CASE subject # "constructor"
    BY <1>1, <2>2 DEF SInv, NoConstructor, ConstructorsInitialize,
                      Constructor!ConstructorsInitialize, Constructor!ConstructionWarningsExact
  <2> QED
    BY <2>1, <2>2
<1> QED
  BY <1>1, SInvariant, PTL

(* An admitted class keeps what its ancestors promise of a member: kind,   *)
(* visibility and, as far as the checks compare the right types, its type  *)
(* seen through every chain of type arguments; and one that implements the *)
(* interface has its member (validateClassOverrideContracts and the        *)
(* conformance check of SemanticA.cpp).                                    *)
THEOREM ContractsInAnyUnit == Spec => []ContractsKept
<1>1. ASSUME SInv PROVE ContractsKept
  <2>1. KInv
    BY <1>1, ClassInit DEF SInv
  <2> QED
    BY <2>1, ContractsFollow
<1> QED
  BY <1>1, SInvariant, PTL
=============================================================================
