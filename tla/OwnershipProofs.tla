-------------------------- MODULE OwnershipProofs --------------------------
(***************************************************************************)
(* That handles of the C API are freed once, after what uses them, and     *)
(* that only a clone of FlakeSettings can spoil it: for any number of      *)
(* threads, evaluators and flakes, through every construction that fails   *)
(* half-way.  Threads share no handle, so that the invariant speaks of one *)
(* thread at a time: of its handles H, the clones C among them, its        *)
(* objects O, and the handles G that its code would free if it stopped.    *)
(***************************************************************************)
EXTENDS EvaluatorsProofs, SequenceTheorems, FiniteSetTheorems

----------------------------------------------------------------------------
(* The inductive invariant.                                                *)

HandleKinds ==
  {"fetchers", "settings", "parseflags", "ref", "lockflags", "locked", "store", "builder", "state"}
ObjectKinds == {"flakes", "refsettings", "ref", "lockflags", "locked", "evaluator"}

HandleType == [kind : HandleKinds, uses : SUBSET Nat, live : BOOLEAN]
ObjectType == [kind : ObjectKinds, glue : Seq(Nat), flakes : Seq(Nat), borrows : Nat]

FlakeKinds == {"fetchers", "settings"}
UserKinds == {"builder", "state"}

\* What flakes.rs may leave without an owner.
Unowned == {"parseflags", "settings", "ref"}

\* h is before u in g, wherever u is in g.
Before(g, h, u) == \A k \in DOMAIN g : g[k] = u => \E i \in DOMAIN g : i < k /\ g[i] = h

\* But for clones, no handle is twice in g, or both in f and g.
Once(g, C) == \A k, l \in DOMAIN g : g[k] = g[l] /\ k # l => g[k] \in C
Apart(f, g, C) == \A k \in DOMAIN f, l \in DOMAIN g : f[k] = g[l] => f[k] \in C

InGlue(h, g) == \E k \in DOMAIN g : g[k] = h

\* Flake settings are what is cloned; builders and states are what uses others.
HandlesOK(H, C) ==
  /\ H \in Seq(HandleType)
  /\ \A h \in DOMAIN H :
       /\ H[h].uses \subseteq DOMAIN H
       /\ H[h].uses # {} => H[h].kind \in UserKinds
  /\ \A h \in C : h \in DOMAIN H /\ H[h].kind \in FlakeKinds

\* The flake settings in an object are part of its glue.
ObjectOK(H, o) ==
  /\ \A i \in DOMAIN o.flakes :
       /\ o.flakes[i] \in DOMAIN H
       /\ H[o.flakes[i]].kind \in FlakeKinds
       /\ InGlue(o.flakes[i], o.glue)
  /\ o.kind \in {"flakes", "refsettings"} => o.glue = o.flakes
  /\ o.kind = "evaluator" => o.glue # <<>>

\* What is to be freed is there once, and alive.
GlueOK(H, C, g) ==
  /\ g \in Seq(Nat)
  /\ \A k \in DOMAIN g : g[k] \in DOMAIN H /\ (g[k] \in C \/ H[g[k]].live)
  /\ Once(g, C)

\* Whoever uses a handle of g is freed before it, but for those in X, which will
\* be gone when the next handle has been freed.
UsersFirst(H, C, g, X) ==
  \A h \in DOMAIN H \ X : H[h].live => \A u \in H[h].uses \ C : Before(g, h, u)

UsedLive(H, C) == \A h \in DOMAIN H : H[h].live => \A u \in H[h].uses \ C : H[u].live

\* Nothing is forgotten.
AllOwned(H, C, O, G) ==
  \A h \in DOMAIN H \ C : H[h].live /\ H[h].kind \notin Unowned =>
    InGlue(h, G) \/ \E i \in DOMAIN O : InGlue(h, O[i].glue)

PartOK(H, C, g, X) == GlueOK(H, C, g) /\ UsersFirst(H, C, g, X)

Sound(H, C, O, G, X) ==
  /\ HandlesOK(H, C)
  /\ PartOK(H, C, G, X)
  /\ \A i \in DOMAIN O :
       ObjectOK(H, O[i]) /\ PartOK(H, C, O[i].glue, X) /\ Apart(G, O[i].glue, C)
  /\ \A i, j \in DOMAIN O : i # j => Apart(O[i].glue, O[j].glue, C)
  /\ UsedLive(H, C)
  /\ AllOwned(H, C, O, G)

\* What with_store at P frees if it fails, with the locals L and flakes F.
Pending(P, L, F) == IF P = "build" THEN <<L[1]>> \o F \o <<L[2]>> ELSE L \o F

\* What a thread will free if it stops what it is doing.
Held(P, L, F, D) == IF D # <<>> THEN D ELSE Pending(P, L, F)

\* The state was made from a builder that is still to be freed.
Spent(D) == IF Len(D) = 1 THEN {D[1]} ELSE {}

\* What with_store holds at each of its places.
Building(H, P, L, F, D) ==
  /\ F \in Seq(Nat) /\ L \in Seq(Nat) /\ D \in Seq(Nat)
  /\ D # <<>> => P = "idle"
  /\ P = "idle" => F = <<>>
  /\ \A i \in DOMAIN F : F[i] \in DOMAIN H /\ H[F[i]].kind \in FlakeKinds
  /\ Len(L) = CASE P \in {"idle", "stack", "store"} -> 0 [] P = "builder" -> 1 [] OTHER -> 2
  /\ P = "builder" => L[1] \in DOMAIN H /\ H[L[1]].kind = "store"
  /\ P \in {"flakes", "options", "path", "build"} =>
       /\ L[1] \in DOMAIN H /\ H[L[1]].kind = "builder"
       /\ L[2] \in DOMAIN H /\ H[L[2]].kind = "store"

InOrder(H, C, O, P, L, F, D) ==
  /\ O \in Seq(ObjectType)
  /\ Sound(H, C, O, Held(P, L, F, D), Spent(D))
  /\ Building(H, P, L, F, D)

Orderly(t) ==
  InOrder(heap[t], cloned[t], objs[t], pc[t], local[t], config[t].flakes, drops[t])

\* The variables are functions on threads.
Shape ==
  /\ heap = [t \in Threads |-> heap[t]]
  /\ cloned = [t \in Threads |-> cloned[t]]
  /\ objs = [t \in Threads |-> objs[t]]
  /\ local = [t \in Threads |-> local[t]]
  /\ drops = [t \in Threads |-> drops[t]]

\* Corruption began with a handle that was cloned.
Caused == corrupt => \E t \in Threads : cloned[t] # {}

OInv == IInv /\ Shape /\ Caused /\ \A t \in Threads : Orderly(t)

----------------------------------------------------------------------------
(* Sequences of handles and of objects.                                    *)

\* c is a followed by b.
Joined(a, b, c) ==
  /\ c \in Seq(Nat)
  /\ \A k \in DOMAIN a : k \in DOMAIN c /\ c[k] = a[k]
  /\ \A k \in DOMAIN b : k + Len(a) \in DOMAIN c /\ c[k + Len(a)] = b[k]
  /\ \A k \in DOMAIN c :
       k \in DOMAIN a \/ (k - Len(a) \in DOMAIN b /\ k > Len(a))
  /\ \A k \in DOMAIN a : k \in Nat /\ k <= Len(a)
  /\ \A k \in DOMAIN b : k \in Nat /\ k >= 1
  /\ Len(a) \in Nat /\ Len(b) \in Nat /\ Len(c) = Len(a) + Len(b)

\* So is what \o makes of them.
LEMMA JoinSeq ==
  ASSUME NEW a \in Seq(Nat), NEW b \in Seq(Nat) PROVE Joined(a, b, a \o b)
<1>1. /\ a \o b \in Seq(Nat) /\ Len(a \o b) = Len(a) + Len(b)
      /\ \A i \in 1..(Len(a) + Len(b)) : (a \o b)[i] = IF i <= Len(a) THEN a[i] ELSE b[i - Len(a)]
  BY ConcatProperties
<1> DEFINE m == Len(a)
           n == Len(b)
           c == a \o b
<1>2. DOMAIN a = 1..m /\ DOMAIN b = 1..n /\ DOMAIN c = 1..(m + n) /\ m \in Nat /\ n \in Nat
  BY <1>1
<1>3. \A i \in 1..(m + n) : c[i] = IF i <= m THEN a[i] ELSE b[i - m]
  BY <1>1
<1>4. c \in Seq(Nat) /\ Len(c) = m + n
  BY <1>1
<1> HIDE DEF m, n, c
<1>5. /\ \A k \in DOMAIN a : k \in DOMAIN c /\ c[k] = a[k]
      /\ \A k \in DOMAIN b : k + m \in DOMAIN c /\ c[k + m] = b[k]
      /\ \A k \in DOMAIN c : k \in DOMAIN a \/ (k - m \in DOMAIN b /\ k > m)
  BY <1>2, <1>3
<1> QED
  BY <1>2, <1>4, <1>5 DEF Joined, m, n, c

\* An item of both is an item of one of them.
LEMMA JoinItem ==
  ASSUME NEW a, NEW b, NEW c, Joined(a, b, c), NEW k \in DOMAIN c
  PROVE  \/ k \in DOMAIN a /\ c[k] = a[k]
         \/ k - Len(a) \in DOMAIN b /\ c[k] = b[k - Len(a)]
<1>1. CASE k \in DOMAIN a
  BY <1>1 DEF Joined
<1>2. CASE k \notin DOMAIN a
  <2> DEFINE m == Len(a)
  <2>1. m \in Nat /\ k \in Nat /\ k - m \in DOMAIN b
    BY <1>2 DEF Joined
  <2>2. c[(k - m) + m] = b[k - m]
    BY <2>1 DEF Joined
  <2> HIDE DEF m
  <2>3. (k - m) + m = k
    BY <2>1
  <2>4. k - m \in DOMAIN b /\ c[k] = b[k - m]
    BY <2>1, <2>2, <2>3
  <2> QED
    BY <2>4 DEF m
<1> QED
  BY <1>1, <1>2

\* Three sequences are joined in either order.
LEMMA JoinThree ==
  ASSUME NEW a \in Seq(Nat), NEW b \in Seq(Nat), NEW c \in Seq(Nat)
  PROVE  (a \o b) \o c = a \o (b \o c)
  BY ConcatAssociative

\* A sequence of one, and of none.
LEMMA SingleSeq ==
  ASSUME NEW x \in Nat
  PROVE  /\ <<x>> \in Seq(Nat) /\ DOMAIN <<x>> = {1} /\ <<x>>[1] = x /\ Len(<<x>>) = 1
         /\ <<>> \in Seq(Nat) /\ DOMAIN <<>> = {}
  OBVIOUS

\* Appending leaves the others as they are.
Appended(A, B, n, x) ==
  /\ DOMAIN B = DOMAIN A \cup {n} /\ n \notin DOMAIN A /\ n \in Nat
  /\ B[n] = x
  /\ \A i \in DOMAIN A : B[i] = A[i]

\* So is what \o makes of one item.
LEMMA AppendOne ==
  ASSUME NEW S, NEW A \in Seq(S), NEW x \in S
  PROVE  /\ A \o <<x>> \in Seq(S)
         /\ Appended(A, A \o <<x>>, Len(A) + 1, x)
         /\ Len(A \o <<x>>) = Len(A) + 1
<1>1. <<x>> \in Seq(S) /\ Len(<<x>>) = 1 /\ <<x>>[1] = x
  OBVIOUS
<1> DEFINE n == Len(A)
           B == A \o <<x>>
<1>2. B \in Seq(S) /\ Len(B) = n + 1
      /\ \A i \in 1..(n + 1) : B[i] = IF i <= n THEN A[i] ELSE <<x>>[i - n]
  BY <1>1, ConcatProperties
<1>3. DOMAIN A = 1..n /\ n \in Nat /\ DOMAIN B = 1..(n + 1)
  BY <1>2
<1> HIDE DEF n, B
<1>4. \A i \in 1..n : B[i] = A[i]
  BY <1>2, <1>3
<1>5. B[n + 1] = x
  BY <1>1, <1>2, <1>3
<1>6. DOMAIN B = DOMAIN A \cup {n + 1} /\ n + 1 \notin DOMAIN A /\ n + 1 \in Nat
  BY <1>3
<1> QED
  BY <1>2, <1>3, <1>4, <1>5, <1>6 DEF Appended, n, B

\* B is A without the item at i: e says where the items of B were.
Removed(A, B, i, e) ==
  /\ e \in [DOMAIN B -> DOMAIN A \ {i}]
  /\ \A j \in DOMAIN B : B[j] = A[e[j]]
  /\ \A j, k \in DOMAIN B : e[j] = e[k] => j = k
  /\ \A k \in DOMAIN A \ {i} : \E j \in DOMAIN B : e[j] = k

\* RemoveAt removes; what was before i stays where it is, the others move up.
LEMMA RemoveOne ==
  ASSUME NEW S, NEW A \in Seq(S), NEW i \in DOMAIN A
  PROVE  /\ RemoveAt(A, i) \in Seq(S)
         /\ \E e : /\ Removed(A, RemoveAt(A, i), i, e)
                   /\ \A j \in DOMAIN RemoveAt(A, i) : e[j] = IF j < i THEN j ELSE j + 1
         /\ \A j \in DOMAIN A : j < i => j \in DOMAIN RemoveAt(A, i) /\ RemoveAt(A, i)[j] = A[j]
<1> DEFINE n == Len(A)
           B == RemoveAt(A, i)
           a == SubSeq(A, 1, i - 1)
           b == SubSeq(A, i + 1, n)
<1>1. DOMAIN A = 1..n /\ n \in Nat /\ i \in 1..n /\ \A j \in 1..n : A[j] \in S
  OBVIOUS
<1>2. a \in Seq(S) /\ Len(a) = i - 1 /\ \A j \in 1..(i - 1) : a[j] = A[j]
  <2> HIDE DEF n
  <2>1. \A j \in 1..(i - 1) : A[j] \in S
    BY <1>1
  <2>2. /\ a \in Seq(S)
        /\ Len(a) = IF 1 <= i - 1 THEN i - 1 - 1 + 1 ELSE 0
        /\ \A j \in 1..(i - 1 - 1 + 1) : a[j] = A[1 + j - 1]
    BY <1>1, <2>1, SubSeqProperties
  <2> HIDE DEF a
  <2>3. i - 1 - 1 + 1 = i - 1 /\ \A j \in 1..(i - 1) : 1 + j - 1 = j
    BY <1>1
  <2>4. Len(a) = i - 1
    BY <1>1, <2>2
  <2> QED
    BY <2>2, <2>3, <2>4
<1>3. b \in Seq(S) /\ Len(b) = n - i /\ \A j \in 1..(n - i) : b[j] = A[i + j]
  <2> HIDE DEF n
  <2>1. \A j \in (i + 1)..n : A[j] \in S
    BY <1>1
  <2>2. /\ b \in Seq(S)
        /\ Len(b) = IF i + 1 <= n THEN n - (i + 1) + 1 ELSE 0
        /\ \A j \in 1..(n - (i + 1) + 1) : b[j] = A[i + 1 + j - 1]
    BY <1>1, <2>1, SubSeqProperties
  <2> HIDE DEF b
  <2>3. n - (i + 1) + 1 = n - i /\ \A j \in 1..(n - i) : i + 1 + j - 1 = i + j
    BY <1>1
  <2>4. Len(b) = n - i
    BY <1>1, <2>2
  <2> QED
    BY <2>2, <2>3, <2>4
<1>4. B = a \o b
  BY DEF RemoveAt
<1> HIDE DEF a, b, n
<1>5. /\ B \in Seq(S) /\ Len(B) = (i - 1) + (n - i)
      /\ \A j \in 1..((i - 1) + (n - i)) : B[j] = IF j <= i - 1 THEN a[j] ELSE b[j - (i - 1)]
  BY <1>2, <1>3, <1>4, ConcatProperties
<1> HIDE DEF B
<1>6. DOMAIN B = 1..(n - 1)
  <2>1. (i - 1) + (n - i) = n - 1
    BY <1>1
  <2> QED
    BY <1>5, <2>1
<1>7. \A j \in 1..(n - 1) : B[j] = A[IF j < i THEN j ELSE j + 1]
  <2> TAKE j \in 1..(n - 1)
  <2>1. B[j] = IF j <= i - 1 THEN a[j] ELSE b[j - (i - 1)]
    BY <1>1, <1>5
  <2>2. CASE j < i
    BY <1>1, <1>2, <2>1, <2>2
  <2>3. CASE ~(j < i)
    <3>1. B[j] = b[j - (i - 1)] /\ j - (i - 1) \in 1..(n - i)
      BY <1>1, <2>1, <2>3
    <3>2. b[j - (i - 1)] = A[i + (j - (i - 1))] /\ i + (j - (i - 1)) = j + 1
      BY <1>1, <1>3, <3>1
    <3> QED
      BY <3>1, <3>2, <2>3
  <2> QED
    BY <2>2, <2>3
<1> DEFINE e == [j \in 1..(n - 1) |-> IF j < i THEN j ELSE j + 1]
<1>8. /\ e \in [1..(n - 1) -> 1..n \ {i}]
      /\ \A j \in 1..(n - 1) : e[j] = IF j < i THEN j ELSE j + 1
      /\ \A j, k \in 1..(n - 1) : e[j] = e[k] => j = k
  BY <1>1
<1>9. \A k \in 1..n \ {i} : \E j \in 1..(n - 1) : e[j] = k
  <2> TAKE k \in 1..n \ {i}
  <2>1. CASE k < i
    BY <1>1, <1>8, <2>1
  <2>2. CASE k > i
    <3>1. k - 1 \in 1..(n - 1) /\ ~(k - 1 < i)
      BY <1>1, <2>2
    <3> QED
      BY <1>1, <1>8, <3>1
  <2> QED
    BY <1>1, <2>1, <2>2
<1> HIDE DEF e
<1>10. Removed(A, B, i, e) /\ \A j \in DOMAIN B : e[j] = IF j < i THEN j ELSE j + 1
  BY <1>1, <1>6, <1>7, <1>8, <1>9 DEF Removed
<1>11. \A j \in DOMAIN A : j < i => j \in DOMAIN B /\ B[j] = A[j]
  BY <1>1, <1>6, <1>7
<1> QED
  BY <1>5, <1>10, <1>11 DEF B

\* One item is replaced.
Replaced(A, B, i, x) ==
  DOMAIN B = DOMAIN A /\ B[i] = x /\ \A j \in DOMAIN A : j # i => B[j] = A[j]

\* So does EXCEPT.
LEMMA ReplaceOne ==
  ASSUME NEW S, NEW A \in Seq(S), NEW i \in DOMAIN A, NEW x \in S
  PROVE  [A EXCEPT ![i] = x] \in Seq(S) /\ Replaced(A, [A EXCEPT ![i] = x], i, x)
  BY DEF Replaced

----------------------------------------------------------------------------
(* Glue.                                                                   *)

\* There is nothing wrong with no glue.
LEMMA NoGlue == ASSUME NEW H, NEW C, NEW X PROVE PartOK(H, C, <<>>, X)
  BY DEF PartOK, GlueOK, UsersFirst, Before, Once

\* Glue that has no handle in common with other glue may be put before it.
LEMMA JoinGlue ==
  ASSUME NEW H, NEW C, NEW X, NEW a, NEW b, NEW c, PartOK(H, C, a, X), PartOK(H, C, b, X),
         Apart(a, b, C), Joined(a, b, c)
  PROVE  PartOK(H, C, c, X)
<1>1. \A k \in DOMAIN c : c[k] \in DOMAIN H /\ (c[k] \in C \/ H[c[k]].live)
  BY JoinItem DEF PartOK, GlueOK
<1>2. ASSUME NEW k \in DOMAIN c, NEW l \in DOMAIN c, c[k] = c[l], k # l PROVE c[k] \in C
  <2>1. CASE k \in DOMAIN a /\ l \in DOMAIN a
    BY <1>2, <2>1 DEF PartOK, GlueOK, Once, Joined
  <2>2. CASE k \in DOMAIN a /\ l - Len(a) \in DOMAIN b
    <3>1. c[k] = a[k] /\ c[l] = b[l - Len(a)]
      BY <1>2, <2>2 DEF Joined
    <3> QED
      BY <1>2, <2>2, <3>1 DEF Apart
  <2>3. CASE k - Len(a) \in DOMAIN b /\ l \in DOMAIN a
    <3>1. c[k] = b[k - Len(a)] /\ c[l] = a[l]
      BY <1>2, <2>3 DEF Joined
    <3> QED
      BY <1>2, <2>3, <3>1 DEF Apart
  <2>4. CASE k - Len(a) \in DOMAIN b /\ l - Len(a) \in DOMAIN b
    <3>1. c[k] = b[k - Len(a)] /\ c[l] = b[l - Len(a)] /\ k - Len(a) # l - Len(a)
      BY <1>2, <2>4 DEF Joined
    <3> QED
      BY <1>2, <2>4, <3>1 DEF PartOK, GlueOK, Once
  <2> QED
    BY <2>1, <2>2, <2>3, <2>4 DEF Joined
<1>3. ASSUME NEW h, NEW u, Before(a, h, u), Before(b, h, u) PROVE Before(c, h, u)
  <2> SUFFICES ASSUME NEW k \in DOMAIN c, c[k] = u PROVE \E i \in DOMAIN c : i < k /\ c[i] = h
    BY DEF Before
  <2>1. CASE k \in DOMAIN a
    <3>1. PICK i \in DOMAIN a : i < k /\ a[i] = h
      BY <1>3, <2>1 DEF Before, Joined
    <3> QED
      BY <3>1 DEF Joined
  <2>2. CASE k - Len(a) \in DOMAIN b
    <3>1. b[k - Len(a)] = u
      BY <2>2 DEF Joined
    <3>2. PICK i \in DOMAIN b : i < k - Len(a) /\ b[i] = h
      BY <1>3, <2>2, <3>1 DEF Before
    <3>3. i + Len(a) \in DOMAIN c /\ c[i + Len(a)] = h
      BY <3>2 DEF Joined
    <3>4. i + Len(a) < k
      BY <2>2, <3>2 DEF Joined
    <3> QED
      BY <3>3, <3>4
  <2> QED
    BY <2>1, <2>2 DEF Joined
<1>4. UsersFirst(H, C, c, X)
  BY <1>3 DEF PartOK, UsersFirst
<1> QED
  BY <1>1, <1>2, <1>4 DEF PartOK, GlueOK, Once, Joined

\* It is then apart from what both were apart from.
LEMMA JoinApart ==
  ASSUME NEW C, NEW a, NEW b, NEW c, NEW g, Apart(a, g, C), Apart(b, g, C), Joined(a, b, c)
  PROVE  Apart(c, g, C) /\ Apart(g, c, C)
<1>1. ASSUME NEW k \in DOMAIN c, NEW l \in DOMAIN g, c[k] = g[l] PROVE c[k] \in C
  <2>1. CASE k \in DOMAIN a
    BY <1>1, <2>1 DEF Apart, Joined
  <2>2. CASE k - Len(a) \in DOMAIN b
    BY <1>1, <2>2 DEF Apart, Joined
  <2> QED
    BY <2>1, <2>2 DEF Joined
<1> QED
  BY <1>1 DEF Apart

\* And it has the handles of both.
LEMMA JoinHas ==
  ASSUME NEW a, NEW b, NEW c, Joined(a, b, c), NEW h
  PROVE  InGlue(h, c) <=> InGlue(h, a) \/ InGlue(h, b)
<1>1. ASSUME InGlue(h, c) PROVE InGlue(h, a) \/ InGlue(h, b)
  <2>1. PICK k \in DOMAIN c : c[k] = h
    BY <1>1 DEF InGlue
  <2>2. CASE k \in DOMAIN a
    BY <2>1, <2>2 DEF InGlue, Joined
  <2>3. CASE k - Len(a) \in DOMAIN b
    <3>1. c[k] = b[k - Len(a)]
      BY <2>3, <2>1 DEF Joined
    <3> QED
      BY <2>1, <2>3, <3>1 DEF InGlue
  <2> QED
    BY <2>2, <2>3 DEF Joined
<1>2. ASSUME InGlue(h, a) PROVE InGlue(h, c)
  BY <1>2 DEF InGlue, Joined
<1>3. ASSUME InGlue(h, b) PROVE InGlue(h, c)
  <2>1. PICK k \in DOMAIN b : b[k] = h
    BY <1>3 DEF InGlue
  <2>2. k + Len(a) \in DOMAIN c /\ c[k + Len(a)] = h
    BY <2>1 DEF Joined
  <2> QED
    BY <2>2 DEF InGlue
<1> QED
  BY <1>1, <1>2, <1>3

\* Other things stay as they are when a new handle is not in their glue, and does
\* not use what is.
LEMMA KeepGlue ==
  ASSUME NEW H, NEW C, NEW g, PartOK(H, C, g, {}), NEW H2, NEW n, NEW x,
         Appended(H, H2, n, x), \A u \in x.uses \ C : ~InGlue(u, g)
  PROVE  PartOK(H2, C, g, {})
<1>1. GlueOK(H2, C, g)
  BY DEF PartOK, GlueOK, Appended
<1>2. ASSUME NEW h \in DOMAIN H2, H2[h].live, NEW u \in H2[h].uses \ C PROVE Before(g, h, u)
  <2>1. CASE h = n
    BY <1>2, <2>1 DEF Appended, InGlue, Before
  <2>2. CASE h # n
    BY <1>2, <2>2 DEF Appended, PartOK, UsersFirst
  <2> QED
    BY <2>1, <2>2
<1> QED
  BY <1>1, <1>2 DEF PartOK, UsersFirst

\* A new handle may be put before the others, and use them.
LEMMA TopGlue ==
  ASSUME NEW H, NEW C, NEW g, PartOK(H, C, g, {}), HandlesOK(H, C), NEW H2, NEW n, NEW x,
         Appended(H, H2, n, x), x.live, x.uses \subseteq DOMAIN H, NEW c, Joined(<<n>>, g, c)
  PROVE  PartOK(H2, C, c, {})
<1>1. n \in Nat /\ DOMAIN <<n>> = {1} /\ <<n>>[1] = n /\ Len(<<n>>) = 1
  BY DEF Appended
<1>2. 1 \in DOMAIN c /\ c[1] = n
  BY <1>1 DEF Joined
<1>3. \A k \in DOMAIN c \ {1} : k - 1 \in DOMAIN g /\ c[k] = g[k - 1] /\ c[k] \in DOMAIN H /\ k > 1
  BY <1>1 DEF Joined, PartOK, GlueOK
<1>4. \A k \in DOMAIN g : k + 1 \in DOMAIN c /\ c[k + 1] = g[k] /\ k \in Nat
  BY <1>1 DEF Joined
<1>5. n \notin DOMAIN H /\ \A k \in DOMAIN c \ {1} : c[k] # n
  BY <1>3 DEF Appended
<1>6. \A k \in DOMAIN c : c[k] \in DOMAIN H2 /\ (c[k] \in C \/ H2[c[k]].live)
  BY <1>2, <1>3 DEF PartOK, GlueOK, Appended
<1>7. ASSUME NEW k \in DOMAIN c, NEW l \in DOMAIN c, c[k] = c[l], k # l PROVE c[k] \in C
  <2>1. k # 1 /\ l # 1
    BY <1>2, <1>5, <1>7
  <2>2. k - 1 # l - 1 /\ c[k] = g[k - 1] /\ c[l] = g[l - 1]
    BY <1>3, <1>7, <2>1 DEF Joined
  <2> QED
    BY <1>3, <1>7, <2>1, <2>2 DEF PartOK, GlueOK, Once
<1>8. ASSUME NEW h \in DOMAIN H2, H2[h].live, NEW u \in H2[h].uses \ C,
             NEW k \in DOMAIN c, c[k] = u
      PROVE  \E i \in DOMAIN c : i < k /\ c[i] = h
  <2>1. u # n /\ k # 1
    BY <1>2, <1>8, <1>5 DEF Appended, HandlesOK
  <2>2. CASE h = n
    BY <1>2, <1>3, <2>1, <2>2
  <2>3. CASE h # n
    <3>1. h \in DOMAIN H /\ H[h].live /\ u \in H[h].uses \ C
      BY <1>8, <2>3 DEF Appended
    <3>2. PICK i \in DOMAIN g : i < k - 1 /\ g[i] = h
      BY <1>3, <1>8, <2>1, <3>1 DEF PartOK, UsersFirst, Before
    <3>3. i + 1 < k
      BY <1>3, <1>4, <2>1, <3>2 DEF Joined
    <3> QED
      BY <1>4, <3>2, <3>3
  <2> QED
    BY <2>2, <2>3
<1> QED
  BY <1>6, <1>7, <1>8 DEF PartOK, GlueOK, Once, UsersFirst, Before, Joined

----------------------------------------------------------------------------
(* What can be done with handles, objects and glue.                        *)

\* A new handle is in order, if what it uses is.
LEMMA NewHandle ==
  ASSUME NEW H, NEW C, HandlesOK(H, C), NEW H2 \in Seq(HandleType), NEW n, NEW x,
         Appended(H, H2, n, x), x.uses \subseteq DOMAIN H, x.uses # {} => x.kind \in UserKinds
  PROVE  /\ HandlesOK(H2, C) /\ n \notin C
         /\ \A o : ObjectOK(H, o) => ObjectOK(H2, o)
<1>1. HandlesOK(H2, C) /\ n \notin C
  BY DEF HandlesOK, Appended
<1>2. ASSUME NEW o, ObjectOK(H, o) PROVE ObjectOK(H2, o)
  BY <1>2 DEF ObjectOK, Appended
<1> QED
  BY <1>1, <1>2

\* What is used after a handle has been added is alive.
LEMMA NewUsedLive ==
  ASSUME NEW H, NEW C, HandlesOK(H, C), UsedLive(H, C), NEW H2, NEW n, NEW x,
         Appended(H, H2, n, x), \A u \in x.uses \ C : u \in DOMAIN H /\ H[u].live
  PROVE  UsedLive(H2, C)
<1> SUFFICES ASSUME NEW h \in DOMAIN H2, H2[h].live, NEW u \in H2[h].uses \ C PROVE H2[u].live
  BY DEF UsedLive
<1>1. CASE h = n
  BY <1>1 DEF Appended
<1>2. CASE h # n
  BY <1>2 DEF Appended, UsedLive, HandlesOK
<1> QED
  BY <1>1, <1>2

\* A handle of the kinds that nobody need own may come and not be owned.
LEMMA Forgotten ==
  ASSUME NEW H, NEW C, NEW O, NEW G, Sound(H, C, O, G, {}), NEW H2 \in Seq(HandleType),
         NEW n, NEW x, Appended(H, H2, n, x), x.uses = {}, x.kind \in Unowned
  PROVE  Sound(H2, C, O, G, {})
<1>1. HandlesOK(H2, C) /\ \A o : ObjectOK(H, o) => ObjectOK(H2, o)
  BY NewHandle DEF Sound
<1>2. \A g : PartOK(H, C, g, {}) => PartOK(H2, C, g, {})
  BY KeepGlue
<1>3. UsedLive(H2, C)
  BY NewUsedLive DEF Sound
<1>4. AllOwned(H2, C, O, G)
  BY DEF Sound, AllOwned, Appended
<1> QED
  BY <1>1, <1>2, <1>3, <1>4 DEF Sound

\* A handle comes and will be freed first, before what it uses.
LEMMA Acquired ==
  ASSUME NEW H, NEW C, NEW O, NEW G, Sound(H, C, O, G, {}), NEW H2 \in Seq(HandleType),
         NEW n, NEW x, Appended(H, H2, n, x), x.live,
         x.uses # {} => x.kind \in UserKinds, \A u \in x.uses : InGlue(u, G),
         NEW G2, Joined(<<n>>, G, G2)
  PROVE  Sound(H2, C, O, G2, {})
<1>1. x.uses \subseteq DOMAIN H /\ \A u \in x.uses \ C : H[u].live
  BY DEF Sound, PartOK, GlueOK, InGlue
<1>2. HandlesOK(H2, C) /\ n \notin C /\ \A o : ObjectOK(H, o) => ObjectOK(H2, o)
  BY <1>1, NewHandle DEF Sound
<1>3. PartOK(H2, C, G2, {})
  BY <1>1, TopGlue DEF Sound
<1>4. ASSUME NEW i \in DOMAIN O
      PROVE  PartOK(H2, C, O[i].glue, {}) /\ Apart(G2, O[i].glue, C)
  <2>1. PartOK(H, C, O[i].glue, {}) /\ Apart(G, O[i].glue, C)
    BY DEF Sound
  <2>2. \A u \in x.uses \ C : ~InGlue(u, O[i].glue)
    BY <2>1 DEF Apart, InGlue
  <2>3. PartOK(H2, C, O[i].glue, {})
    BY <2>1, <2>2, KeepGlue
  <2>4. Apart(<<n>>, O[i].glue, C)
    BY <2>1 DEF Apart, PartOK, GlueOK, Appended
  <2> QED
    BY <2>1, <2>3, <2>4, JoinApart
<1>5. UsedLive(H2, C)
  BY <1>1, NewUsedLive DEF Sound
<1>6. InGlue(n, G2) /\ \A h : InGlue(h, G) => InGlue(h, G2)
  <2>1. InGlue(n, <<n>>)
    BY DEF InGlue
  <2> QED
    BY <2>1, JoinHas
<1>7. AllOwned(H2, C, O, G2)
  BY <1>6 DEF Sound, AllOwned, Appended
<1> QED
  BY <1>2, <1>3, <1>4, <1>5, <1>7 DEF Sound

\* An object is taken apart: its glue joins what is held.
LEMMA Dismantled ==
  ASSUME NEW H, NEW C, NEW O, NEW G, NEW X, Sound(H, C, O, G, X),
         NEW i \in DOMAIN O, NEW O2, NEW e, Removed(O, O2, i, e),
         NEW G2, Joined(G, O[i].glue, G2) \/ Joined(O[i].glue, G, G2)
  PROVE  Sound(H, C, O2, G2, X)
<1>1. Apart(G, O[i].glue, C) /\ Apart(O[i].glue, G, C)
  BY DEF Sound, Apart
<1>2. PartOK(H, C, G2, X)
  BY <1>1, JoinGlue DEF Sound
<1>3. ASSUME NEW j \in DOMAIN O2
      PROVE  /\ ObjectOK(H, O2[j]) /\ PartOK(H, C, O2[j].glue, X)
             /\ Apart(G2, O2[j].glue, C)
  <2>1. O2[j] = O[e[j]] /\ e[j] \in DOMAIN O /\ e[j] # i
    BY DEF Removed
  <2>2. Apart(G, O2[j].glue, C) /\ Apart(O[i].glue, O2[j].glue, C)
    BY <2>1 DEF Sound
  <2>3. Apart(G2, O2[j].glue, C)
    BY <2>2, JoinApart
  <2> QED
    BY <2>1, <2>3 DEF Sound
<1>4. ASSUME NEW j \in DOMAIN O2, NEW k \in DOMAIN O2, j # k
      PROVE  Apart(O2[j].glue, O2[k].glue, C)
  <2>1. O2[j] = O[e[j]] /\ e[j] \in DOMAIN O /\ O2[k] = O[e[k]] /\ e[k] \in DOMAIN O /\ e[j] # e[k]
    BY <1>4 DEF Removed
  <2> QED
    BY <2>1 DEF Sound
<1>5. ASSUME NEW h, InGlue(h, G) \/ \E k \in DOMAIN O : InGlue(h, O[k].glue)
      PROVE  InGlue(h, G2) \/ \E k \in DOMAIN O2 : InGlue(h, O2[k].glue)
  <2>1. CASE InGlue(h, G) \/ InGlue(h, O[i].glue)
    BY <2>1, JoinHas
  <2>2. ASSUME NEW k \in DOMAIN O, k # i, InGlue(h, O[k].glue)
        PROVE  \E j \in DOMAIN O2 : InGlue(h, O2[j].glue)
    BY <2>2 DEF Removed
  <2> QED
    BY <1>5, <2>1, <2>2
<1>6. AllOwned(H, C, O2, G2)
  BY <1>5 DEF Sound, AllOwned
<1> QED
  BY <1>2, <1>3, <1>4, <1>6 DEF Sound

\* What is held becomes an object.
LEMMA Given ==
  ASSUME NEW H, NEW C, NEW O, NEW G, NEW X, Sound(H, C, O, G, X),
         NEW O2, NEW n, NEW o, Appended(O, O2, n, o), o.glue = G, ObjectOK(H, o)
  PROVE  Sound(H, C, O2, <<>>, X)
<1>1. PartOK(H, C, <<>>, X)
  BY NoGlue
<1>2. ASSUME NEW j \in DOMAIN O2
      PROVE  ObjectOK(H, O2[j]) /\ PartOK(H, C, O2[j].glue, X) /\ Apart(<<>>, O2[j].glue, C)
  <2>1. Apart(<<>>, O2[j].glue, C)
    BY DEF Apart
  <2> QED
    BY <2>1 DEF Sound, Appended
<1>3. \A i \in DOMAIN O : Apart(G, O[i].glue, C) /\ Apart(O[i].glue, G, C)
  BY DEF Sound, Apart
<1>4. ASSUME NEW j \in DOMAIN O2, NEW k \in DOMAIN O2, j # k
      PROVE  Apart(O2[j].glue, O2[k].glue, C)
  BY <1>3, <1>4 DEF Sound, Appended
<1>5. ASSUME NEW h, InGlue(h, G) \/ \E k \in DOMAIN O : InGlue(h, O[k].glue)
      PROVE  \E k \in DOMAIN O2 : InGlue(h, O2[k].glue)
  BY <1>5 DEF Appended
<1>6. AllOwned(H, C, O2, <<>>)
  BY <1>5 DEF Sound, AllOwned
<1> QED
  BY <1>1, <1>2, <1>4, <1>6 DEF Sound

\* An object is a clone of flake settings, whose handles have two owners then.
LEMMA Cloned ==
  ASSUME NEW H, NEW C, NEW O, NEW G, NEW X, Sound(H, C, O, G, X),
         NEW O2, NEW n, NEW o, Appended(O, O2, n, o), ObjectOK(H, o), o.glue = o.flakes,
         o.flakes \in Seq(Nat), NEW C2, C2 = C \cup {o.flakes[i] : i \in DOMAIN o.flakes}
  PROVE  Sound(H, C2, O2, G, X)
<1>1. \A k \in DOMAIN o.glue : o.glue[k] \in C2 /\ o.glue[k] \in DOMAIN H
  BY DEF ObjectOK
<1>2. HandlesOK(H, C2)
  BY DEF Sound, HandlesOK, ObjectOK
<1>3. \A g : PartOK(H, C, g, X) => PartOK(H, C2, g, X)
  BY DEF PartOK, GlueOK, Once, UsersFirst
<1>4. PartOK(H, C2, o.glue, X)
  BY <1>1 DEF PartOK, GlueOK, Once, UsersFirst, Before
<1>5. \A f, g : Apart(f, g, C) => Apart(f, g, C2)
  BY DEF Apart
<1>6. \A g : Apart(g, o.glue, C2) /\ Apart(o.glue, g, C2)
  BY <1>1 DEF Apart
<1>7. ASSUME NEW j \in DOMAIN O2
      PROVE  ObjectOK(H, O2[j]) /\ PartOK(H, C2, O2[j].glue, X) /\ Apart(G, O2[j].glue, C2)
  BY <1>3, <1>4, <1>5, <1>6 DEF Sound, Appended
<1>8. ASSUME NEW j \in DOMAIN O2, NEW k \in DOMAIN O2, j # k
      PROVE  Apart(O2[j].glue, O2[k].glue, C2)
  BY <1>5, <1>6, <1>8 DEF Sound, Appended
<1>9. AllOwned(H, C2, O2, G) /\ UsedLive(H, C2)
  BY DEF Sound, AllOwned, UsedLive, Appended
<1> QED
  BY <1>2, <1>3, <1>7, <1>8, <1>9 DEF Sound

\* The first handle of what is held, a builder, may use what is held after it.
LEMMA UsesMore ==
  ASSUME NEW H, NEW C, NEW O, NEW G, Sound(H, C, O, G, {}),
         1 \in DOMAIN G, H[G[1]].kind \in UserKinds,
         NEW U, \A u \in U : InGlue(u, G) /\ u # G[1],
         NEW H2 \in Seq(HandleType), NEW x, Replaced(H, H2, G[1], x),
         x.uses = H[G[1]].uses \cup U, x.kind = H[G[1]].kind, x.live = H[G[1]].live
  PROVE  Sound(H2, C, O, G, {})
<1> DEFINE b == G[1]
<1>1. /\ b \in DOMAIN H /\ H \in Seq(HandleType) /\ G \in Seq(Nat)
      /\ \A u \in U : u \in DOMAIN H /\ (u \in C \/ H[u].live)
  BY DEF Sound, PartOK, GlueOK, HandlesOK, InGlue
<1>2. x.uses = H[b].uses \cup U /\ x.live = H[b].live /\ x.kind = H[b].kind
  OBVIOUS
<1>3. /\ DOMAIN H2 = DOMAIN H /\ H2[b] = x
      /\ \A h \in DOMAIN H : h # b => H2[h] = H[h]
  BY DEF Replaced
<1>4. \A h \in DOMAIN H : H2[h].kind = H[h].kind /\ H2[h].live = H[h].live
  BY <1>2, <1>3
<1> HIDE DEF b
<1>5. HandlesOK(H2, C)
  BY <1>1, <1>2, <1>3, <1>4 DEF HandlesOK, Sound, b
<1>6. \A o : ObjectOK(H, o) => ObjectOK(H2, o)
  BY <1>3, <1>4 DEF ObjectOK
<1>7. ASSUME NEW g, PartOK(H, C, g, {}), \A u \in U \ C : Before(g, b, u)
       PROVE  PartOK(H2, C, g, {})
  <2>1. GlueOK(H2, C, g)
    BY <1>3, <1>4, <1>7 DEF PartOK, GlueOK
  <2>2. ASSUME NEW h \in DOMAIN H2, H2[h].live, NEW u \in H2[h].uses \ C PROVE Before(g, h, u)
    <3>1. h \in DOMAIN H /\ H[h].live
      BY <1>3, <1>4, <2>2
    <3>2. CASE u \in H[h].uses
      BY <1>7, <2>2, <3>1, <3>2 DEF PartOK, UsersFirst
    <3>3. CASE h = b /\ u \in U
      BY <1>7, <2>2, <3>3
    <3> QED
      BY <1>2, <1>3, <2>2, <3>1, <3>2, <3>3
  <2> QED
    BY <2>1, <2>2 DEF PartOK, UsersFirst
<1>8. PartOK(H2, C, G, {})
  <2>1. \A u \in U : Before(G, b, u)
    <3> SUFFICES ASSUME NEW u \in U, NEW k \in DOMAIN G, G[k] = u
                 PROVE  \E i \in DOMAIN G : i < k /\ G[i] = b
      BY DEF Before
    <3>1. k # 1 /\ k \in 1..Len(G) /\ Len(G) \in Nat
      BY <1>1 DEF b
    <3>2. 1 < k
      BY <3>1
    <3> QED
      BY <3>2 DEF b
  <2> QED
    BY <1>7, <2>1 DEF Sound
<1>9. ASSUME NEW i \in DOMAIN O PROVE ObjectOK(H2, O[i]) /\ PartOK(H2, C, O[i].glue, {})
  <2>1. \A u \in U \ C : Before(O[i].glue, b, u)
    BY DEF Sound, Apart, InGlue, Before
  <2> QED
    BY <1>6, <1>7, <2>1 DEF Sound
<1>10. UsedLive(H2, C)
  <2> SUFFICES ASSUME NEW h \in DOMAIN H2, H2[h].live, NEW u \in H2[h].uses \ C PROVE H2[u].live
    BY DEF UsedLive
  <2>1. u \in DOMAIN H /\ (u \in H[h].uses \/ u \in U)
    BY <1>1, <1>2, <1>3, <1>5 DEF HandlesOK
  <2>2. H[u].live
    BY <1>1, <1>3, <1>4, <2>1 DEF Sound, UsedLive
  <2> QED
    BY <1>4, <2>1, <2>2
<1>11. AllOwned(H2, C, O, G)
  BY <1>3, <1>4 DEF Sound, AllOwned
<1> QED
  BY <1>5, <1>8, <1>9, <1>10, <1>11 DEF Sound

\* Nothing in g uses others but perhaps its first handle.
FirstUses(H, g) == \A k \in DOMAIN g : k # 1 => H[g[k]].kind \notin UserKinds

\* What follows a builder may be in any order, as it uses nothing.
LEMMA Reordered ==
  ASSUME NEW H, NEW C, NEW O, NEW G, Sound(H, C, O, G, {}), FirstUses(H, G),
         NEW G2, G2 \in Seq(Nat), 1 \in DOMAIN G, 1 \in DOMAIN G2, G2[1] = G[1],
         \A h : InGlue(h, G2) <=> InGlue(h, G), Once(G2, C)
  PROVE  Sound(H, C, O, G2, {})
<1>1. GlueOK(H, C, G2)
  <2>1. \A k \in DOMAIN G2 : G2[k] \in DOMAIN H /\ (G2[k] \in C \/ H[G2[k]].live)
    BY DEF Sound, PartOK, GlueOK, InGlue
  <2> QED
    BY <2>1 DEF GlueOK
<1>2. ASSUME NEW h \in DOMAIN H, H[h].live, NEW u \in H[h].uses \ C, NEW k \in DOMAIN G2, G2[k] = u
      PROVE  \E i \in DOMAIN G2 : i < k /\ G2[i] = h
  <2>1. PICK l \in DOMAIN G : G[l] = u
    BY <1>2 DEF InGlue
  <2>2. PICK i \in DOMAIN G : i < l /\ G[i] = h
    BY <1>2, <2>1 DEF Sound, PartOK, UsersFirst, Before
  <2>3. i = 1
    BY <1>2, <2>2 DEF Sound, HandlesOK, FirstUses
  <2>4. G2[1] = h
    BY <2>2, <2>3
  <2>5. l # 1 /\ 1 < l
    BY <2>2, <2>3 DEF Sound, PartOK, GlueOK
  <2>6. k # 1
    <3> SUFFICES ASSUME k = 1 PROVE FALSE
      OBVIOUS
    <3>1. u = h /\ G[1] = h
      BY <1>2, <2>4
    <3>2. PICK j \in DOMAIN G : j < 1 /\ G[j] = h
      BY <1>2, <3>1 DEF Sound, PartOK, UsersFirst, Before
    <3> QED
      BY <3>2 DEF Sound, PartOK, GlueOK
  <2>7. 1 < k
    BY <2>6
  <2> QED
    BY <2>4, <2>7
<1>3. PartOK(H, C, G2, {})
  BY <1>1, <1>2 DEF PartOK, UsersFirst, Before
<1>4. ASSUME NEW i \in DOMAIN O, NEW k \in DOMAIN G2, NEW l \in DOMAIN O[i].glue,
             G2[k] = O[i].glue[l]
      PROVE  G2[k] \in C
  <2>1. PICK j \in DOMAIN G : G[j] = G2[k]
    BY DEF InGlue
  <2> QED
    BY <1>4, <2>1 DEF Sound, Apart
<1>5. AllOwned(H, C, O, G2)
  BY DEF Sound, AllOwned
<1> QED
  BY <1>3, <1>4, <1>5 DEF Sound, Apart

\* The first of what is held is gone.
Popped(G, G2) ==
  /\ G2 \in Seq(Nat) /\ DOMAIN G2 = {k \in Nat \ {0} : k + 1 \in DOMAIN G}
  /\ \A k \in DOMAIN G2 : G2[k] = G[k + 1]

\* The handle h has been freed.
Dead(h, x) == x.uses = {} /\ x.kind = h.kind /\ x.live = FALSE

\* The next handle is freed: nobody uses it.
LEMMA Freed ==
  ASSUME NEW H, NEW C, NEW O, NEW G, NEW X, Sound(H, C, O, G, X), 1 \in DOMAIN G,
         X \subseteq {G[1]}, H[G[1]].live,
         NEW H2 \in Seq(HandleType), NEW x, Replaced(H, H2, G[1], x), Dead(H[G[1]], x),
         NEW G2, Popped(G, G2)
  PROVE  Sound(H2, C, O, G2, {})
<1> DEFINE b == G[1]
<1>1. b \in DOMAIN H /\ H \in Seq(HandleType) /\ G \in Seq(Nat)
  BY DEF Sound, PartOK, GlueOK, HandlesOK
<1>2. x.uses = {} /\ x.live = FALSE /\ x.kind = H[b].kind
  BY DEF Dead
<1>3. /\ DOMAIN H2 = DOMAIN H /\ H2[b] = x
      /\ \A h \in DOMAIN H : h # b => H2[h] = H[h]
  BY DEF Replaced
<1>4. \A h \in DOMAIN H : H2[h].kind = H[h].kind
  BY <1>2, <1>3
<1>5. HandlesOK(H2, C)
  BY <1>2, <1>3, <1>4 DEF HandlesOK, Sound
<1>6. \A o : ObjectOK(H, o) => ObjectOK(H2, o)
  BY <1>3, <1>4 DEF ObjectOK
<1>7. \A k \in DOMAIN G : k = 1 \/ (k - 1 \in DOMAIN G2 /\ G2[k - 1] = G[k])
  BY <1>1 DEF Popped
<1>8. /\ G2 \in Seq(Nat)
      /\ \A k \in DOMAIN G2 : k + 1 \in DOMAIN G /\ G2[k] = G[k + 1] /\ k \in Nat
  BY DEF Popped
<1>9. ASSUME NEW h \in DOMAIN H2, H2[h].live PROVE h # b /\ H2[h] = H[h] /\ h \notin X
  BY <1>2, <1>3, <1>9
<1>10. ASSUME NEW i \in DOMAIN O
       PROVE  ObjectOK(H2, O[i]) /\ PartOK(H2, C, O[i].glue, {}) /\ Apart(G2, O[i].glue, C)
  <2>1. PartOK(H, C, O[i].glue, X) /\ Apart(G, O[i].glue, C) /\ ObjectOK(H, O[i])
    BY DEF Sound
  <2>2. GlueOK(H2, C, O[i].glue)
    BY <1>3, <2>1 DEF PartOK, GlueOK, Apart
  <2>3. UsersFirst(H2, C, O[i].glue, {})
    BY <1>3, <1>9, <2>1 DEF PartOK, UsersFirst
  <2>4. Apart(G2, O[i].glue, C)
    BY <1>8, <2>1 DEF Apart
  <2> QED
    BY <1>6, <2>1, <2>2, <2>3, <2>4 DEF PartOK
<1>11. PartOK(H2, C, G2, {})
  <2>1. PartOK(H, C, G, X)
    BY DEF Sound
  <2>2. \A k \in DOMAIN G2 : G2[k] \in DOMAIN H2 /\ (G2[k] \in C \/ H2[G2[k]].live)
    <3> TAKE k \in DOMAIN G2
    <3>1. k + 1 \in DOMAIN G /\ G2[k] = G[k + 1] /\ k + 1 # 1
      BY <1>8
    <3>2. G2[k] \in C \/ G2[k] # b
      BY <2>1, <3>1 DEF PartOK, GlueOK, Once
    <3> QED
      BY <1>3, <2>1, <3>1, <3>2 DEF PartOK, GlueOK
  <2>3. Once(G2, C)
    <3> SUFFICES ASSUME NEW k \in DOMAIN G2, NEW l \in DOMAIN G2, G2[k] = G2[l], k # l
                 PROVE  G2[k] \in C
      BY DEF Once
    <3>1. k + 1 \in DOMAIN G /\ l + 1 \in DOMAIN G /\ k + 1 # l + 1
      BY <1>8
    <3> QED
      BY <1>8, <2>1, <3>1 DEF PartOK, GlueOK, Once
  <2>4. ASSUME NEW h \in DOMAIN H2, H2[h].live, NEW u \in H2[h].uses \ C,
               NEW k \in DOMAIN G2, G2[k] = u
        PROVE  \E i \in DOMAIN G2 : i < k /\ G2[i] = h
    <3>1. h # b /\ H2[h] = H[h] /\ h \in DOMAIN H /\ h \notin X
      BY <1>3, <1>9, <2>4
    <3>2. k + 1 \in DOMAIN G /\ G[k + 1] = u /\ k \in Nat
      BY <1>8, <2>4
    <3>3. PICK i \in DOMAIN G : i < k + 1 /\ G[i] = h
      BY <2>1, <2>4, <3>1, <3>2 DEF PartOK, UsersFirst, Before
    <3>4. i # 1 /\ i \in Nat
      BY <1>1, <3>1, <3>3
    <3>5. i - 1 \in DOMAIN G2 /\ G2[i - 1] = h
      BY <1>7, <3>3, <3>4
    <3>6. i - 1 < k
      BY <3>2, <3>3, <3>4
    <3> QED
      BY <3>5, <3>6
  <2> QED
    BY <1>8, <2>2, <2>3, <2>4 DEF PartOK, GlueOK, UsersFirst, Before
<1>12. UsedLive(H2, C)
  <2> SUFFICES ASSUME NEW h \in DOMAIN H2, H2[h].live, NEW u \in H2[h].uses \ C PROVE H2[u].live
    BY DEF UsedLive
  <2>1. h # b /\ h \in DOMAIN H /\ h \notin X /\ H2[h] = H[h]
    BY <1>3, <1>9
  <2>2. H[u].live /\ u \in DOMAIN H
    BY <2>1 DEF Sound, UsedLive, HandlesOK
  <2>3. u # b
    <3> SUFFICES ASSUME u = b PROVE FALSE
      OBVIOUS
    <3>1. Before(G, h, u)
      BY <2>1 DEF Sound, PartOK, UsersFirst
    <3>2. PICK i \in DOMAIN G : i < 1
      BY <3>1 DEF Before
    <3> QED
      BY <1>1, <3>2
  <2> QED
    BY <1>3, <2>2, <2>3
<1>13. AllOwned(H2, C, O, G2)
  <2> SUFFICES ASSUME NEW h \in DOMAIN H2 \ C, H2[h].live, H2[h].kind \notin Unowned
               PROVE  InGlue(h, G2) \/ \E i \in DOMAIN O : InGlue(h, O[i].glue)
    BY DEF AllOwned
  <2>1. h # b /\ H2[h] = H[h] /\ h \in DOMAIN H
    BY <1>3, <1>9
  <2>2. InGlue(h, G) \/ \E i \in DOMAIN O : InGlue(h, O[i].glue)
    BY <2>1 DEF Sound, AllOwned
  <2>3. ASSUME NEW k \in DOMAIN G, G[k] = h PROVE InGlue(h, G2)
    BY <1>7, <2>1, <2>3 DEF InGlue
  <2> QED
    BY <2>2, <2>3 DEF InGlue
<1> QED
  BY <1>5, <1>10, <1>11, <1>12, <1>13 DEF Sound

\* A state is made from the builder b, and an evaluator of the state and of what
\* was held besides the builder, which is freed next.
LEMMA Built ==
  ASSUME NEW H, NEW C, NEW O, NEW b \in Nat, NEW R \in Seq(Nat), NEW G, Joined(<<b>>, R, G),
         Sound(H, C, O, G, {}), H[b].kind \in UserKinds,
         NEW H2 \in Seq(HandleType), NEW n, NEW x, Appended(H, H2, n, x), x.live,
         x.kind \in UserKinds, x.uses = H[b].uses, NEW R2, Joined(<<n>>, R, R2),
         NEW O2, NEW m, NEW o, Appended(O, O2, m, o), o.glue = R2, ObjectOK(H2, o)
  PROVE  Sound(H2, C, O2, <<b>>, {b})
<1> DEFINE B == <<b>>
<1>1. /\ B \in Seq(Nat) /\ DOMAIN B = {1} /\ B[1] = b /\ Len(B) = 1
      /\ DOMAIN <<n>> = {1} /\ <<n>>[1] = n /\ Len(<<n>>) = 1
  BY SingleSeq DEF Appended
<1> HIDE DEF B
<1>2. /\ 1 \in DOMAIN G /\ G[1] = b /\ 1 \in DOMAIN R2 /\ R2[1] = n
      /\ \A k \in DOMAIN R : k + 1 \in DOMAIN G /\ G[k + 1] = R[k] /\ k \in Nat /\ k >= 1
      /\ \A k \in DOMAIN R : k + 1 \in DOMAIN R2 /\ R2[k + 1] = R[k]
      /\ \A k \in DOMAIN G : k = 1 \/ (k - 1 \in DOMAIN R /\ k > 1 /\ G[k] = R[k - 1])
      /\ \A k \in DOMAIN R2 : k = 1 \/ (k - 1 \in DOMAIN R /\ k > 1 /\ R2[k] = R[k - 1])
      /\ \A k \in DOMAIN R2 : k # 1 => k \in DOMAIN G /\ G[k] = R2[k]
      /\ \A k \in DOMAIN G : k # 1 => k \in DOMAIN R2 /\ G[k] = R2[k]
  <2>1. /\ 1 \in DOMAIN G /\ G[1] = b
        /\ \A k \in DOMAIN R : k + 1 \in DOMAIN G /\ G[k + 1] = R[k] /\ k \in Nat /\ k >= 1
        /\ \A k \in DOMAIN G : k = 1 \/ (k - 1 \in DOMAIN R /\ k > 1 /\ G[k] = R[k - 1])
    BY <1>1 DEF Joined, B
  <2>2. /\ 1 \in DOMAIN R2 /\ R2[1] = n
        /\ \A k \in DOMAIN R : k + 1 \in DOMAIN R2 /\ R2[k + 1] = R[k]
        /\ \A k \in DOMAIN R2 : k = 1 \/ (k - 1 \in DOMAIN R /\ k > 1 /\ R2[k] = R[k - 1])
    BY <1>1 DEF Joined
  <2>3. \A k \in DOMAIN R2 \cup DOMAIN G : k \in Nat
    BY DEF Joined
  <2>4. \A k \in Nat : (k - 1) + 1 = k
    OBVIOUS
  <2> QED
    BY <2>1, <2>2, <2>3, <2>4
<1>3. /\ b \in DOMAIN H /\ b \notin C /\ H[b].live
      /\ x.uses \subseteq DOMAIN H /\ n # b
  <2>1. b \in DOMAIN H /\ (b \in C \/ H[b].live)
    BY <1>2 DEF Sound, PartOK, GlueOK
  <2>2. b \notin C /\ x.uses \subseteq DOMAIN H
    BY <2>1 DEF Sound, HandlesOK, FlakeKinds, UserKinds
  <2> QED
    BY <2>1, <2>2 DEF Appended
<1>4. \A u \in x.uses \ C : H[u].live /\ u # b
  <2> SUFFICES ASSUME NEW u \in x.uses \ C PROVE H[u].live /\ u # b
    OBVIOUS
  <2>1. H[u].live
    BY <1>3 DEF Sound, UsedLive
  <2>2. Before(G, b, u)
    BY <1>3 DEF Sound, PartOK, UsersFirst
  <2>3. G \in Seq(Nat)
    BY DEF Sound, PartOK, GlueOK
  <2>4. u # b
    BY <1>2, <2>2, <2>3 DEF Before
  <2> QED
    BY <2>1, <2>4
<1>5. HandlesOK(H2, C) /\ n \notin C /\ \A p : ObjectOK(H, p) => ObjectOK(H2, p)
  BY <1>3, NewHandle DEF Sound
<1>6. UsedLive(H2, C)
  BY <1>3, <1>4, NewUsedLive DEF Sound
<1>7. PartOK(H2, C, B, {b})
  <2>1. GlueOK(H2, C, B)
    BY <1>1, <1>3 DEF GlueOK, Once, Appended
  <2>2. ASSUME NEW h \in DOMAIN H2 \ {b}, H2[h].live, NEW u \in H2[h].uses \ C PROVE u # b
    <3>1. CASE h = n
      BY <1>4, <2>2, <3>1 DEF Appended
    <3>2. CASE h # n
      <4>1. Before(G, h, u) /\ G \in Seq(Nat)
        BY <2>2, <3>2 DEF Sound, PartOK, GlueOK, UsersFirst, Appended
      <4> QED
        BY <1>2, <4>1 DEF Before
    <3> QED
      BY <3>1, <3>2
  <2> QED
    BY <1>1, <2>1, <2>2 DEF PartOK, UsersFirst, Before
<1>8. PartOK(H2, C, R2, {b})
  <2>1. \A k \in DOMAIN R2 : R2[k] \in DOMAIN H2 /\ (R2[k] \in C \/ H2[R2[k]].live)
    <3> TAKE k \in DOMAIN R2
    <3>1. CASE k = 1
      BY <1>2, <3>1 DEF Appended
    <3>2. CASE k # 1
      <4>1. k \in DOMAIN G /\ R2[k] = G[k]
        BY <1>2, <3>2
      <4> QED
        BY <4>1 DEF Sound, PartOK, GlueOK, Appended
    <3> QED
      BY <3>1, <3>2
  <2>2. \A k \in DOMAIN R2 : k # 1 => k \in DOMAIN G /\ R2[k] = G[k] /\ R2[k] \in DOMAIN H /\ k > 1
    BY <1>2 DEF Sound, PartOK, GlueOK
  <2>3. ASSUME NEW k \in DOMAIN R2, NEW l \in DOMAIN R2, R2[k] = R2[l], k # l PROVE R2[k] \in C
    <3>1. k # 1 /\ l # 1
      BY <1>2, <2>2, <2>3 DEF Appended
    <3> QED
      BY <2>2, <2>3, <3>1 DEF Sound, PartOK, GlueOK, Once
  <2>4. ASSUME NEW h \in DOMAIN H2 \ {b}, H2[h].live, NEW u \in H2[h].uses \ C,
               NEW k \in DOMAIN R2, R2[k] = u
        PROVE  \E i \in DOMAIN R2 : i < k /\ R2[i] = h
    <3>1. u \in DOMAIN H
      BY <1>3, <2>4 DEF Appended, Sound, HandlesOK
    <3>2. k # 1
      BY <1>2, <2>4, <3>1 DEF Appended
    <3>3. k \in DOMAIN G /\ G[k] = u /\ k > 1
      BY <2>2, <2>4, <3>2
    <3>4. CASE h = n
      BY <1>2, <3>3, <3>4
    <3>5. CASE h # n
      <4>1. PICK i \in DOMAIN G : i < k /\ G[i] = h
        BY <2>4, <3>3, <3>5 DEF Sound, PartOK, UsersFirst, Before, Appended
      <4>2. i # 1
        BY <1>2, <2>4, <4>1
      <4>3. i \in DOMAIN R2 /\ R2[i] = h
        <5>1. i - 1 \in DOMAIN R /\ G[i] = R[i - 1] /\ i - 1 + 1 = i
          BY <1>2, <4>1, <4>2 DEF Sound, PartOK, GlueOK
        <5> QED
          BY <1>2, <4>1, <5>1
      <4> QED
        BY <4>1, <4>3
    <3> QED
      BY <3>4, <3>5
  <2> QED
    BY <2>1, <2>3, <2>4 DEF PartOK, GlueOK, Once, UsersFirst, Before, Joined
<1>9. ASSUME NEW i \in DOMAIN O
      PROVE  /\ ObjectOK(H2, O[i]) /\ PartOK(H2, C, O[i].glue, {b})
             /\ Apart(B, O[i].glue, C) /\ Apart(R2, O[i].glue, C)
  <2>1. ObjectOK(H2, O[i]) /\ PartOK(H, C, O[i].glue, {}) /\ Apart(G, O[i].glue, C)
    BY <1>5 DEF Sound
  <2>2. ~InGlue(b, O[i].glue)
    BY <1>2, <1>3, <2>1 DEF Apart, InGlue
  <2>3. \A u \in x.uses \ C : ~InGlue(u, O[i].glue)
    <3> SUFFICES ASSUME NEW u \in x.uses \ C, InGlue(u, O[i].glue) PROVE FALSE
      OBVIOUS
    <3>1. Before(O[i].glue, b, u)
      BY <1>3, <2>1 DEF PartOK, UsersFirst
    <3> QED
      BY <2>2, <3>1 DEF Before, InGlue
  <2>4. PartOK(H2, C, O[i].glue, {})
    BY <2>1, <2>3, KeepGlue
  <2>5. PartOK(H2, C, O[i].glue, {b})
    BY <2>4 DEF PartOK, UsersFirst
  <2>6. Apart(B, O[i].glue, C)
    BY <1>1, <2>2 DEF Apart, InGlue
  <2>7. Apart(R2, O[i].glue, C)
    <3> SUFFICES ASSUME NEW k \in DOMAIN R2, NEW l \in DOMAIN O[i].glue, R2[k] = O[i].glue[l]
                 PROVE  R2[k] \in C
      BY DEF Apart
    <3>1. CASE k = 1
      BY <1>2, <2>1, <3>1 DEF PartOK, GlueOK, Appended
    <3>2. CASE k # 1
      <4>1. k \in DOMAIN G /\ R2[k] = G[k]
        BY <1>2, <3>2
      <4> QED
        BY <2>1, <4>1 DEF Apart
    <3> QED
      BY <3>1, <3>2
  <2> QED
    BY <2>1, <2>5, <2>6, <2>7
<1>10. Apart(B, R2, C)
  <2> SUFFICES ASSUME NEW k \in DOMAIN R2, R2[k] = b PROVE b \in C
    BY <1>1 DEF Apart
  <2>1. k # 1
    BY <1>2, <1>3
  <2>2. k \in DOMAIN G /\ G[k] = b
    BY <1>2, <2>1
  <2> QED
    BY <1>2, <2>1, <2>2 DEF Sound, PartOK, GlueOK, Once
<1>11. ASSUME NEW i \in DOMAIN O2
       PROVE  ObjectOK(H2, O2[i]) /\ PartOK(H2, C, O2[i].glue, {b}) /\ Apart(B, O2[i].glue, C)
  BY <1>8, <1>9, <1>10 DEF Appended
<1>12. ASSUME NEW i \in DOMAIN O2, NEW j \in DOMAIN O2, i # j
       PROVE  Apart(O2[i].glue, O2[j].glue, C)
  <2>1. \A k \in DOMAIN O : Apart(R2, O[k].glue, C) /\ Apart(O[k].glue, R2, C)
    BY <1>9 DEF Apart
  <2> QED
    BY <1>12, <2>1 DEF Sound, Appended
<1>13. AllOwned(H2, C, O2, B)
  <2> SUFFICES ASSUME NEW h \in DOMAIN H2 \ C, H2[h].live, H2[h].kind \notin Unowned
               PROVE  InGlue(h, B) \/ \E i \in DOMAIN O2 : InGlue(h, O2[i].glue)
    BY DEF AllOwned
  <2>1. InGlue(h, R2) => InGlue(h, O2[m].glue) /\ m \in DOMAIN O2
    BY DEF Appended
  <2>2. CASE h = n
    BY <1>2, <2>1, <2>2 DEF InGlue
  <2>3. CASE h # n
    <3>1. InGlue(h, G) \/ \E i \in DOMAIN O : InGlue(h, O[i].glue)
      BY <2>3 DEF Sound, AllOwned, Appended
    <3>2. ASSUME InGlue(h, G) PROVE InGlue(h, B) \/ InGlue(h, R2)
      <4>1. PICK k \in DOMAIN G : G[k] = h
        BY <3>2 DEF InGlue
      <4>2. CASE k = 1
        BY <1>1, <1>2, <4>1, <4>2 DEF InGlue
      <4>3. CASE k # 1
        <5>1. k - 1 \in DOMAIN R /\ R[k - 1] = h
          BY <1>2, <4>1, <4>3
        <5>2. k - 1 + 1 \in DOMAIN R2 /\ R2[k - 1 + 1] = h
          BY <1>2, <5>1
        <5> QED
          BY <5>2 DEF InGlue
      <4> QED
        BY <4>2, <4>3
    <3>3. ASSUME NEW i \in DOMAIN O, InGlue(h, O[i].glue)
          PROVE  \E j \in DOMAIN O2 : InGlue(h, O2[j].glue)
      BY <3>3 DEF Appended
    <3> QED
      BY <2>1, <3>1, <3>2, <3>3
  <2> QED
    BY <2>2, <2>3
<1>14. Sound(H2, C, O2, B, {b})
  BY <1>5, <1>6, <1>7, <1>11, <1>12, <1>13 DEF Sound
<1> QED
  BY <1>14 DEF B

\* Glue in two parts has a handle once if both parts have, and not the same.
LEMMA JoinOnce ==
  ASSUME NEW C, NEW a, NEW b, NEW c, Joined(a, b, c)
  PROVE  Once(c, C) <=> Once(a, C) /\ Once(b, C) /\ Apart(a, b, C)
<1> DEFINE m == Len(a)
<1>1. /\ m \in Nat
      /\ \A k \in DOMAIN a : k \in DOMAIN c /\ c[k] = a[k] /\ k \in Nat /\ k <= m
      /\ \A k \in DOMAIN b : k + m \in DOMAIN c /\ c[k + m] = b[k] /\ k \in Nat /\ k >= 1
      /\ \A k \in DOMAIN c : k \in DOMAIN a \/ (k - m \in DOMAIN b /\ k > m)
      /\ \A k \in DOMAIN c : k \in Nat
  BY DEF Joined
<1> HIDE DEF m
<1>2. ASSUME Once(c, C) PROVE Once(a, C) /\ Once(b, C) /\ Apart(a, b, C)
  <2>1. Once(a, C)
    BY <1>1, <1>2 DEF Once
  <2>2. ASSUME NEW k \in DOMAIN b, NEW l \in DOMAIN b, b[k] = b[l], k # l PROVE b[k] \in C
    <3>1. k + m # l + m /\ k + m \in DOMAIN c /\ l + m \in DOMAIN c
      BY <1>1, <2>2
    <3> QED
      BY <1>1, <1>2, <2>2, <3>1 DEF Once
  <2>3. ASSUME NEW k \in DOMAIN a, NEW l \in DOMAIN b, a[k] = b[l] PROVE a[k] \in C
    <3>1. k # l + m /\ k \in DOMAIN c /\ l + m \in DOMAIN c
      BY <1>1
    <3> QED
      BY <1>1, <1>2, <2>3, <3>1 DEF Once
  <2> QED
    BY <2>1, <2>2, <2>3 DEF Once, Apart
<1>3. ASSUME Once(a, C), Once(b, C), Apart(a, b, C) PROVE Once(c, C)
  <2> SUFFICES ASSUME NEW k \in DOMAIN c, NEW l \in DOMAIN c, c[k] = c[l], k # l
               PROVE  c[k] \in C
    BY DEF Once
  <2>1. CASE k \in DOMAIN a /\ l \in DOMAIN a
    BY <1>1, <1>3, <2>1 DEF Once
  <2>2. CASE k - m \in DOMAIN b /\ l - m \in DOMAIN b
    <3>1. k - m # l - m /\ c[k] = b[k - m] /\ c[l] = b[l - m]
      BY <1>1, <2>2
    <3> QED
      BY <1>3, <2>2, <3>1 DEF Once
  <2>3. CASE k \in DOMAIN a /\ l - m \in DOMAIN b
    <3>1. c[k] = a[k] /\ c[l] = b[l - m]
      BY <1>1, <2>3
    <3> QED
      BY <1>3, <2>3, <3>1 DEF Apart
  <2>4. CASE k - m \in DOMAIN b /\ l \in DOMAIN a
    <3>1. c[l] = a[l] /\ c[k] = b[k - m]
      BY <1>1, <2>4
    <3> QED
      BY <1>3, <2>4, <3>1 DEF Apart
  <2> QED
    BY <1>1, <2>1, <2>2, <2>3, <2>4
<1> QED
  BY <1>2, <1>3

\* Glue is apart from glue in two parts if it is from both.
LEMMA JoinAparts ==
  ASSUME NEW C, NEW a, NEW b, NEW c, Joined(a, b, c), NEW g
  PROVE  /\ Apart(c, g, C) <=> Apart(a, g, C) /\ Apart(b, g, C)
         /\ Apart(c, g, C) <=> Apart(g, c, C)
<1>1. Apart(c, g, C) => Apart(a, g, C) /\ Apart(b, g, C)
  <2>1. Apart(c, g, C) => Apart(a, g, C)
    BY DEF Joined, Apart
  <2>2. Apart(c, g, C) => Apart(b, g, C)
    <3> SUFFICES ASSUME Apart(c, g, C), NEW k \in DOMAIN b, NEW l \in DOMAIN g, b[k] = g[l]
                 PROVE  b[k] \in C
      BY DEF Apart
    <3>1. k + Len(a) \in DOMAIN c /\ c[k + Len(a)] = b[k]
      BY DEF Joined
    <3> QED
      BY <3>1 DEF Apart
  <2> QED
    BY <2>1, <2>2
<1>2. Apart(a, g, C) /\ Apart(b, g, C) => Apart(c, g, C)
  BY JoinApart
<1>3. Apart(c, g, C) <=> Apart(g, c, C)
  BY DEF Apart
<1> QED
  BY <1>1, <1>2, <1>3

\* The second and the third part of what is held change places, behind a builder.
LEMMA Rotated ==
  ASSUME NEW H, NEW C, NEW O, NEW a \in Nat, NEW b \in Seq(Nat), NEW c \in Seq(Nat),
         Sound(H, C, O, (<<a>> \o b) \o c, {}),
         \A k \in DOMAIN b : H[b[k]].kind \notin UserKinds,
         \A k \in DOMAIN c : H[c[k]].kind \notin UserKinds
  PROVE  Sound(H, C, O, (<<a>> \o c) \o b, {})
<1> DEFINE f == <<a>>
           ab == f \o b
           ac == f \o c
           G == ab \o c
           G2 == ac \o b
<1>1. f \in Seq(Nat) /\ DOMAIN f = {1} /\ f[1] = a /\ Len(f) = 1
  BY SingleSeq
<1> HIDE DEF f
<1>2. Joined(f, b, ab) /\ Joined(f, c, ac)
  BY <1>1, JoinSeq
<1>3. ab \in Seq(Nat) /\ ac \in Seq(Nat)
  BY <1>2 DEF Joined
<1> HIDE DEF ab, ac
<1>4. Joined(ab, c, G) /\ Joined(ac, b, G2)
  BY <1>3, JoinSeq
<1>5. Sound(H, C, O, G, {})
  BY DEF G, ab, f
<1> HIDE DEF G, G2
<1>6. Once(G, C)
  BY <1>5 DEF Sound, PartOK, GlueOK
<1>7. Once(ab, C) /\ Once(c, C) /\ Apart(ab, c, C)
  BY <1>4, <1>6, JoinOnce
<1>8. Once(f, C) /\ Once(b, C) /\ Apart(f, b, C)
  BY <1>2, <1>7, JoinOnce
<1>9. Apart(f, c, C) /\ Apart(b, c, C)
  BY <1>2, <1>7, JoinAparts
<1>10. Once(ac, C)
  BY <1>2, <1>7, <1>8, <1>9, JoinOnce
<1>11. Apart(c, b, C)
  BY <1>9 DEF Apart
<1>12. Apart(ac, b, C)
  BY <1>2, <1>8, <1>11, JoinAparts
<1>13. Once(G2, C)
  BY <1>4, <1>8, <1>10, <1>12, JoinOnce
<1>14. ASSUME NEW h PROVE InGlue(h, G2) <=> InGlue(h, G)
  <2>1. InGlue(h, ab) <=> InGlue(h, f) \/ InGlue(h, b)
    BY <1>2, JoinHas
  <2>2. InGlue(h, ac) <=> InGlue(h, f) \/ InGlue(h, c)
    BY <1>2, JoinHas
  <2>3. InGlue(h, G) <=> InGlue(h, ab) \/ InGlue(h, c)
    BY <1>4, JoinHas
  <2>4. InGlue(h, G2) <=> InGlue(h, ac) \/ InGlue(h, b)
    BY <1>4, JoinHas
  <2> QED
    BY <2>1, <2>2, <2>3, <2>4
<1>15. /\ 1 \in DOMAIN G /\ G[1] = a /\ 1 \in DOMAIN G2 /\ G2[1] = a
       /\ G2 \in Seq(Nat)
  <2>1. 1 \in DOMAIN ab /\ ab[1] = a /\ 1 \in DOMAIN ac /\ ac[1] = a
    BY <1>1, <1>2 DEF Joined
  <2> QED
    BY <1>4, <2>1 DEF Joined
<1>16. FirstUses(H, G)
  <2> SUFFICES ASSUME NEW k \in DOMAIN G, k # 1 PROVE H[G[k]].kind \notin UserKinds
    BY DEF FirstUses
  <2>1. ASSUME NEW l \in DOMAIN ab, l # 1 PROVE H[ab[l]].kind \notin UserKinds
    <3>1. \/ l \in DOMAIN f /\ ab[l] = f[l]
          \/ l - Len(f) \in DOMAIN b /\ ab[l] = b[l - Len(f)]
      BY <1>2, JoinItem
    <3>2. l \notin DOMAIN f
      BY <1>1, <2>1
    <3> QED
      BY <3>1, <3>2
  <2>2. \/ k \in DOMAIN ab /\ G[k] = ab[k]
        \/ k - Len(ab) \in DOMAIN c /\ G[k] = c[k - Len(ab)]
    BY <1>4, JoinItem
  <2> QED
    BY <2>1, <2>2
<1>17. Sound(H, C, O, G2, {})
  BY <1>5, <1>13, <1>14, <1>15, <1>16, Reordered
<1> QED
  BY <1>17 DEF G2, ac, f

----------------------------------------------------------------------------
(* One thread takes a step.                                                *)

\* g is f but for what t has.
Only(f, g, t, x) == g = [u \in Threads |-> IF u = t THEN x ELSE f[u]]

\* A variable that stays, and one that changes for t.
LEMMA OnlySame ==
  ASSUME NEW f, f = [u \in Threads |-> f[u]], NEW t \in Threads PROVE Only(f, f, t, f[t])
  BY DEF Only

\* A variable that changes for t changes for t only.
LEMMA OnlyExcept ==
  ASSUME NEW f, f = [u \in Threads |-> f[u]], NEW t \in Threads, NEW x
  PROVE  Only(f, [f EXCEPT ![t] = x], t, x)
  BY DEF Only

\* It has to answer for what it has itself.
LEMMA OneThread ==
  ASSUME OInv, IInv', NEW t \in Threads, NEW H, NEW C, NEW O, NEW L, NEW D,
         Only(heap, heap', t, H), Only(cloned, cloned', t, C), Only(objs, objs', t, O),
         Only(local, local', t, L), Only(drops, drops', t, D),
         \A u \in Threads \ {t} : pc'[u] = pc[u] /\ config'[u] = config[u],
         corrupt' = corrupt, cloned[t] \subseteq C,
         InOrder(H, C, O, pc'[t], L, config'[t].flakes, D)
  PROVE  OInv'
<1>1. /\ heap'[t] = H /\ cloned'[t] = C /\ objs'[t] = O /\ local'[t] = L /\ drops'[t] = D
      /\ \A u \in Threads \ {t} : /\ heap'[u] = heap[u] /\ cloned'[u] = cloned[u]
                                  /\ objs'[u] = objs[u] /\ local'[u] = local[u]
                                  /\ drops'[u] = drops[u]
  BY DEF Only
<1>2. Shape'
  BY DEF Only, Shape
<1>3. Caused'
  BY <1>1 DEF OInv, Caused
<1>4. ASSUME NEW u \in Threads PROVE Orderly(u)'
  <2>1. CASE u = t
    BY <1>1, <2>1 DEF Orderly
  <2>2. CASE u # t
    BY <1>1, <2>2 DEF OInv, Orderly
  <2> QED
    BY <2>1, <2>2
<1> QED
  BY <1>2, <1>3, <1>4 DEF OInv

\* Corruption leaves everything as it is.
LEMMA CorruptStep ==
  ASSUME OInv, IInv', UNCHANGED <<building, owned, cloned>>,
         \E t \in Threads : cloned[t] # {}
  PROVE  OInv'
  BY DEF OInv, Shape, Caused, Orderly, building, owned

\* With no locals and no settings, nothing is held.
LEMMA NothingHeld == <<>> \o <<>> = <<>> /\ Len(<<>>) = 0
  BY ConcatEmptySeq, EmptySeq

\* Between the calls of with_store nothing is held but what is being dropped.
LEMMA IdleHolds ==
  ASSUME NEW H, NEW C, NEW O, NEW L, NEW F, InOrder(H, C, O, "idle", L, F, <<>>)
  PROVE  L = <<>> /\ F = <<>> /\ Sound(H, C, O, <<>>, {}) /\ O \in Seq(ObjectType)
<1>1. L = <<>> /\ F = <<>>
  BY EmptySeq DEF InOrder, Building
<1>2. Held("idle", L, F, <<>>) = <<>> /\ Spent(<<>>) = {}
  BY <1>1, NothingHeld DEF Held, Pending, Spent
<1> QED
  BY <1>1, <1>2 DEF InOrder

\* So what is dropped is all that has to be in order.
LEMMA IdleOrder ==
  ASSUME NEW H, NEW C, NEW O \in Seq(ObjectType), NEW D \in Seq(Nat), Sound(H, C, O, D, Spent(D))
  PROVE  InOrder(H, C, O, "idle", <<>>, <<>>, D)
<1>1. Held("idle", <<>>, <<>>, D) = D
  BY NothingHeld DEF Held, Pending
<1>2. Building(H, "idle", <<>>, <<>>, D)
  BY EmptySeq DEF Building
<1> QED
  BY <1>1, <1>2 DEF InOrder

\* The fewer handles are excepted, the more is required.
LEMMA MoreSpent ==
  ASSUME NEW H, NEW C, NEW O, NEW G, NEW X, Sound(H, C, O, G, {}) PROVE Sound(H, C, O, G, X)
  BY DEF Sound, PartOK, UsersFirst

\* What t holds when it is between calls.
LEMMA IdleThread ==
  ASSUME OInv, NEW t \in Threads, At(t, "idle")
  PROVE  /\ local[t] = <<>> /\ config[t].flakes = <<>> /\ drops[t] = <<>>
         /\ Sound(heap[t], cloned[t], objs[t], <<>>, {}) /\ objs[t] \in Seq(ObjectType)
<1>1. pc[t] = "idle" /\ drops[t] = <<>> /\ Orderly(t)
  BY DEF At, Running, OInv
<1> QED
  BY <1>1, IdleHolds DEF Orderly

\* A step of t between calls.
LEMMA IdleStep ==
  ASSUME OInv, IInv', NEW t \in Threads, At(t, "idle"), UNCHANGED <<building, corrupt>>,
         NEW H, NEW C, NEW O \in Seq(ObjectType), NEW D \in Seq(Nat),
         Only(heap, heap', t, H), Only(cloned, cloned', t, C), Only(objs, objs', t, O),
         Only(drops, drops', t, D), cloned[t] \subseteq C, Sound(H, C, O, D, {})
  PROVE  OInv'
<1>1. Sound(H, C, O, D, Spent(D))
  BY MoreSpent
<1>2. InOrder(H, C, O, "idle", <<>>, <<>>, D)
  BY <1>1, IdleOrder
<1>3. pc' = pc /\ config' = config /\ local' = local
  BY DEF building
<1>4. Only(local, local', t, <<>>)
  BY <1>3, IdleThread, OnlySame DEF OInv, Shape
<1>5. pc'[t] = "idle" /\ config'[t].flakes = <<>>
  BY <1>3, IdleThread DEF At
<1> QED
  BY <1>2, <1>3, <1>4, <1>5, OneThread

----------------------------------------------------------------------------
(* Flakes.                                                                 *)

\* Two in a row are one after the other.
LEMMA PairSeq == ASSUME NEW S, NEW x \in S, NEW y \in S PROVE <<x>> \o <<y>> = <<x, y>>
<1>1. <<x>> \in Seq(S) /\ <<y>> \in Seq(S) /\ Len(<<x>>) = 1 /\ Len(<<y>>) = 1
  OBVIOUS
<1>2. <<x, y>> \in Seq(S) /\ Len(<<x, y>>) = 2 /\ <<x, y>>[1] = x /\ <<x, y>>[2] = y
  OBVIOUS
<1> DEFINE s == <<x>> \o <<y>>
           p == <<x, y>>
<1>3. s \in Seq(S) /\ Len(s) = 2 /\ s[1] = x /\ s[2] = y
  BY <1>1, ConcatProperties
<1> HIDE DEF s, p
<1>4. p \in Seq(S) /\ Len(p) = 2 /\ p[1] = x /\ p[2] = y
  BY <1>2 DEF p
<1>5. s = p
  BY <1>3, <1>4, SeqEqual
<1> QED
  BY <1>5 DEF s, p

\* Two handles are made as one after the other.
LEMMA MakeTwo ==
  ASSUME NEW H \in Seq(HandleType), NEW x \in HandleType, NEW y \in HandleType
  PROVE  H \o <<x, y>> = (H \o <<x>>) \o <<y>>
<1>1. <<x>> \in Seq(HandleType) /\ <<y>> \in Seq(HandleType)
  OBVIOUS
<1>2. <<x>> \o <<y>> = <<x, y>>
  BY PairSeq
<1>3. (H \o <<x>>) \o <<y>> = H \o (<<x>> \o <<y>>)
  BY <1>1, ConcatAssociative
<1> QED
  BY <1>2, <1>3

\* The empty sequence may be put before or after any other.
LEMMA JoinNone ==
  ASSUME NEW g \in Seq(Nat) PROVE Joined(<<>>, g, g) /\ Joined(g, <<>>, g)
<1>1. <<>> \o g = g /\ g \o <<>> = g /\ <<>> \in Seq(Nat)
  BY ConcatEmptySeq, EmptySeq
<1> QED
  BY <1>1, JoinSeq

\* Two handles in a row.
LEMMA JoinPair == ASSUME NEW a \in Nat, NEW b \in Nat PROVE Joined(<<a>>, <<b>>, <<a, b>>)
<1>1. <<a>> \in Seq(Nat) /\ <<b>> \in Seq(Nat)
  OBVIOUS
<1>2. <<a>> \o <<b>> = <<a, b>>
  BY PairSeq
<1>3. Joined(<<a>>, <<b>>, <<a>> \o <<b>>)
  BY <1>1, JoinSeq
<1> QED
  BY <1>2, <1>3

\* An object is made.
LEMMA MakeObject ==
  ASSUME NEW O \in Seq(ObjectType), NEW o \in ObjectType
  PROVE  O \o <<o>> \in Seq(ObjectType) /\ Appended(O, O \o <<o>>, Len(O) + 1, o)
  BY AppendOne

\* Flake settings have nothing but their handles.
LEMMA FlakesObject ==
  ASSUME NEW F \in Seq(Nat), NEW kind \in ObjectKinds, NEW borrows \in Nat, NEW G \in Seq(Nat),
         NEW o, o = Object(kind, G, F, borrows)
  PROVE  /\ o \in ObjectType
         /\ o.kind = kind /\ o.glue = G /\ o.flakes = F /\ o.borrows = borrows
  BY DEF Object, ObjectType

\* FlakeSettings::new owns both of its handles.
LEMMA FlakesMade ==
  ASSUME NEW H, NEW C, NEW O \in Seq(ObjectType), Sound(H, C, O, <<>>, {})
  PROVE  LET n == Len(H) + 1
             H2 == H \o <<Handle("fetchers", {}), Handle("settings", {})>>
             O2 == O \o <<FlakeObject(<<n + 1, n>>)>>
         IN  /\ Sound(H2, C, O2, <<>>, {}) /\ O2 \in Seq(ObjectType)
             /\ Sound(H2, C, O, <<n>>, {}) /\ n \in Nat
<1> DEFINE n == Len(H) + 1
           x == Handle("fetchers", {})
           y == Handle("settings", {})
           H1 == H \o <<x>>
           H2 == H1 \o <<y>>
           o == FlakeObject(<<n + 1, n>>)
           O2 == O \o <<o>>
<1>1. H \in Seq(HandleType)
  BY DEF Sound, HandlesOK
<1>2. /\ x \in HandleType /\ x.kind = "fetchers" /\ x.uses = {} /\ x.live = TRUE
      /\ y \in HandleType /\ y.kind = "settings" /\ y.uses = {} /\ y.live = TRUE
      /\ o = FlakeObject(<<n + 1, n>>)
  BY DEF Handle, HandleType, HandleKinds
<1> HIDE DEF x, y, o
<1>3. H1 \in Seq(HandleType) /\ Appended(H, H1, n, x) /\ Len(H1) = n
  BY <1>1, <1>2, AppendOne
<1> HIDE DEF H1, n
<1>4. H2 \in Seq(HandleType) /\ Appended(H1, H2, n + 1, y)
  BY <1>2, <1>3, AppendOne
<1>5. H \o <<x, y>> = H2
  BY <1>1, <1>2, MakeTwo DEF H1
<1>6. n \in Nat /\ <<n>> \in Seq(Nat) /\ <<n + 1, n>> \in Seq(Nat)
  BY <1>1, <1>3 DEF Appended
<1>7. o \in ObjectType /\ o.glue = <<n + 1, n>> /\ o.flakes = <<n + 1, n>> /\ o.kind = "flakes"
  <2> DEFINE F == <<n + 1, n>>
  <2>1. o = Object("flakes", F, F, 0) /\ "flakes" \in ObjectKinds /\ 0 \in Nat /\ F \in Seq(Nat)
    BY <1>2, <1>6 DEF FlakeObject, ObjectKinds
  <2> HIDE DEF F
  <2>2. o \in ObjectType /\ o.glue = F /\ o.flakes = F /\ o.kind = "flakes"
    BY <2>1, FlakesObject
  <2> QED
    BY <2>2 DEF F
<1>8. O2 \in Seq(ObjectType) /\ Appended(O, O2, Len(O) + 1, o)
  BY <1>7, MakeObject
<1> HIDE DEF H2, O2
<1>9. Sound(H1, C, O, <<n>>, {})
  <2>1. Joined(<<n>>, <<>>, <<n>>)
    BY <1>6, JoinNone
  <2> QED
    BY <1>2, <1>3, <2>1, Acquired
<1>10. Sound(H2, C, O, <<n>>, {})
  BY <1>2, <1>4, <1>9, Forgotten DEF Unowned
<1>11. Sound(H2, C, O, <<n + 1, n>>, {})
  <2>1. Joined(<<n + 1>>, <<n>>, <<n + 1, n>>)
    BY <1>6, JoinPair
  <2> QED
    BY <1>2, <1>4, <1>9, <2>1, Acquired
<1>12. ObjectOK(H2, o)
  <2>1. n \in DOMAIN H2 /\ n + 1 \in DOMAIN H2 /\ H2[n] = x /\ H2[n + 1] = y
    BY <1>3, <1>4 DEF Appended
  <2>2. \A i \in DOMAIN <<n + 1, n>> : <<n + 1, n>>[i] \in {n, n + 1}
    OBVIOUS
  <2> QED
    BY <1>2, <1>7, <2>1, <2>2 DEF ObjectOK, FlakeKinds, InGlue
<1>13. Sound(H2, C, O2, <<>>, {})
  BY <1>7, <1>8, <1>11, <1>12, Given
<1> QED
  BY <1>5, <1>6, <1>8, <1>10, <1>13 DEF n, x, y, o, O2

\* The new settings own the fetchers and the settings.
LEMMA NewFlakesOwns == ASSUME OInv, IInv', NEW t \in Threads, NewFlakes(t) PROVE OInv'
<1> DEFINE n == Fresh(t)
           H2 == heap[t] \o <<Handle("fetchers", {}), Handle("settings", {})>>
           O2 == objs[t] \o <<FlakeObject(<<n + 1, n>>)>>
<1>1. /\ At(t, "idle") /\ UNCHANGED <<building, corrupt, drops, cloned>>
      /\ heap' = [heap EXCEPT ![t] = H2] /\ objs' = [objs EXCEPT ![t] = O2]
  BY DEF NewFlakes, Operation, Alloc, Replace
<1>2. Sound(H2, cloned[t], O2, <<>>, {}) /\ O2 \in Seq(ObjectType)
  BY <1>1, IdleThread, FlakesMade DEF Fresh
<1> HIDE DEF H2, O2
<1>3. Only(heap, heap', t, H2) /\ Only(objs, objs', t, O2)
  BY <1>1, OnlyExcept DEF OInv, Shape
<1>4. Only(cloned, cloned', t, cloned[t]) /\ Only(drops, drops', t, <<>>)
  BY <1>1, IdleThread, OnlySame DEF OInv, Shape
<1> QED
  BY <1>1, <1>2, <1>3, <1>4, EmptySeq, IdleStep

\* The fetchers will be freed, and the settings are nobody's.
LEMMA NewFlakesFailsOwns == ASSUME OInv, IInv', NEW t \in Threads, NewFlakesFails(t) PROVE OInv'
<1> DEFINE n == Fresh(t)
           H2 == heap[t] \o <<Handle("fetchers", {}), Handle("settings", {})>>
<1>1. /\ At(t, "idle") /\ UNCHANGED <<building, corrupt, objs, cloned>>
      /\ heap' = [heap EXCEPT ![t] = H2] /\ drops' = [drops EXCEPT ![t] = <<n>>]
  BY DEF NewFlakesFails, Operation, Alloc, Run
<1>2. Sound(H2, cloned[t], objs[t], <<n>>, {}) /\ objs[t] \in Seq(ObjectType) /\ n \in Nat
  BY <1>1, IdleThread, FlakesMade DEF Fresh
<1> HIDE DEF H2, n
<1>3. Only(heap, heap', t, H2) /\ Only(drops, drops', t, <<n>>)
  BY <1>1, OnlyExcept DEF OInv, Shape
<1>4. Only(cloned, cloned', t, cloned[t]) /\ Only(objs, objs', t, objs[t])
  BY <1>1, OnlySame DEF OInv, Shape
<1>5. <<n>> \in Seq(Nat)
  BY <1>2
<1> QED
  BY <1>1, <1>2, <1>3, <1>4, <1>5, IdleStep

\* The derived clone shares its handles.
LEMMA CloneFlakesOwns ==
  ASSUME OInv, IInv', NEW t \in Threads, NEW i \in DOMAIN objs[t], CloneFlakes(t, i) PROVE OInv'
<1> DEFINE F == objs[t][i].flakes
           O2 == objs[t] \o <<FlakeObject(F)>>
           C2 == cloned[t] \cup ToSet(F)
<1>1. /\ At(t, "idle") /\ UNCHANGED <<building, corrupt, heap, drops>>
      /\ objs' = [objs EXCEPT ![t] = O2] /\ cloned' = [cloned EXCEPT ![t] = C2]
  BY DEF CloneFlakes, Operation, Replace
<1>2. Sound(heap[t], cloned[t], objs[t], <<>>, {}) /\ objs[t] \in Seq(ObjectType)
  BY <1>1, IdleThread
<1>3. F \in Seq(Nat) /\ ObjectOK(heap[t], objs[t][i])
  <2>1. objs[t][i] \in ObjectType
    BY <1>2
  <2> QED
    BY <1>2, <2>1 DEF ObjectType, Sound
<1> HIDE DEF F
<1> DEFINE o == FlakeObject(F)
<1>4. o \in ObjectType /\ o.glue = F /\ o.flakes = F /\ o.kind = "flakes"
  <2>1. o = Object("flakes", F, F, 0) /\ "flakes" \in ObjectKinds /\ 0 \in Nat
    BY DEF FlakeObject, ObjectKinds
  <2> QED
    BY <1>3, <2>1, FlakesObject
<1> HIDE DEF o
<1>5. ObjectOK(heap[t], o)
  BY <1>3, <1>4 DEF ObjectOK, F, InGlue
<1>6. O2 \in Seq(ObjectType) /\ Appended(objs[t], O2, Len(objs[t]) + 1, o)
  BY <1>2, <1>4, MakeObject DEF o
<1>7. C2 = cloned[t] \cup {o.flakes[k] : k \in DOMAIN o.flakes}
  BY <1>4 DEF ToSet
<1> HIDE DEF O2, C2
<1>8. Sound(heap[t], C2, O2, <<>>, {})
  BY <1>2, <1>3, <1>4, <1>5, <1>6, <1>7, Cloned
<1>9. Only(objs, objs', t, O2) /\ Only(cloned, cloned', t, C2)
  BY <1>1, OnlyExcept DEF OInv, Shape
<1>10. Only(heap, heap', t, heap[t]) /\ Only(drops, drops', t, <<>>)
  BY <1>1, IdleThread, OnlySame DEF OInv, Shape
<1>11. cloned[t] \subseteq C2
  BY DEF C2
<1> QED
  BY <1>1, <1>6, <1>8, <1>9, <1>10, <1>11, EmptySeq, IdleStep

\* A handle is made and held, or made and forgotten.
LEMMA HandleMade ==
  ASSUME NEW H, NEW C, NEW O, NEW G, Sound(H, C, O, G, {}), NEW kind \in HandleKinds
  PROVE  LET n == Len(H) + 1
             H2 == H \o <<Handle(kind, {})>>
         IN  /\ H2 \in Seq(HandleType) /\ n \in Nat /\ G \in Seq(Nat)
             /\ Appended(H, H2, n, Handle(kind, {})) /\ Handle(kind, {}).kind = kind
             /\ Sound(H2, C, O, <<n>> \o G, {})
             /\ kind \in Unowned => Sound(H2, C, O, G, {})
<1> DEFINE n == Len(H) + 1
           x == Handle(kind, {})
           H2 == H \o <<x>>
<1>1. H \in Seq(HandleType)
  BY DEF Sound, HandlesOK
<1>2. x \in HandleType /\ x.kind = kind /\ x.uses = {} /\ x.live = TRUE
  BY DEF Handle, HandleType
<1> HIDE DEF x
<1>3. H2 \in Seq(HandleType) /\ Appended(H, H2, n, x)
  BY <1>1, <1>2, AppendOne
<1> HIDE DEF H2, n
<1>4. n \in Nat /\ <<n>> \in Seq(Nat)
  BY <1>3 DEF Appended
<1>9. G \in Seq(Nat)
  BY DEF Sound, PartOK, GlueOK
<1>5. Joined(<<n>>, G, <<n>> \o G)
  BY <1>4, <1>9, JoinSeq
<1>6. Sound(H2, C, O, <<n>> \o G, {})
  BY <1>2, <1>3, <1>5, Acquired
<1>7. kind \in Unowned => Sound(H2, C, O, G, {})
  BY <1>2, <1>3, Forgotten
<1> QED
  BY <1>2, <1>3, <1>4, <1>6, <1>7, <1>9 DEF H2, n, x

\* An object is moved away and its glue held, before or after what is held.
LEMMA ObjectMoved ==
  ASSUME NEW H, NEW C, NEW O \in Seq(ObjectType), NEW G, Sound(H, C, O, G, {}), NEW i \in DOMAIN O
  PROVE  /\ RemoveAt(O, i) \in Seq(ObjectType)
         /\ Sound(H, C, RemoveAt(O, i), G \o O[i].glue, {})
         /\ Sound(H, C, RemoveAt(O, i), O[i].glue \o G, {})
<1>1. RemoveAt(O, i) \in Seq(ObjectType) /\ \E e : Removed(O, RemoveAt(O, i), i, e)
  BY RemoveOne
<1>2. PICK e : Removed(O, RemoveAt(O, i), i, e)
  BY <1>1
<1>3. G \in Seq(Nat) /\ O[i].glue \in Seq(Nat)
  BY DEF Sound, PartOK, GlueOK
<1>4. Joined(G, O[i].glue, G \o O[i].glue) /\ Joined(O[i].glue, G, O[i].glue \o G)
  BY <1>3, JoinSeq
<1> QED
  BY <1>1, <1>2, <1>4, Dismantled

\* So it is if nothing is held.
LEMMA ObjectTaken ==
  ASSUME NEW H, NEW C, NEW O \in Seq(ObjectType), Sound(H, C, O, <<>>, {}), NEW i \in DOMAIN O
  PROVE  /\ RemoveAt(O, i) \in Seq(ObjectType)
         /\ Sound(H, C, RemoveAt(O, i), O[i].glue, {})
         /\ O[i].glue \in Seq(Nat) /\ O[i].flakes \in Seq(Nat) /\ ObjectOK(H, O[i])
<1>1. O[i].glue \in Seq(Nat) /\ ObjectOK(H, O[i])
  BY DEF Sound, PartOK, GlueOK
<1>2. <<>> \o O[i].glue = O[i].glue
  BY <1>1, ConcatEmptySeq
<1>3. O[i] \in ObjectType
  OBVIOUS
<1>4. O[i].flakes \in Seq(Nat)
  BY <1>3 DEF ObjectType
<1> QED
  BY <1>1, <1>2, <1>4, ObjectMoved

\* Two objects are moved away.
LEMMA BothMoved ==
  ASSUME NEW H, NEW C, NEW O \in Seq(ObjectType), Sound(H, C, O, <<>>, {}),
         NEW f \in DOMAIN O, NEW r \in DOMAIN O, f # r, NEW O2,
         O2 = IF f < r THEN RemoveAt(RemoveAt(O, r), f) ELSE RemoveAt(RemoveAt(O, f), r)
  PROVE  O2 \in Seq(ObjectType) /\ Sound(H, C, O2, O[f].glue \o O[r].glue, {})
<1>1. DOMAIN O = 1..Len(O) /\ Len(O) \in Nat
  OBVIOUS
<1>2. CASE f < r
  <2>1. /\ RemoveAt(O, r) \in Seq(ObjectType) /\ Sound(H, C, RemoveAt(O, r), O[r].glue, {})
        /\ f \in DOMAIN RemoveAt(O, r) /\ RemoveAt(O, r)[f] = O[f]
    BY <1>2, ObjectTaken, RemoveOne
  <2> QED
    BY <1>2, <2>1, ObjectMoved
<1>3. CASE r < f
  <2>1. /\ RemoveAt(O, f) \in Seq(ObjectType) /\ Sound(H, C, RemoveAt(O, f), O[f].glue, {})
        /\ r \in DOMAIN RemoveAt(O, f) /\ RemoveAt(O, f)[r] = O[r]
    BY <1>3, ObjectTaken, RemoveOne
  <2>2. ~(f < r)
    BY <1>1, <1>3
  <2> QED
    BY <2>1, <2>2, ObjectMoved
<1> QED
  BY <1>1, <1>2, <1>3

\* What is held becomes an object at the end of the sequence.
LEMMA ObjectGiven ==
  ASSUME NEW H, NEW C, NEW O \in Seq(ObjectType), NEW G, Sound(H, C, O, G, {}),
         NEW o \in ObjectType, o.glue = G, ObjectOK(H, o)
  PROVE  O \o <<o>> \in Seq(ObjectType) /\ Sound(H, C, O \o <<o>>, <<>>, {})
  BY MakeObject, Given

\* An object with the flakes of another and at least its handles.
LEMMA SameFlakes ==
  ASSUME NEW H, NEW p, NEW o, ObjectOK(H, p), o.flakes = p.flakes,
         \A h : InGlue(h, p.glue) => InGlue(h, o.glue),
         o.kind \in {"flakes", "refsettings"} => o.glue = o.flakes,
         o.kind # "evaluator"
  PROVE  ObjectOK(H, o)
  BY DEF ObjectOK

\* An object that is in order stays so when a handle is made.
LEMMA StillOK ==
  ASSUME NEW H, NEW H2, NEW n, NEW x, Appended(H, H2, n, x), NEW o, ObjectOK(H, o)
  PROVE  ObjectOK(H2, o)
  BY DEF ObjectOK, Appended

\* The settings of a reference keep the flake settings; the parse flags have no
\* owner.
LEMMA NewRefSettingsOwns ==
  ASSUME OInv, IInv', NEW t \in Threads, NEW i \in DOMAIN objs[t], NewRefSettings(t, i) PROVE OInv'
<1> DEFINE H == heap[t]
           O == objs[t]
           H2 == H \o <<Handle("parseflags", {})>>
           o == [O[i] EXCEPT !.kind = "refsettings"]
           O1 == RemoveAt(O, i)
           O2 == O1 \o <<o>>
<1>1. /\ At(t, "idle") /\ UNCHANGED <<building, corrupt, drops, cloned>> /\ O[i].kind = "flakes"
      /\ heap' = [heap EXCEPT ![t] = H2] /\ objs' = [objs EXCEPT ![t] = O2]
  BY DEF NewRefSettings, RefSettings, Operation, Alloc, Replace, Without, Is
<1>2. Sound(H, cloned[t], O, <<>>, {}) /\ O \in Seq(ObjectType) /\ drops[t] = <<>>
  BY <1>1, IdleThread
<1>3. "parseflags" \in HandleKinds /\ "parseflags" \in Unowned
  BY DEF HandleKinds, Unowned
<1>4. Sound(H2, cloned[t], O, <<>>, {})
  BY <1>2, <1>3, HandleMade
<1> HIDE DEF H2
<1>5. O1 \in Seq(ObjectType) /\ Sound(H2, cloned[t], O1, O[i].glue, {}) /\ ObjectOK(H2, O[i])
  BY <1>2, <1>4, ObjectTaken
<1>6. O[i] \in ObjectType
  BY <1>2
<1>7. o \in ObjectType /\ o.glue = O[i].glue /\ o.flakes = O[i].flakes /\ o.kind = "refsettings"
  BY <1>6 DEF ObjectType, ObjectKinds
<1> HIDE DEF o, O1
<1>8. ObjectOK(H2, o)
  BY <1>1, <1>5, <1>7 DEF ObjectOK
<1>9. O2 \in Seq(ObjectType) /\ Sound(H2, cloned[t], O2, <<>>, {})
  BY <1>5, <1>7, <1>8, ObjectGiven
<1> HIDE DEF O2
<1>10. Only(heap, heap', t, H2) /\ Only(objs, objs', t, O2)
  BY <1>1, OnlyExcept DEF OInv, Shape
<1>11. Only(cloned, cloned', t, cloned[t]) /\ Only(drops, drops', t, <<>>)
  BY <1>1, <1>2, OnlySame DEF OInv, Shape
<1> QED
  BY <1>1, <1>9, <1>10, <1>11, EmptySeq, IdleStep

\* The glue of what is moved away is dropped.
LEMMA DropTaken ==
  ASSUME OInv, IInv', NEW t \in Threads, At(t, "idle"), NEW i \in DOMAIN objs[t],
         UNCHANGED <<building, corrupt, cloned>>, NEW H,
         Only(heap, heap', t, H), Sound(H, cloned[t], objs[t], <<>>, {}),
         Replace(t, Without(t, i), <<>>), Run(t, objs[t][i].glue)
  PROVE  OInv'
<1> DEFINE O2 == RemoveAt(objs[t], i)
           G == objs[t][i].glue
<1>1. O2 \in Seq(ObjectType) /\ Sound(H, cloned[t], O2, G, {}) /\ G \in Seq(Nat)
  BY IdleThread, ObjectTaken
<1>2. objs' = [objs EXCEPT ![t] = O2] /\ drops' = [drops EXCEPT ![t] = G]
  BY <1>1, ConcatEmptySeq DEF Replace, Without, Run
<1> HIDE DEF O2, G
<1>3. Only(objs, objs', t, O2) /\ Only(drops, drops', t, G)
  BY <1>2, OnlyExcept DEF OInv, Shape
<1>4. Only(cloned, cloned', t, cloned[t])
  BY OnlySame DEF OInv, Shape
<1> QED
  BY <1>1, <1>3, <1>4, IdleStep

\* An object goes out of scope: its glue is run.
LEMMA DropObjectOwns ==
  ASSUME OInv, IInv', NEW t \in Threads, NEW i \in DOMAIN objs[t], DropObject(t, i) PROVE OInv'
<1>1. Only(heap, heap', t, heap[t]) /\ At(t, "idle")
  BY OnlySame DEF DropObject, OInv, Shape
<1>2. Sound(heap[t], cloned[t], objs[t], <<>>, {})
  BY <1>1, IdleThread
<1> QED
  BY <1>1, <1>2, DropTaken DEF DropObject

\* A reference that cannot be parsed is forgotten, or there is none; the settings
\* are dropped.
LEMMA ParseFailsOwns ==
  ASSUME OInv, IInv', NEW t \in Threads, NEW i \in DOMAIN objs[t], ParseFails(t, i) PROVE OInv'
<1> DEFINE H2 == heap[t] \o <<Handle("ref", {})>>
<1>1. /\ At(t, "idle") /\ UNCHANGED <<building, corrupt, cloned>>
      /\ Replace(t, Without(t, i), <<>>) /\ Run(t, objs[t][i].glue)
      /\ heap' = heap \/ heap' = [heap EXCEPT ![t] = H2]
  BY DEF ParseFails, Operation, Alloc
<1>2. Sound(heap[t], cloned[t], objs[t], <<>>, {})
  BY <1>1, IdleThread
<1>3. "ref" \in HandleKinds /\ "ref" \in Unowned
  BY DEF HandleKinds, Unowned
<1>4. Sound(H2, cloned[t], objs[t], <<>>, {})
  BY <1>2, <1>3, HandleMade
<1> HIDE DEF H2
<1>5. heap = [u \in Threads |-> heap[u]]
  BY DEF OInv, Shape
<1>6. CASE heap' = heap
  <2>1. Only(heap, heap', t, heap[t])
    BY <1>5, <1>6, OnlySame
  <2> QED
    BY <1>1, <1>2, <2>1, DropTaken
<1>7. CASE heap' = [heap EXCEPT ![t] = H2]
  <2>1. Only(heap, heap', t, H2)
    BY <1>5, <1>7, OnlyExcept
  <2> QED
    BY <1>1, <1>4, <2>1, DropTaken
<1> QED
  BY <1>1, <1>6, <1>7

\* A step between calls that makes one handle and one object, and drops nothing.
LEMMA ObjectStep ==
  ASSUME OInv, IInv', NEW t \in Threads, At(t, "idle"),
         UNCHANGED <<building, corrupt, cloned, drops>>,
         NEW H, heap' = [heap EXCEPT ![t] = H],
         NEW O \in Seq(ObjectType), NEW G, Sound(H, cloned[t], O, G, {}),
         NEW o \in ObjectType, o.glue = G, ObjectOK(H, o),
         objs' = [objs EXCEPT ![t] = O \o <<o>>]
  PROVE  OInv'
<1> DEFINE O2 == O \o <<o>>
<1>1. O2 \in Seq(ObjectType) /\ Sound(H, cloned[t], O2, <<>>, {})
  BY ObjectGiven
<1>2. drops[t] = <<>>
  BY IdleThread
<1> HIDE DEF O2
<1>3. objs' = [objs EXCEPT ![t] = O2]
  BY DEF O2
<1>4. Only(heap, heap', t, H) /\ Only(objs, objs', t, O2)
  <2>1. heap = [u \in Threads |-> heap[u]] /\ objs = [u \in Threads |-> objs[u]]
    BY DEF OInv, Shape
  <2>2. Only(heap, heap', t, H)
    BY <2>1, OnlyExcept
  <2>3. Only(objs, objs', t, O2)
    BY <1>3, <2>1 DEF Only
  <2> QED
    BY <2>2, <2>3
<1>5. Only(cloned, cloned', t, cloned[t]) /\ Only(drops, drops', t, <<>>)
  BY <1>2, OnlySame DEF OInv, Shape
<1> QED
  BY <1>1, <1>4, <1>5, EmptySeq, IdleStep

\* A reference owns its handle and the flake settings.
LEMMA ParseOwns ==
  ASSUME OInv, IInv', NEW t \in Threads, NEW i \in DOMAIN objs[t], Parse(t, i) PROVE OInv'
<1> DEFINE H == heap[t]
           O == objs[t]
           n == Fresh(t)
           H2 == H \o <<Handle("ref", {})>>
           F == O[i].flakes
           G == <<n>> \o F
           O1 == RemoveAt(O, i)
           o == Object("ref", G, F, 0)
<1>1. /\ At(t, "idle") /\ UNCHANGED <<building, corrupt, drops, cloned>>
      /\ O[i].kind = "refsettings"
      /\ heap' = [heap EXCEPT ![t] = H2] /\ objs' = [objs EXCEPT ![t] = O1 \o <<o>>]
  BY DEF Parse, Operation, Alloc, Replace, Without, Is
<1>2. Sound(H, cloned[t], O, <<>>, {}) /\ O \in Seq(ObjectType)
  BY <1>1, IdleThread
<1>3. /\ O1 \in Seq(ObjectType) /\ Sound(H, cloned[t], O1, O[i].glue, {})
      /\ F \in Seq(Nat) /\ ObjectOK(H, O[i])
  BY <1>2, ObjectTaken
<1>4. O[i].glue = F
  BY <1>1, <1>3 DEF ObjectOK
<1>5. "ref" \in HandleKinds /\ "ref" \in ObjectKinds /\ 0 \in Nat
  BY DEF HandleKinds, ObjectKinds
<1>6. n = Len(H) + 1
  BY DEF Fresh
<1> HIDE DEF n, O1, F
<1>7. /\ Sound(H2, cloned[t], O1, <<n>> \o F, {}) /\ n \in Nat
      /\ Appended(H, H2, n, Handle("ref", {}))
  BY <1>3, <1>4, <1>5, <1>6, HandleMade
<1>8. <<n>> \in Seq(Nat)
  BY <1>7
<1>9. Joined(<<n>>, F, G) /\ G \in Seq(Nat)
  BY <1>3, <1>8, JoinSeq DEF Joined
<1>10. ObjectOK(H2, O[i])
  BY <1>3, <1>7, StillOK
<1>11. o = Object("ref", G, F, 0)
  OBVIOUS
<1> HIDE DEF H2, G, o
<1>12. o \in ObjectType /\ o.kind = "ref" /\ o.glue = G /\ o.flakes = F
  BY <1>3, <1>5, <1>9, <1>11, FlakesObject
<1>13. ObjectOK(H2, o)
  <2>1. \A h : InGlue(h, O[i].glue) => InGlue(h, o.glue)
    BY <1>4, <1>9, <1>12, JoinHas
  <2> QED
    BY <1>10, <1>12, <2>1, SameFlakes DEF F
<1>14. Sound(H2, cloned[t], O1, G, {})
  BY <1>7 DEF G
<1> QED
  BY <1>1, <1>3, <1>12, <1>13, <1>14, ObjectStep

\* The lock flags own their handle.
LEMMA NewLockFlagsOwns ==
  ASSUME OInv, IInv', NEW t \in Threads, NEW i \in DOMAIN objs[t], NewLockFlags(t, i) PROVE OInv'
<1> DEFINE H == heap[t]
           n == Fresh(t)
           H2 == H \o <<Handle("lockflags", {})>>
           o == Object("lockflags", <<n>>, <<>>, 0)
<1>1. /\ At(t, "idle") /\ UNCHANGED <<building, corrupt, drops, cloned>>
      /\ heap' = [heap EXCEPT ![t] = H2] /\ objs' = [objs EXCEPT ![t] = objs[t] \o <<o>>]
  BY DEF NewLockFlags, Operation, Alloc, Replace
<1>2. Sound(H, cloned[t], objs[t], <<>>, {}) /\ objs[t] \in Seq(ObjectType)
  BY <1>1, IdleThread
<1>3. /\ "lockflags" \in HandleKinds /\ "lockflags" \in ObjectKinds /\ 0 \in Nat
      /\ <<>> \in Seq(Nat)
  BY DEF HandleKinds, ObjectKinds
<1>4. n = Len(H) + 1
  BY DEF Fresh
<1> HIDE DEF n
<1>5. Sound(H2, cloned[t], objs[t], <<n>> \o <<>>, {}) /\ n \in Nat
  BY <1>2, <1>3, <1>4, HandleMade
<1>6. <<n>> \in Seq(Nat)
  BY <1>5
<1>7. <<n>> \o <<>> = <<n>>
  BY <1>6, ConcatEmptySeq
<1>8. o = Object("lockflags", <<n>>, <<>>, 0)
  OBVIOUS
<1> HIDE DEF H2, o
<1>9. o \in ObjectType /\ o.kind = "lockflags" /\ o.glue = <<n>> /\ o.flakes = <<>>
  <2> DEFINE g == <<n>>
             F == <<>>
  <2>1. g \in Seq(Nat) /\ F \in Seq(Nat) /\ o = Object("lockflags", g, F, 0)
    BY <1>3, <1>6, <1>8
  <2> HIDE DEF g, F
  <2>2. o \in ObjectType /\ o.kind = "lockflags" /\ o.glue = g /\ o.flakes = F
    BY <1>3, <2>1, FlakesObject
  <2> QED
    BY <2>2 DEF g, F
<1>10. ObjectOK(H2, o)
  BY <1>9 DEF ObjectOK
<1>11. Sound(H2, cloned[t], objs[t], o.glue, {})
  BY <1>5, <1>7, <1>9
<1> QED
  BY <1>1, <1>2, <1>9, <1>10, <1>11, ObjectStep

\* A locked flake owns what the flags and the reference owned.
LEMMA LockOwns ==
  ASSUME OInv, IInv', NEW t \in Threads,
         NEW e \in DOMAIN objs[t], NEW f \in DOMAIN objs[t], NEW r \in DOMAIN objs[t],
         Lock(t, e, f, r)
  PROVE  OInv'
<1> DEFINE H == heap[t]
           O == objs[t]
           n == Fresh(t)
           H2 == H \o <<Handle("locked", {})>>
           F == O[r].flakes
           a == O[f].glue
           b == O[r].glue
           G == <<n>> \o a \o b
           O1 == WithoutBoth(t, f, r)
           o == Object("locked", G, F, Head(O[e].glue))
<1>1. /\ At(t, "idle") /\ UNCHANGED <<building, corrupt, drops, cloned>>
      /\ O[e].kind = "evaluator" /\ O[f].kind = "lockflags" /\ O[r].kind = "ref"
      /\ heap' = [heap EXCEPT ![t] = H2] /\ objs' = [objs EXCEPT ![t] = O1 \o <<o>>]
  BY DEF Lock, LockArguments, Operation, Alloc, Replace, Is
<1>2. Sound(H, cloned[t], O, <<>>, {}) /\ O \in Seq(ObjectType)
  BY <1>1, IdleThread
<1>3. /\ a \in Seq(Nat) /\ b \in Seq(Nat) /\ F \in Seq(Nat) /\ ObjectOK(H, O[r])
      /\ O[e].glue \in Seq(Nat) /\ ObjectOK(H, O[e])
  BY <1>2, ObjectTaken
<1>4. Head(O[e].glue) \in Nat
  BY <1>1, <1>3, HeadTailProperties DEF ObjectOK
<1>5. O1 \in Seq(ObjectType) /\ Sound(H, cloned[t], O1, a \o b, {})
  <2>1. f # r
    BY <1>1
  <2>2. O1 = IF f < r THEN RemoveAt(RemoveAt(O, r), f) ELSE RemoveAt(RemoveAt(O, f), r)
    BY DEF WithoutBoth, Without
  <2> QED
    BY <1>2, <2>1, <2>2, BothMoved
<1>6. "locked" \in HandleKinds /\ "locked" \in ObjectKinds
  BY DEF HandleKinds, ObjectKinds
<1>7. n = Len(H) + 1
  BY DEF Fresh
<1> DEFINE k == Head(O[e].glue)
<1>8. k \in Nat
  BY <1>4
<1> HIDE DEF n, O1, F, a, b, k
<1>9. /\ Sound(H2, cloned[t], O1, <<n>> \o (a \o b), {}) /\ n \in Nat
      /\ Appended(H, H2, n, Handle("locked", {}))
  BY <1>5, <1>6, <1>7, HandleMade
<1>10. <<n>> \in Seq(Nat) /\ a \o b \in Seq(Nat)
  BY <1>3, <1>9, ConcatProperties
<1>11. G = <<n>> \o (a \o b) /\ G \in Seq(Nat)
  BY <1>3, <1>10, ConcatAssociative, ConcatProperties
<1>12. Joined(<<n>>, a \o b, G) /\ Joined(a, b, a \o b)
  BY <1>3, <1>10, <1>11, JoinSeq
<1>13. ObjectOK(H2, O[r])
  BY <1>3, <1>9, StillOK
<1>14. o = Object("locked", G, F, k)
  BY DEF k
<1> HIDE DEF H2, G, o
<1>15. o \in ObjectType /\ o.kind = "locked" /\ o.glue = G /\ o.flakes = F
  <2>1. /\ F \in Seq(Nat) /\ G \in Seq(Nat) /\ "locked" \in ObjectKinds
        /\ o = Object("locked", G, F, k)
    BY <1>3, <1>6, <1>11, <1>14
  <2> QED
    BY <1>8, <2>1, FlakesObject
<1>16. ObjectOK(H2, o)
  <2>1. \A h : InGlue(h, O[r].glue) => InGlue(h, o.glue)
    BY <1>12, <1>15, JoinHas DEF b
  <2> QED
    BY <1>13, <1>15, <2>1, SameFlakes DEF F
<1>17. Sound(H2, cloned[t], O1, G, {})
  BY <1>9, <1>11
<1> QED
  BY <1>1, <1>5, <1>15, <1>16, <1>17, ObjectStep

\* If it cannot be locked, both are dropped.
LEMMA LockFailsOwns ==
  ASSUME OInv, IInv', NEW t \in Threads,
         NEW e \in DOMAIN objs[t], NEW f \in DOMAIN objs[t], NEW r \in DOMAIN objs[t],
         LockFails(t, e, f, r)
  PROVE  OInv'
<1> DEFINE O == objs[t]
           G == O[f].glue \o O[r].glue
           O1 == WithoutBoth(t, f, r)
<1>1. /\ At(t, "idle") /\ UNCHANGED <<building, corrupt, heap, cloned>>
      /\ O[f].kind = "lockflags" /\ O[r].kind = "ref"
      /\ objs' = [objs EXCEPT ![t] = O1 \o <<>>] /\ drops' = [drops EXCEPT ![t] = G]
  BY DEF LockFails, LockArguments, Operation, Replace, Run, Is
<1>2. Sound(heap[t], cloned[t], O, <<>>, {}) /\ O \in Seq(ObjectType)
  BY <1>1, IdleThread
<1>3. O1 \in Seq(ObjectType) /\ Sound(heap[t], cloned[t], O1, G, {})
  <2>1. f # r
    BY <1>1
  <2>2. O1 = IF f < r THEN RemoveAt(RemoveAt(O, r), f) ELSE RemoveAt(RemoveAt(O, f), r)
    BY DEF WithoutBoth, Without
  <2> QED
    BY <1>2, <2>1, <2>2, BothMoved
<1>4. G \in Seq(Nat)
  BY <1>3 DEF Sound, PartOK, GlueOK
<1> HIDE DEF O1, G
<1>5. objs' = [objs EXCEPT ![t] = O1]
  BY <1>1, <1>3, ConcatEmptySeq
<1>6. Only(objs, objs', t, O1) /\ Only(drops, drops', t, G)
  <2>1. objs = [u \in Threads |-> objs[u]] /\ drops = [u \in Threads |-> drops[u]]
    BY DEF OInv, Shape
  <2>2. Only(objs, objs', t, O1)
    BY <1>5, <2>1, OnlyExcept
  <2>3. Only(drops, drops', t, G)
    BY <1>1, <2>1, OnlyExcept
  <2> QED
    BY <2>2, <2>3
<1>7. Only(heap, heap', t, heap[t]) /\ Only(cloned, cloned', t, cloned[t])
  BY <1>1, OnlySame DEF OInv, Shape
<1> QED
  BY <1>1, <1>3, <1>4, <1>6, <1>7, IdleStep

----------------------------------------------------------------------------
(* What is being dropped, and what was freed before.                       *)

\* The next handle is freed.
LEMMA FreeOwns == ASSUME OInv, IInv', NEW t \in Threads, Free(t) PROVE OInv'
<1> DEFINE H == heap[t]
           C == cloned[t]
           O == objs[t]
           D == drops[t]
           b == D[1]
           x == [H[b] EXCEPT !.live = FALSE, !.uses = {}]
           H2 == [H EXCEPT ![b] = x]
           D2 == Tail(D)
<1>1. InOrder(H, C, O, pc[t], local[t], config[t].flakes, D) /\ D # <<>>
  BY DEF Free, OInv, Orderly
<1>2. D \in Seq(Nat) /\ pc[t] = "idle"
  BY <1>1 DEF InOrder, Building
<1>3. Head(D) = b /\ H[b].live
  BY <1>2 DEF Free, Live
<1>4. Sound(H, C, O, D, Spent(D)) /\ O \in Seq(ObjectType)
  BY <1>1 DEF InOrder, Held
<1>5. local[t] = <<>> /\ config[t].flakes = <<>>
  BY <1>1, <1>2, EmptySeq DEF InOrder, Building
<1>6. D2 \in Seq(Nat) /\ Len(D2) = Len(D) - 1 /\ \A i \in 1..Len(D2) : D2[i] = D[i + 1]
  BY <1>1, <1>2, HeadTailProperties
<1> DEFINE n == Len(D)
<1>7. n \in Nat \ {0} /\ DOMAIN D = 1..n
  BY <1>1, <1>2, EmptySeq
<1>8. DOMAIN D2 = 1..(n - 1)
  BY <1>6
<1> HIDE DEF n, D2
<1>9. 1 \in DOMAIN D /\ DOMAIN D2 = {k \in Nat \ {0} : k + 1 \in DOMAIN D}
  BY <1>7, <1>8
<1>10. \A k \in DOMAIN D2 : D2[k] = D[k + 1]
  BY <1>6
<1>11. H \in Seq(HandleType) /\ b \in DOMAIN H
  BY <1>4, <1>9 DEF Sound, HandlesOK, PartOK, GlueOK
<1>12. H[b] \in HandleType
  BY <1>11
<1>13. x \in HandleType /\ x.uses = {} /\ x.live = FALSE /\ x.kind = H[b].kind
  BY <1>12 DEF HandleType
<1>14. heap' = [heap EXCEPT ![t] = H2]
  BY <1>3 DEF Free, OInv, Shape
<1> HIDE DEF x
<1>15. H2 \in Seq(HandleType) /\ Replaced(H, H2, b, x)
  BY <1>11, <1>13, ReplaceOne
<1>16. Spent(D) \subseteq {b}
  BY DEF Spent
<1> HIDE DEF H2
<1>17. Sound(H2, C, O, D2, {})
  <2> DEFINE X == Spent(D)
  <2>1. Sound(H, C, O, D, X) /\ X \subseteq {D[1]} /\ 1 \in DOMAIN D /\ H[D[1]].live
    BY <1>3, <1>4, <1>9, <1>16
  <2>2. H2 \in Seq(HandleType) /\ Replaced(H, H2, D[1], x) /\ Dead(H[D[1]], x)
    BY <1>13, <1>15 DEF Dead
  <2>3. Popped(D, D2)
    BY <1>6, <1>9, <1>10 DEF Popped
  <2> HIDE DEF H, C, O, D, b, X
  <2> QED
    BY <2>1, <2>2, <2>3, Freed
<1>18. Sound(H2, C, O, D2, Spent(D2))
  BY <1>17, MoreSpent
<1>19. InOrder(H2, C, O, "idle", <<>>, <<>>, D2)
  BY <1>4, <1>6, <1>18, IdleOrder
<1>20. /\ UNCHANGED <<pc, config, local, objs, corrupt, cloned>>
       /\ drops' = [drops EXCEPT ![t] = D2]
  BY DEF Free, building, Run, D2
<1>21. Only(heap, heap', t, H2) /\ Only(drops, drops', t, D2)
  <2>1. heap = [u \in Threads |-> heap[u]] /\ drops = [u \in Threads |-> drops[u]]
    BY DEF OInv, Shape
  <2>2. Only(heap, heap', t, H2)
    BY <1>14, <2>1 DEF Only
  <2>3. Only(drops, drops', t, D2)
    BY <1>20, <2>1 DEF Only
  <2> QED
    BY <2>2, <2>3
<1>22. Only(cloned, cloned', t, C) /\ Only(objs, objs', t, O) /\ Only(local, local', t, <<>>)
  BY <1>5, <1>20, OnlySame DEF OInv, Shape
<1>23. pc'[t] = "idle" /\ config'[t].flakes = <<>>
  BY <1>2, <1>5, <1>20
<1> QED
  BY <1>19, <1>20, <1>21, <1>22, <1>23, OneThread

\* Something to be freed that is not alive has been cloned.
LEMMA DeadIsCloned ==
  ASSUME NEW H, NEW C, NEW O, NEW G, NEW X, Sound(H, C, O, G, X), NEW h, ~H[h].live,
         InGlue(h, G) \/ \E i \in DOMAIN O : InGlue(h, O[i].glue)
  PROVE  h \in C
<1>1. \A g : GlueOK(H, C, g) /\ InGlue(h, g) => h \in C
  BY DEF GlueOK, InGlue
<1> QED
  BY <1>1 DEF Sound, PartOK

\* A handle is freed again.
LEMMA FreeAgainOwns == ASSUME OInv, IInv', NEW t \in Threads, FreeAgain(t) PROVE OInv'
<1> DEFINE D == drops[t]
<1>1. InOrder(heap[t], cloned[t], objs[t], pc[t], local[t], config[t].flakes, D) /\ D # <<>>
  BY DEF FreeAgain, OInv, Orderly
<1>2. D \in Seq(Nat)
  BY <1>1 DEF InOrder, Building
<1>3. Head(D) = D[1] /\ 1 \in DOMAIN D
  <2>1. Len(D) \in Nat \ {0}
    BY <1>1, <1>2, EmptySeq
  <2> QED
    BY <1>2, <2>1
<1>4. Sound(heap[t], cloned[t], objs[t], D, Spent(D)) /\ InGlue(Head(D), D)
  BY <1>1, <1>3 DEF InOrder, Held, InGlue
<1>5. ~heap[t][Head(D)].live
  BY DEF FreeAgain, Live
<1>6. Head(D) \in cloned[t]
  BY <1>4, <1>5, DeadIsCloned
<1>7. UNCHANGED <<building, owned, cloned>>
  BY DEF FreeAgain
<1> QED
  BY <1>6, <1>7, CorruptStep

\* Flake settings are used that have been freed.
LEMMA UseFreedOwns ==
  ASSUME OInv, IInv', NEW t \in Threads, NEW i \in DOMAIN objs[t], UseFreed(t, i) PROVE OInv'
<1> DEFINE o == objs[t][i]
<1>1. Sound(heap[t], cloned[t], objs[t], <<>>, {})
  BY IdleThread DEF UseFreed
<1>2. PICK k \in DOMAIN o.flakes : ~heap[t][o.flakes[k]].live
  BY DEF UseFreed, AllLive, Live
<1>3. InGlue(o.flakes[k], o.glue)
  BY <1>1 DEF Sound, ObjectOK
<1>4. o.flakes[k] \in cloned[t]
  BY <1>1, <1>2, <1>3, DeadIsCloned
<1>5. UNCHANGED <<building, owned, cloned>>
  BY DEF UseFreed
<1> QED
  BY <1>4, <1>5, CorruptStep

----------------------------------------------------------------------------
(* with_store                                                              *)

\* What t holds at a place in with_store, and what it is to hold at the next.
LEMMA BusyThread ==
  ASSUME OInv, NEW t \in Threads, Running(t)
  PROVE  /\ drops[t] = <<>> /\ objs[t] \in Seq(ObjectType)
         /\ Sound(heap[t], cloned[t], objs[t],
                  Pending(pc[t], local[t], config[t].flakes), {})
         /\ Building(heap[t], pc[t], local[t], config[t].flakes, <<>>)
<1>1. drops[t] = <<>> /\ Orderly(t)
  BY DEF Running, OInv
<1>2. Spent(<<>>) = {}
  BY NothingHeld DEF Spent
<1> QED
  BY <1>1, <1>2 DEF Orderly, InOrder, Held

\* A step of with_store.
LEMMA BusyStep ==
  ASSUME OInv, IInv', NEW t \in Threads, Running(t), UNCHANGED <<drops, cloned, corrupt>>,
         \A u \in Threads \ {t} : pc'[u] = pc[u] /\ config'[u] = config[u],
         NEW H, NEW O \in Seq(ObjectType), NEW L, NEW P, NEW F, pc'[t] = P, config'[t].flakes = F,
         Only(heap, heap', t, H), Only(objs, objs', t, O), Only(local, local', t, L),
         Sound(H, cloned[t], O, Pending(P, L, F), {}), Building(H, P, L, F, <<>>)
  PROVE  OInv'
<1>1. drops[t] = <<>>
  BY BusyThread
<1>2. Spent(<<>>) = {}
  BY NothingHeld DEF Spent
<1>3. InOrder(H, cloned[t], O, P, L, F, <<>>)
  BY <1>2 DEF InOrder, Held
<1>4. Only(drops, drops', t, <<>>) /\ Only(cloned, cloned', t, cloned[t])
  BY <1>1, OnlySame DEF OInv, Shape
<1> QED
  BY <1>3, <1>4, OneThread

\* with_store begins, with flake settings or without.
LEMMA StartOwns ==
  ASSUME OInv, IInv', NEW t \in Threads, NEW asked, NEW F \in Seq(Nat),
         NEW O \in Seq(ObjectType), Start(t, asked, F, O), Sound(heap[t], cloned[t], O, F, {}),
         \A k \in DOMAIN F : F[k] \in DOMAIN heap[t] /\ heap[t][F[k]].kind \in FlakeKinds
  PROVE  OInv'
<1>1. At(t, "idle") /\ Running(t) /\ UNCHANGED <<local, heap, drops, corrupt, cloned>>
  BY DEF Start, At
<1>2. local[t] = <<>>
  BY <1>1, IdleThread
<1>3. O \o <<>> = O /\ <<>> \o F = F
  BY ConcatEmptySeq
<1>4. Pending("stack", <<>>, F) = F
  BY <1>3 DEF Pending
<1>5. Building(heap[t], "stack", <<>>, F, <<>>)
  BY EmptySeq DEF Building
<1>6. objs' = [objs EXCEPT ![t] = O]
  BY <1>3 DEF Start, Replace
<1>7. Only(heap, heap', t, heap[t]) /\ Only(local, local', t, <<>>) /\ Only(objs, objs', t, O)
  <2>1. /\ heap = [u \in Threads |-> heap[u]] /\ local = [u \in Threads |-> local[u]]
        /\ objs = [u \in Threads |-> objs[u]]
    BY DEF OInv, Shape
  <2>2. Only(heap, heap', t, heap[t])
    BY <1>1, <2>1 DEF Only
  <2>3. Only(local, local', t, <<>>)
    BY <1>1, <1>2, <2>1 DEF Only
  <2>4. Only(objs, objs', t, O)
    BY <1>6, <2>1 DEF Only
  <2> QED
    BY <2>2, <2>3, <2>4
<1>8. /\ pc'[t] = "stack" /\ config'[t].flakes = F
      /\ \A u \in Threads \ {t} : pc'[u] = pc[u] /\ config'[u] = config[u]
  BY DEF Start, OInv, IInv, TInv
<1> QED
  BY <1>1, <1>4, <1>5, <1>7, <1>8, BusyStep

\* It begins with no flake settings,
LEMMA StartPlainOwns ==
  ASSUME OInv, IInv', NEW t \in Threads, NEW asked, StartPlain(t, asked) PROVE OInv'
<1>1. Sound(heap[t], cloned[t], objs[t], <<>>, {}) /\ objs[t] \in Seq(ObjectType)
  BY IdleThread DEF StartPlain, Start
<1>2. <<>> \in Seq(Nat) /\ DOMAIN <<>> = {}
  OBVIOUS
<1> QED
  BY <1>1, <1>2, StartOwns DEF StartPlain

\* or takes them out of the object that they were.
LEMMA StartWithFlakesOwns ==
  ASSUME OInv, IInv', NEW t \in Threads, NEW asked, NEW i \in DOMAIN objs[t],
         StartWithFlakes(t, asked, i)
  PROVE  OInv'
<1> DEFINE F == objs[t][i].flakes
           O2 == RemoveAt(objs[t], i)
<1>1. /\ Sound(heap[t], cloned[t], objs[t], <<>>, {}) /\ objs[t] \in Seq(ObjectType)
      /\ objs[t][i].kind = "flakes" /\ Start(t, asked, F, O2)
  BY IdleThread DEF StartWithFlakes, Start, Is, Without
<1>2. /\ O2 \in Seq(ObjectType) /\ Sound(heap[t], cloned[t], O2, objs[t][i].glue, {})
      /\ F \in Seq(Nat) /\ ObjectOK(heap[t], objs[t][i])
  BY <1>1, ObjectTaken
<1>3. /\ objs[t][i].glue = F
      /\ \A k \in DOMAIN F : F[k] \in DOMAIN heap[t] /\ heap[t][F[k]].kind \in FlakeKinds
  BY <1>1, <1>2 DEF ObjectOK
<1> HIDE DEF F, O2
<1> QED
  BY <1>1, <1>2, <1>3, StartOwns

\* What with_store holds is of the right kinds still when handles have only come.
LEMMA KindsKept ==
  ASSUME NEW H, NEW H2, NEW n, NEW x, Appended(H, H2, n, x) \/ Replaced(H, H2, n, x),
         Replaced(H, H2, n, x) => x.kind = H[n].kind, NEW F,
         \A i \in DOMAIN F : F[i] \in DOMAIN H /\ H[F[i]].kind \in FlakeKinds
  PROVE  \A i \in DOMAIN F : F[i] \in DOMAIN H2 /\ H2[F[i]].kind \in FlakeKinds
<1>1. CASE Appended(H, H2, n, x)
  BY <1>1 DEF Appended
<1>2. CASE Replaced(H, H2, n, x)
  <2> TAKE i \in DOMAIN F
  <2>1. CASE F[i] = n
    BY <1>2, <2>1 DEF Replaced
  <2>2. CASE F[i] # n
    BY <1>2, <2>2 DEF Replaced
  <2> QED
    BY <2>1, <2>2
<1> QED
  BY <1>1, <1>2

\* with_store goes on and holds what it held.
LEMMA Onward ==
  ASSUME OInv, IInv', NEW t \in Threads, Running(t), NEW P,
         UNCHANGED <<owned, config, local, corrupt, cloned>>,
         pc'[t] = P, \A u \in Threads \ {t} : pc'[u] = pc[u],
         Pending(P, local[t], config[t].flakes) = Pending(pc[t], local[t], config[t].flakes),
         Building(heap[t], P, local[t], config[t].flakes, <<>>)
  PROVE  OInv'
<1>1. Sound(heap[t], cloned[t], objs[t], Pending(P, local[t], config[t].flakes), {})
      /\ objs[t] \in Seq(ObjectType)
  BY BusyThread
<1>2. UNCHANGED <<heap, objs, drops, config, local, corrupt, cloned>>
  BY DEF owned
<1>3. /\ Only(heap, heap', t, heap[t]) /\ Only(objs, objs', t, objs[t])
      /\ Only(local, local', t, local[t])
  BY <1>2, OnlySame DEF OInv, Shape
<1>4. config'[t].flakes = config[t].flakes /\ \A u \in Threads \ {t} : config'[u] = config[u]
  BY <1>2
<1> DEFINE F == config[t].flakes
           L == local[t]
           O == objs[t]
           H == heap[t]
<1>5. /\ Sound(H, cloned[t], O, Pending(P, L, F), {}) /\ O \in Seq(ObjectType)
      /\ Building(H, P, L, F, <<>>) /\ config'[t].flakes = F
  BY <1>1, <1>4
<1>6. Only(heap, heap', t, H) /\ Only(objs, objs', t, O) /\ Only(local, local', t, L)
  BY <1>3
<1> HIDE DEF F, L, O, H
<1> QED
  BY <1>2, <1>4, <1>5, <1>6, BusyStep

\* The stack limit is nothing that is held.
LEMMA SetStackOwns == ASSUME OInv, IInv', NEW t \in Threads, SetStack(t) PROVE OInv'
<1>1. Running(t) /\ pc[t] = "stack" /\ UNCHANGED <<owned, config, local, corrupt, cloned>>
  BY DEF SetStack, Goto, At
<1>2. pc'[t] = "store" /\ \A u \in Threads \ {t} : pc'[u] = pc[u]
  BY DEF SetStack, Goto, OInv, IInv, TInv
<1>3. Building(heap[t], "stack", local[t], config[t].flakes, <<>>)
  BY <1>1, BusyThread
<1>4. Building(heap[t], "store", local[t], config[t].flakes, <<>>)
  BY <1>3 DEF Building
<1>5. Pending("store", local[t], config[t].flakes) = Pending(pc[t], local[t], config[t].flakes)
  BY <1>1 DEF Pending
<1> QED
  BY <1>1, <1>2, <1>4, <1>5, Onward

\* Nor is a setting,
LEMMA SetOptionOwns ==
  ASSUME OInv, IInv', NEW t \in Threads, NEW k \in Keys, SetOption(t, k) PROVE OInv'
<1>1. /\ Running(t) /\ pc[t] = "options" /\ UNCHANGED <<owned, config, local, corrupt, cloned>>
      /\ pc' = pc
  BY DEF SetOption, At
<1>2. Building(heap[t], pc[t], local[t], config[t].flakes, <<>>)
  BY <1>1, BusyThread
<1> QED
  BY <1>1, <1>2, Onward

\* and loading them takes no handle.
LEMMA LoadSettingsOwns == ASSUME OInv, IInv', NEW t \in Threads, LoadSettings(t) PROVE OInv'
<1>1. Running(t) /\ pc[t] = "options" /\ UNCHANGED <<owned, config, local, corrupt, cloned>>
  BY DEF LoadSettings, Goto, At
<1>2. pc'[t] = "path" /\ \A u \in Threads \ {t} : pc'[u] = pc[u]
  BY DEF LoadSettings, Goto, OInv, IInv, TInv
<1>3. Building(heap[t], "options", local[t], config[t].flakes, <<>>)
  BY <1>1, BusyThread
<1>4. Building(heap[t], "path", local[t], config[t].flakes, <<>>)
  BY <1>3 DEF Building
<1>5. Pending("path", local[t], config[t].flakes) = Pending(pc[t], local[t], config[t].flakes)
  BY <1>1 DEF Pending
<1> QED
  BY <1>1, <1>2, <1>4, <1>5, Onward

\* The store is the first handle that with_store holds.
LEMMA OpenStoreOwns == ASSUME OInv, IInv', NEW t \in Threads, OpenStore(t) PROVE OInv'
<1> DEFINE H == heap[t]
           C == cloned[t]
           O == objs[t]
           F == config[t].flakes
           L == local[t]
           n == Len(H) + 1
           H2 == H \o <<Handle("store", {})>>
           L2 == <<n>>
<1>1. /\ Running(t) /\ pc[t] = "store" /\ UNCHANGED <<config, objs, drops, corrupt, cloned>>
      /\ heap' = [heap EXCEPT ![t] = H2] /\ local' = [local EXCEPT ![t] = L2]
  BY DEF OpenStore, Goto, At, Alloc, Fresh
<1>2. pc'[t] = "builder" /\ \A u \in Threads \ {t} : pc'[u] = pc[u]
  BY DEF OpenStore, Goto, OInv, IInv, TInv
<1>3. /\ Building(H, "store", L, F, <<>>) /\ Sound(H, C, O, Pending("store", L, F), {})
      /\ O \in Seq(ObjectType)
  BY <1>1, BusyThread
<1>4. F \in Seq(Nat) /\ L = <<>>
  BY <1>3, EmptySeq DEF Building
<1>5. Pending("store", L, F) = F
  BY <1>4, ConcatEmptySeq DEF Pending
<1>6. Sound(H, C, O, F, {})
  BY <1>3, <1>5
<1>7. "store" \in HandleKinds
  BY DEF HandleKinds
<1>8. /\ n \in Nat /\ Appended(H, H2, n, Handle("store", {})) /\ Handle("store", {}).kind = "store"
      /\ Sound(H2, C, O, <<n>> \o F, {})
  BY <1>6, <1>7, HandleMade
<1>9. Pending("builder", L2, F) = <<n>> \o F
  BY DEF Pending
<1>10. L2 \in Seq(Nat) /\ Len(L2) = 1 /\ L2[1] = n
  BY <1>8
<1>11. Only(heap, heap', t, H2) /\ Only(local, local', t, L2)
  BY <1>1, OnlyExcept DEF OInv, Shape
<1>12. Only(objs, objs', t, O)
  BY <1>1, OnlySame DEF OInv, Shape
<1> DEFINE x == Handle("store", {})
<1>13. Appended(H, H2, n, x) /\ x.kind = "store"
  BY <1>8
<1> HIDE DEF x, n, H2, L2
<1>14. n \in DOMAIN H2 /\ H2[n].kind = "store"
  BY <1>13 DEF Appended
<1>15. \A i \in DOMAIN F : F[i] \in DOMAIN H /\ H[F[i]].kind \in FlakeKinds
  BY <1>3 DEF Building
<1>16. \A i \in DOMAIN F : F[i] \in DOMAIN H2 /\ H2[F[i]].kind \in FlakeKinds
  BY <1>13, <1>15 DEF Appended
<1>17. Building(H2, "builder", L2, F, <<>>)
  BY <1>4, <1>10, <1>14, <1>16, EmptySeq DEF Building
<1>18. Sound(H2, C, O, Pending("builder", L2, F), {})
  BY <1>8, <1>9
<1>19. config'[t].flakes = F /\ \A u \in Threads \ {t} : pc'[u] = pc[u] /\ config'[u] = config[u]
  BY <1>1, <1>2
<1> HIDE DEF F, H, O
<1> QED
  BY <1>1, <1>2, <1>3, <1>11, <1>12, <1>17, <1>18, <1>19, BusyStep DEF C

\* The builder uses the store, and is held before it.
LEMMA NewBuilderOwns == ASSUME OInv, IInv', NEW t \in Threads, NewBuilder(t) PROVE OInv'
<1> DEFINE H == heap[t]
           C == cloned[t]
           O == objs[t]
           F == config[t].flakes
           L == local[t]
           G == L \o F
           n == Len(H) + 1
           x == Handle("builder", ToSet(L))
           H2 == H \o <<x>>
           L2 == <<n>> \o L
<1>1. /\ Running(t) /\ pc[t] = "builder" /\ UNCHANGED <<config, objs, drops, corrupt, cloned>>
      /\ heap' = [heap EXCEPT ![t] = H2] /\ local' = [local EXCEPT ![t] = L2]
  BY DEF NewBuilder, Goto, At, Alloc, Fresh
<1>2. pc'[t] = "flakes" /\ \A u \in Threads \ {t} : pc'[u] = pc[u]
  BY DEF NewBuilder, Goto, OInv, IInv, TInv
<1>3. /\ Building(H, "builder", L, F, <<>>) /\ Sound(H, C, O, Pending("builder", L, F), {})
      /\ O \in Seq(ObjectType)
  BY <1>1, BusyThread
<1>4. /\ F \in Seq(Nat) /\ L \in Seq(Nat) /\ Len(L) = 1
      /\ L[1] \in DOMAIN H /\ H[L[1]].kind = "store"
      /\ \A i \in DOMAIN F : F[i] \in DOMAIN H /\ H[F[i]].kind \in FlakeKinds
  BY <1>3 DEF Building
<1>5. Sound(H, C, O, G, {}) /\ H \in Seq(HandleType)
  BY <1>3 DEF Pending, Sound, HandlesOK
<1>6. ToSet(L) = {L[1]} /\ L[1] \in Nat
  BY <1>4 DEF ToSet
<1>7. /\ x \in HandleType /\ x.kind = "builder" /\ x.kind \in UserKinds /\ x.uses = ToSet(L)
      /\ x.live
  BY <1>6 DEF Handle, HandleType, HandleKinds, UserKinds
<1> HIDE DEF x
<1>8. H2 \in Seq(HandleType) /\ Appended(H, H2, n, x)
  BY <1>5, <1>7, AppendOne
<1>9. n \in Nat
  BY <1>8 DEF Appended
<1> HIDE DEF n
<1>10. <<n>> \in Seq(Nat) /\ <<n>>[1] = n /\ Len(<<n>>) = 1 /\ DOMAIN <<n>> = {1}
  BY <1>9
<1> DEFINE f == <<n>>
<1>11. f \in Seq(Nat) /\ f[1] = n /\ Len(f) = 1 /\ DOMAIN f = {1} /\ L2 = f \o L
  BY <1>10
<1> HIDE DEF f, H2
<1>12. Joined(L, F, G) /\ Joined(f, L, L2)
  BY <1>4, <1>11, JoinSeq
<1>13. Joined(f, G, f \o G)
  BY <1>11, <1>12, JoinSeq DEF Joined
<1>14. f \o G = L2 \o F
  <2>1. f \in Seq(Nat) /\ L \in Seq(Nat) /\ F \in Seq(Nat)
    BY <1>4, <1>11
  <2> HIDE DEF L, F
  <2>2. f \o (L \o F) = (f \o L) \o F
    BY <2>1, JoinThree
  <2> QED
    BY <1>11, <2>2
<1>15. InGlue(L[1], G)
  <2>1. 1 \in DOMAIN L
    BY <1>4
  <2>2. 1 \in DOMAIN G /\ G[1] = L[1]
    BY <1>12, <2>1 DEF Joined
  <2> QED
    BY <2>2 DEF InGlue
<1>16. \A u \in x.uses : InGlue(u, G)
  BY <1>6, <1>7, <1>15
<1> DEFINE G2 == L2 \o F
<1>17. Joined(<<n>>, G, G2)
  BY <1>13, <1>14 DEF f
<1> HIDE DEF L2, G, G2
<1>18. Sound(H2, C, O, G2, {})
  BY <1>5, <1>7, <1>8, <1>16, <1>17, Acquired
<1>19. Pending("flakes", L2, F) = G2
  BY DEF Pending, G2
<1>20. L2 \in Seq(Nat) /\ Len(L2) = 2 /\ L2[1] = n /\ L2[2] = L[1]
  <2>1. L2 \in Seq(Nat) /\ Len(L2) = 2
    BY <1>4, <1>11, <1>12 DEF Joined
  <2>2. L2[1] = n
    BY <1>11, <1>12 DEF Joined
  <2>3. 1 \in DOMAIN L
    BY <1>4
  <2>4. L2[1 + Len(f)] = L[1]
    BY <1>12, <2>3 DEF Joined
  <2> QED
    BY <1>11, <2>1, <2>2, <2>4
<1>21. /\ n \in DOMAIN H2 /\ H2[n].kind = "builder"
       /\ L[1] \in DOMAIN H2 /\ H2[L[1]].kind = "store"
       /\ \A i \in DOMAIN F : F[i] \in DOMAIN H2 /\ H2[F[i]].kind \in FlakeKinds
  BY <1>4, <1>7, <1>8 DEF Appended
<1>22. Building(H2, "flakes", L2, F, <<>>)
  BY <1>4, <1>20, <1>21, EmptySeq DEF Building
<1>23. Only(heap, heap', t, H2) /\ Only(local, local', t, L2)
  BY <1>1, OnlyExcept DEF OInv, Shape
<1>24. Only(objs, objs', t, O)
  BY <1>1, OnlySame DEF OInv, Shape
<1>25. Sound(H2, C, O, Pending("flakes", L2, F), {})
  BY <1>18, <1>19
<1>26. config'[t].flakes = F /\ \A u \in Threads \ {t} : pc'[u] = pc[u] /\ config'[u] = config[u]
  BY <1>1, <1>2
<1> HIDE DEF F, H, O
<1> QED
  BY <1>1, <1>2, <1>3, <1>22, <1>23, <1>24, <1>25, <1>26, BusyStep DEF C

\* The builder uses the flake settings, which are held after it.
LEMMA AddFlakesOwns == ASSUME OInv, IInv', NEW t \in Threads, AddFlakes(t) PROVE OInv'
<1> DEFINE H == heap[t]
           C == cloned[t]
           O == objs[t]
           F == config[t].flakes
           L == local[t]
           G == L \o F
           b == L[1]
           U == ToSet(F)
           x == [H[b] EXCEPT !.uses = @ \cup U]
           H2 == [H EXCEPT ![b] = x]
<1>1. /\ Running(t) /\ pc[t] = "flakes" /\ UNCHANGED <<config, objs, drops, local, corrupt, cloned>>
      /\ heap' = [heap EXCEPT ![t][Head(L)].uses = @ \cup U]
  BY DEF AddFlakes, Goto, At
<1>2. pc'[t] = "options" /\ \A u \in Threads \ {t} : pc'[u] = pc[u]
  BY DEF AddFlakes, Goto, OInv, IInv, TInv
<1>3. /\ Building(H, "flakes", L, F, <<>>) /\ Sound(H, C, O, Pending("flakes", L, F), {})
      /\ O \in Seq(ObjectType)
  BY <1>1, BusyThread
<1>4. /\ F \in Seq(Nat) /\ L \in Seq(Nat) /\ Len(L) = 2
      /\ b \in DOMAIN H /\ H[b].kind = "builder"
      /\ L[2] \in DOMAIN H /\ H[L[2]].kind = "store"
      /\ \A i \in DOMAIN F : F[i] \in DOMAIN H /\ H[F[i]].kind \in FlakeKinds
  BY <1>3 DEF Building
<1>5. Head(L) = b
  BY <1>4
<1>6. Sound(H, C, O, G, {}) /\ H \in Seq(HandleType)
  BY <1>3 DEF Pending, Sound, HandlesOK
<1>7. U = {F[i] : i \in DOMAIN F} /\ U \subseteq Nat
  BY <1>4 DEF ToSet
<1>8. H[b] \in HandleType
  BY <1>4, <1>6
<1> HIDE DEF U
<1>9. /\ x \in HandleType /\ x.uses = H[b].uses \cup U /\ x.kind = H[b].kind
      /\ x.live = H[b].live
  BY <1>7, <1>8 DEF HandleType
<1>10. heap' = [heap EXCEPT ![t] = H2]
  BY <1>1, <1>4, <1>5 DEF OInv, Shape
<1> HIDE DEF x
<1>11. H2 \in Seq(HandleType) /\ Replaced(H, H2, b, x)
  BY <1>4, <1>6, <1>9, ReplaceOne
<1> HIDE DEF H2
<1>12. Joined(L, F, G)
  BY <1>4, JoinSeq
<1>13. 1 \in DOMAIN L
  BY <1>4
<1>14. 1 \in DOMAIN G /\ G[1] = b
  BY <1>12, <1>13 DEF Joined
<1>15. ASSUME NEW u \in U PROVE InGlue(u, G) /\ u # G[1]
  <2>1. PICK i \in DOMAIN F : F[i] = u
    BY <1>7
  <2>2. InGlue(u, F)
    BY <2>1 DEF InGlue
  <2>3. InGlue(u, G)
    BY <1>12, <2>2, JoinHas
  <2>4. H[u].kind # "builder"
    BY <1>4, <2>1 DEF FlakeKinds
  <2> QED
    BY <1>4, <1>14, <2>3, <2>4
<1>16. H[G[1]].kind \in UserKinds
  BY <1>4, <1>14 DEF UserKinds
<1>17. /\ Replaced(H, H2, G[1], x) /\ x.uses = H[G[1]].uses \cup U /\ x.kind = H[G[1]].kind
       /\ x.live = H[G[1]].live
  BY <1>9, <1>11, <1>14
<1> HIDE DEF G, H, C, O, L, F, b
<1>18. Sound(H2, C, O, G, {})
  BY <1>6, <1>11, <1>14, <1>15, <1>16, <1>17, UsesMore
<1>19. Sound(H2, C, O, Pending("options", L, F), {})
  BY <1>18 DEF Pending, G
<1>20. \A i \in DOMAIN F : F[i] \in DOMAIN H2 /\ H2[F[i]].kind \in FlakeKinds
  BY <1>4, <1>9, <1>11 DEF Replaced
<1>21. /\ b \in DOMAIN H2 /\ H2[b].kind = "builder"
       /\ L[2] \in DOMAIN H2 /\ H2[L[2]].kind = "store"
  BY <1>4, <1>9, <1>11 DEF Replaced
<1>22. Building(H2, "options", L, F, <<>>)
  BY <1>4, <1>20, <1>21, EmptySeq DEF Building, b
<1>23. Only(heap, heap', t, H2)
  BY <1>10, OnlyExcept DEF OInv, Shape
<1>24. Only(objs, objs', t, O) /\ Only(local, local', t, L)
  BY <1>1, OnlySame DEF OInv, Shape, O, L
<1>25. config'[t].flakes = F /\ \A u \in Threads \ {t} : pc'[u] = pc[u] /\ config'[u] = config[u]
  BY <1>1, <1>2 DEF F
<1> QED
  BY <1>1, <1>2, <1>3, <1>19, <1>22, <1>23, <1>24, <1>25, BusyStep DEF C

\* The builder gets flake settings that have been freed.
LEMMA AddFreedFlakesOwns == ASSUME OInv, IInv', NEW t \in Threads, AddFreedFlakes(t) PROVE OInv'
<1> DEFINE F == config[t].flakes
           L == local[t]
           G == L \o F
<1>1. Running(t) /\ pc[t] = "flakes" /\ UNCHANGED <<building, owned, cloned>>
  BY DEF AddFreedFlakes, At
<1>2. /\ Building(heap[t], "flakes", L, F, <<>>)
      /\ Sound(heap[t], cloned[t], objs[t], Pending("flakes", L, F), {})
  BY <1>1, BusyThread
<1>3. F \in Seq(Nat) /\ L \in Seq(Nat) /\ Sound(heap[t], cloned[t], objs[t], G, {})
  BY <1>2 DEF Building, Pending
<1>4. PICK k \in DOMAIN F : ~heap[t][F[k]].live
  BY DEF AddFreedFlakes, AllLive, Live
<1>5. InGlue(F[k], F)
  BY <1>4 DEF InGlue
<1>6. Joined(L, F, G)
  BY <1>3, JoinSeq
<1> HIDE DEF G, F, L
<1>7. InGlue(F[k], G)
  BY <1>5, <1>6, JoinHas
<1>8. F[k] \in cloned[t]
  BY <1>3, <1>4, <1>7, DeadIsCloned
<1> QED
  BY <1>1, <1>8, CorruptStep

\* What follows the builder in the locals is the store.
LEMMA TwoLocals ==
  ASSUME NEW L \in Seq(Nat), Len(L) = 2
  PROVE  L[1] \in Nat /\ L[2] \in Nat /\ L = <<L[1]>> \o <<L[2]>> /\ L = <<L[1], L[2]>>
<1>1. L[1] \in Nat /\ L[2] \in Nat
  <2>1. 1 \in 1..Len(L) /\ 2 \in 1..Len(L)
    OBVIOUS
  <2> QED
    BY <2>1, ElementOfSeq
<1> DEFINE p == <<L[1], L[2]>>
<1>2. p \in Seq(Nat) /\ Len(p) = 2 /\ p[1] = L[1] /\ p[2] = L[2]
  BY <1>1
<1>3. \A i \in 1..2 : p[i] = L[i]
  BY <1>2
<1> HIDE DEF p
<1>4. p = L
  BY <1>2, <1>3, SeqEqual
<1>5. <<L[1]>> \o <<L[2]>> = <<L[1], L[2]>>
  BY <1>1, PairSeq
<1> QED
  BY <1>1, <1>4, <1>5 DEF p

\* What build would free is what with_store would, with the store last.
LEMMA BuildHolds ==
  ASSUME NEW H, NEW C, NEW O, NEW L, NEW F, Building(H, "path", L, F, <<>>)
  PROVE  /\ Building(H, "build", L, F, <<>>)
         /\ Sound(H, C, O, L \o F, {}) <=> Sound(H, C, O, Pending("build", L, F), {})
<1> DEFINE b == L[1]
           s == <<L[2]>>
<1>1. /\ F \in Seq(Nat) /\ L \in Seq(Nat) /\ Len(L) = 2
      /\ b \in DOMAIN H /\ H[b].kind = "builder"
      /\ L[2] \in DOMAIN H /\ H[L[2]].kind = "store"
      /\ \A i \in DOMAIN F : F[i] \in DOMAIN H /\ H[F[i]].kind \in FlakeKinds
  BY DEF Building
<1>2. Building(H, "build", L, F, <<>>)
  BY DEF Building
<1>3. b \in Nat /\ L[2] \in Nat /\ L = <<b>> \o s
  BY <1>1, TwoLocals
<1>4. s \in Seq(Nat) /\ DOMAIN s = {1} /\ s[1] = L[2]
  BY <1>3, SingleSeq
<1>5. Pending("build", L, F) = (<<b>> \o F) \o s
  BY DEF Pending
<1>6. L \o F = (<<b>> \o s) \o F
  BY <1>3
<1>7. \A i \in DOMAIN F : H[F[i]].kind \notin UserKinds
  BY <1>1 DEF FlakeKinds, UserKinds
<1>8. \A i \in DOMAIN s : H[s[i]].kind \notin UserKinds
  BY <1>1, <1>4 DEF UserKinds
<1> DEFINE G1 == (<<b>> \o s) \o F
           G2 == (<<b>> \o F) \o s
<1> HIDE DEF s, b
<1>9. Sound(H, C, O, G1, {}) => Sound(H, C, O, G2, {})
  BY <1>1, <1>3, <1>4, <1>7, <1>8, Rotated
<1>10. Sound(H, C, O, G2, {}) => Sound(H, C, O, G1, {})
  BY <1>1, <1>3, <1>4, <1>7, <1>8, Rotated
<1> QED
  BY <1>2, <1>5, <1>6, <1>9, <1>10

\* The settings are freed before the store, if build fails, and not after it.
LEMMA SetLookupPathOwns == ASSUME OInv, IInv', NEW t \in Threads, SetLookupPath(t) PROVE OInv'
<1> DEFINE H == heap[t]
           O == objs[t]
           F == config[t].flakes
           L == local[t]
<1>1. /\ Running(t) /\ pc[t] = "path" /\ UNCHANGED <<owned, config, local, corrupt, cloned>>
      /\ UNCHANGED <<heap, objs, drops>>
  BY DEF SetLookupPath, Goto, At, owned
<1>2. pc'[t] = "build" /\ \A u \in Threads \ {t} : pc'[u] = pc[u]
  BY DEF SetLookupPath, Goto, OInv, IInv, TInv
<1>3. /\ Building(H, "path", L, F, <<>>) /\ Sound(H, cloned[t], O, Pending("path", L, F), {})
      /\ O \in Seq(ObjectType)
  BY <1>1, BusyThread
<1>4. Sound(H, cloned[t], O, L \o F, {})
  BY <1>3 DEF Pending
<1>5. Building(H, "build", L, F, <<>>) /\ Sound(H, cloned[t], O, Pending("build", L, F), {})
  BY <1>3, <1>4, BuildHolds
<1>6. Only(heap, heap', t, H) /\ Only(objs, objs', t, O) /\ Only(local, local', t, L)
  BY <1>1, OnlySame DEF OInv, Shape
<1>7. config'[t].flakes = F /\ \A u \in Threads \ {t} : pc'[u] = pc[u] /\ config'[u] = config[u]
  BY <1>1, <1>2
<1> HIDE DEF F, H, O, L
<1> QED
  BY <1>1, <1>2, <1>3, <1>5, <1>6, <1>7, BusyStep

\* with_store leaves: it holds nothing but what it runs.
LEMMA LeaveOwns ==
  ASSUME OInv, IInv', NEW t \in Threads, Leave(t), pc' = [pc EXCEPT ![t] = "idle"],
         UNCHANGED <<cloned, corrupt>>, NEW H, NEW O \in Seq(ObjectType), NEW D \in Seq(Nat),
         Only(heap, heap', t, H), Only(objs, objs', t, O), Only(drops, drops', t, D),
         Sound(H, cloned[t], O, D, Spent(D))
  PROVE  OInv'
<1>1. InOrder(H, cloned[t], O, "idle", <<>>, <<>>, D)
  BY IdleOrder
<1>2. pc'[t] = "idle" /\ config'[t].flakes = <<>>
  BY DEF Leave, NoConfig, OInv, IInv, TInv
<1>3. \A u \in Threads \ {t} : pc'[u] = pc[u] /\ config'[u] = config[u]
  BY DEF Leave, OInv, IInv, TInv
<1>4. Only(local, local', t, <<>>)
  <2>1. local = [u \in Threads |-> local[u]] /\ local' = [local EXCEPT ![t] = <<>>]
    BY DEF Leave, OInv, Shape
  <2> QED
    BY <2>1 DEF Only
<1>5. Only(cloned, cloned', t, cloned[t])
  BY OnlySame DEF OInv, Shape
<1> QED
  BY <1>1, <1>2, <1>3, <1>4, <1>5, OneThread

\* A step of with_store fails.
LEMMA FailOwns == ASSUME OInv, IInv', NEW t \in Threads, Fail(t) PROVE OInv'
<1> DEFINE H == heap[t]
           O == objs[t]
           F == config[t].flakes
           L == local[t]
           D == Pending(pc[t], L, F)
<1>1. /\ Running(t) /\ UNCHANGED <<heap, objs, corrupt, cloned>> /\ Leave(t)
      /\ pc' = [pc EXCEPT ![t] = "idle"] /\ drops' = [drops EXCEPT ![t] = FailGlue(t)]
  BY DEF Fail, Run
<1>2. FailGlue(t) = D
  BY DEF FailGlue, Pending
<1>3. Sound(H, cloned[t], O, D, {}) /\ O \in Seq(ObjectType)
  BY <1>1, BusyThread
<1>4. D \in Seq(Nat)
  BY <1>3 DEF Sound, PartOK, GlueOK
<1>5. Only(heap, heap', t, H) /\ Only(objs, objs', t, O)
  BY <1>1, OnlySame DEF OInv, Shape
<1>6. Only(drops, drops', t, D)
  BY <1>1, <1>2, OnlyExcept DEF OInv, Shape
<1> HIDE DEF D, H, O
<1>7. Sound(H, cloned[t], O, D, Spent(D))
  BY <1>3, MoreSpent
<1> QED
  BY <1>1, <1>3, <1>4, <1>5, <1>6, <1>7, LeaveOwns

\* The state is made from the builder, and the evaluator of all the rest.
LEMMA BuildOwns == ASSUME OInv, IInv', NEW t \in Threads, Build(t) PROVE OInv'
<1> DEFINE H == heap[t]
           C == cloned[t]
           O == objs[t]
           F == config[t].flakes
           L == local[t]
           b == L[1]
           s == <<L[2]>>
           R == s \o F
           n == Len(H) + 1
           x == Handle("state", H[b].uses)
           H2 == H \o <<x>>
           R2 == EvaluatorGlue(n, L[2], F)
           o == Object("evaluator", R2, F, 0)
           O2 == O \o <<o>>
           D == <<b>>
<1>1. /\ Running(t) /\ pc[t] = "build" /\ UNCHANGED <<cloned, corrupt>> /\ Leave(t)
      /\ pc' = [pc EXCEPT ![t] = "idle"] /\ heap' = [heap EXCEPT ![t] = H2]
      /\ objs' = [objs EXCEPT ![t] = O2] /\ drops' = [drops EXCEPT ![t] = D]
  BY DEF Build, Goto, At, Alloc, Fresh, Replace, Run
<1>2. /\ Building(H, "build", L, F, <<>>) /\ Sound(H, C, O, Pending("build", L, F), {})
      /\ O \in Seq(ObjectType)
  BY <1>1, BusyThread
<1>3. /\ F \in Seq(Nat) /\ L \in Seq(Nat) /\ Len(L) = 2
      /\ b \in DOMAIN H /\ H[b].kind = "builder"
      /\ \A i \in DOMAIN F : F[i] \in DOMAIN H /\ H[F[i]].kind \in FlakeKinds
  BY <1>2 DEF Building
<1>4. Building(H, "path", L, F, <<>>)
  BY <1>2 DEF Building
<1>5. Sound(H, C, O, L \o F, {}) /\ H \in Seq(HandleType)
  BY <1>2, <1>4, BuildHolds DEF Sound, HandlesOK
<1>6. b \in Nat /\ L[2] \in Nat /\ L = <<b>> \o s
  BY <1>3, TwoLocals
<1>7. s \in Seq(Nat) /\ D \in Seq(Nat)
  BY <1>6
<1>8. L \o F = D \o R
  <2>1. (D \o s) \o F = D \o (s \o F)
    <3> HIDE DEF D, s, F
    <3> QED
      BY <1>3, <1>7, JoinThree
  <2> QED
    BY <1>6, <2>1
<1>9. R \in Seq(Nat) /\ Joined(s, F, R)
  <2> HIDE DEF s, F
  <2> QED
    BY <1>3, <1>7, JoinSeq DEF Joined
<1>10. Joined(<<b>>, R, D \o R)
  <2>1. Joined(D, R, D \o R)
    <3> HIDE DEF D, R
    <3> QED
      BY <1>7, <1>9, JoinSeq
  <2> QED
    BY <2>1
<1>11. H[b] \in HandleType
  BY <1>3, <1>5
<1>12. /\ x \in HandleType /\ x.live /\ x.uses = H[b].uses /\ x.kind \in UserKinds
  BY <1>11 DEF Handle, HandleType, HandleKinds, UserKinds
<1> HIDE DEF x
<1>13. H2 \in Seq(HandleType) /\ Appended(H, H2, n, x)
  BY <1>5, <1>12, AppendOne
<1>14. n \in Nat
  BY <1>13 DEF Appended
<1> HIDE DEF n, H2
<1>15. R2 = <<n>> \o R /\ Joined(<<n>>, R, R2)
  <2> DEFINE N == <<n>>
  <2>1. N \in Seq(Nat)
    BY <1>14
  <2>2. <<n, L[2]>> = N \o s
    <3> DEFINE m == L[2]
    <3>1. m \in Nat
      BY <1>6
    <3> HIDE DEF m
    <3>2. <<n>> \o <<m>> = <<n, m>>
      BY <1>14, <3>1, PairSeq
    <3> QED
      BY <3>2 DEF m
  <2>3. (N \o s) \o F = N \o (s \o F)
    <3> HIDE DEF N, s, F
    <3> QED
      BY <1>3, <1>7, <2>1, JoinThree
  <2>4. R2 = N \o R
    BY <2>2, <2>3 DEF EvaluatorGlue
  <2>5. Joined(N, R, N \o R)
    <3> HIDE DEF N, R
    <3> QED
      BY <1>9, <2>1, JoinSeq
  <2> QED
    BY <2>4, <2>5
<1> DEFINE Q == R2
<1>16. R2 \in Seq(Nat) /\ R2 # <<>>
  <2>1. Joined(<<n>>, R, Q)
    BY <1>15
  <2> HIDE DEF R, Q
  <2>2. Q \in Seq(Nat) /\ 1 \in DOMAIN Q
    BY <1>14, <2>1, SingleSeq DEF Joined
  <2>3. Q # <<>>
    BY <2>2
  <2> QED
    BY <2>2, <2>3 DEF Q
<1>17. o \in ObjectType /\ o.glue = R2 /\ o.flakes = F /\ o.kind = "evaluator"
  BY <1>3, <1>16 DEF Object, ObjectType, ObjectKinds
<1>18. \A i \in DOMAIN F : F[i] \in DOMAIN H2 /\ H2[F[i]].kind \in FlakeKinds
  BY <1>3, <1>13 DEF Appended
<1>19. \A i \in DOMAIN F : InGlue(F[i], R2)
  <2> TAKE i \in DOMAIN F
  <2>1. InGlue(F[i], F)
    BY DEF InGlue
  <2>2. Joined(<<n>>, R, Q) /\ Joined(s, F, R)
    BY <1>9, <1>15
  <2> HIDE DEF F, R, Q, s
  <2>3. InGlue(F[i], R)
    BY <2>1, <2>2, JoinHas
  <2>4. InGlue(F[i], Q)
    BY <2>2, <2>3, JoinHas
  <2> QED
    BY <2>4 DEF Q
<1> HIDE DEF o, R2
<1>20. ObjectOK(H2, o)
  BY <1>16, <1>17, <1>18, <1>19 DEF ObjectOK
<1> DEFINE m == Len(O) + 1
<1>21. O2 \in Seq(ObjectType) /\ Appended(O, O2, m, o)
  BY <1>2, <1>17, MakeObject
<1> HIDE DEF O2, m
<1>22. Sound(H2, C, O2, <<b>>, {b})
  <2> DEFINE G == D \o R
  <2>1. Joined(<<b>>, R, G) /\ Sound(H, C, O, G, {}) /\ H[b].kind \in UserKinds /\ b \in Nat
    BY <1>3, <1>5, <1>6, <1>8, <1>10 DEF UserKinds
  <2>2. R \in Seq(Nat) /\ Joined(<<n>>, R, R2) /\ o.glue = R2
    BY <1>9, <1>15, <1>17
  <2> HIDE DEF G, R, H, O, b, C
  <2> QED
    BY <1>12, <1>13, <1>20, <1>21, <2>1, <2>2, Built
<1>23. Len(D) = 1 /\ D[1] = b
  BY <1>6
<1>24. Spent(D) = {b}
  BY <1>23 DEF Spent
<1>25. Sound(H2, C, O2, D, Spent(D))
  BY <1>22, <1>24
<1>26. Only(heap, heap', t, H2) /\ Only(objs, objs', t, O2) /\ Only(drops, drops', t, D)
  BY <1>1, OnlyExcept DEF OInv, Shape
<1> HIDE DEF D
<1> QED
  BY <1>1, <1>7, <1>21, <1>25, <1>26, LeaveOwns DEF C

----------------------------------------------------------------------------
(* The invariant.                                                          *)

\* At the start nobody holds anything.
LEMMA OwnsAtStart == Init => OInv
<1> SUFFICES ASSUME Init PROVE OInv
  OBVIOUS
<1>1. IInv
  BY SettingsStart
<1>2. Shape /\ Caused
  BY DEF Init, Shape, Caused
<1>3. ASSUME NEW t \in Threads PROVE Orderly(t)
  <2> DEFINE E == <<>>
  <2>1. /\ heap[t] = E /\ objs[t] = E /\ local[t] = E /\ drops[t] = E /\ cloned[t] = {}
        /\ config[t].flakes = E /\ pc[t] = "idle"
    BY <1>3 DEF Init, NoConfig
  <2>2. DOMAIN E = {} /\ E \in Seq(HandleType) /\ E \in Seq(ObjectType) /\ E \in Seq(Nat)
    OBVIOUS
  <2>3. \A H, C, X : PartOK(H, C, E, X)
    BY NoGlue
  <2> HIDE DEF E
  <2>4. HandlesOK(E, {})
    BY <2>2 DEF HandlesOK
  <2>5. Sound(E, {}, E, E, {})
    BY <2>2, <2>3, <2>4 DEF Sound, UsedLive, AllOwned, Apart
  <2>6. Sound(E, {}, E, E, Spent(E))
    BY <2>5, MoreSpent
  <2>7. InOrder(E, {}, E, "idle", <<>>, <<>>, E)
    BY <2>2, <2>6, IdleOrder
  <2> QED
    BY <2>1, <2>7 DEF Orderly, E
<1> QED
  BY <1>1, <1>2, <1>3 DEF OInv

\* Every operation on flakes keeps the invariant,
LEMMA FlakesOwn == ASSUME OInv, IInv', NEW t \in Threads, FlakeStep(t) PROVE OInv'
<1>1. CASE NewFlakes(t) \/ NewFlakesFails(t)
  BY <1>1, NewFlakesOwns, NewFlakesFailsOwns
<1>2. ASSUME NEW i \in DOMAIN objs[t], CloneFlakes(t, i) \/ NewRefSettings(t, i) \/ Parse(t, i)
      PROVE  OInv'
  BY <1>2, CloneFlakesOwns, NewRefSettingsOwns, ParseOwns
<1>3. ASSUME NEW i \in DOMAIN objs[t], ParseFails(t, i) \/ NewLockFlags(t, i) \/ DropObject(t, i)
             \/ UseFreed(t, i)
      PROVE  OInv'
  BY <1>3, ParseFailsOwns, NewLockFlagsOwns, DropObjectOwns, UseFreedOwns
<1>4. ASSUME NEW e \in DOMAIN objs[t], NEW f \in DOMAIN objs[t], NEW r \in DOMAIN objs[t],
             Lock(t, e, f, r) \/ LockFails(t, e, f, r)
      PROVE  OInv'
  BY <1>4, LockOwns, LockFailsOwns
<1> QED
  BY <1>1, <1>2, <1>3, <1>4 DEF FlakeStep

\* every step of with_store does,
LEMMA BuildsOwn == ASSUME OInv, IInv', NEW t \in Threads, BuildStep(t) PROVE OInv'
<1>1. ASSUME NEW asked \in Asks, StartPlain(t, asked) PROVE OInv'
  BY <1>1, StartPlainOwns
<1>2. ASSUME NEW asked \in Asks, NEW i \in DOMAIN objs[t], StartWithFlakes(t, asked, i) PROVE OInv'
  BY <1>2, StartWithFlakesOwns
<1>3. CASE SetStack(t) \/ OpenStore(t) \/ NewBuilder(t) \/ AddFlakes(t) \/ AddFreedFlakes(t)
  BY <1>3, SetStackOwns, OpenStoreOwns, NewBuilderOwns, AddFlakesOwns, AddFreedFlakesOwns
<1>4. ASSUME NEW k \in Keys, SetOption(t, k) PROVE OInv'
  BY <1>4, SetOptionOwns
<1>5. CASE LoadSettings(t) \/ SetLookupPath(t) \/ Build(t) \/ Fail(t)
  BY <1>5, LoadSettingsOwns, SetLookupPathOwns, BuildOwns, FailOwns
<1> QED
  BY <1>1, <1>2, <1>3, <1>4, <1>5 DEF BuildStep

\* and so does a step that changes nothing.
LEMMA OwnsStutter == OInv /\ UNCHANGED vars /\ IInv' => OInv'
  BY DEF OInv, Shape, Caused, Orderly, vars, building, owned

\* So do all steps of all threads.
LEMMA OwnsStep == OInv /\ [Next]_vars => OInv'
<1> SUFFICES ASSUME OInv, [Next]_vars PROVE OInv'
  OBVIOUS
<1>1. IInv'
  BY SettingsStep DEF OInv
<1>2. ASSUME NEW t \in Threads, FlakeStep(t) PROVE OInv'
  BY <1>1, <1>2, FlakesOwn
<1>3. ASSUME NEW t \in Threads, BuildStep(t) PROVE OInv'
  BY <1>1, <1>3, BuildsOwn
<1>4. ASSUME NEW t \in Threads, Free(t) \/ FreeAgain(t) PROVE OInv'
  BY <1>1, <1>4, FreeOwns, FreeAgainOwns
<1>5. CASE Rest \/ UNCHANGED vars
  BY <1>1, <1>5, OwnsStutter DEF Rest
<1> QED
  BY <1>2, <1>3, <1>4, <1>5 DEF Next

\* So handles are always in order.
LEMMA OwnsAlways == Spec => []OInv
<1>1. Init => OInv
  BY OwnsAtStart
<1>2. OInv /\ [Next]_vars => OInv'
  BY OwnsStep
<1> QED
  BY <1>1, <1>2, PTL DEF Spec

\* Whatever a builder or a state uses is alive as long as it is itself: for any
\* number of threads and of evaluators, whether they are built, fail half-way or
\* are dropped, and however often flake settings are cloned.
THEOREM UsersGoFirst == Spec => []UsersFreedFirst
<1>1. OInv => UsersFreedFirst
  BY DEF OInv, Orderly, InOrder, Sound, UsedLive, UsersFreedFirst, Handles, Live
<1> QED
  BY <1>1, OwnsAlways, PTL

\* A handle is freed twice or used after it was freed only when FlakeSettings
\* have been cloned: moves, early returns and the order of the fields are safe.
THEOREM ClonesAlone == Spec => []OnlyClonesCorrupt
<1>1. OInv => OnlyClonesCorrupt
  BY DEF OInv, Caused, OnlyClonesCorrupt
<1> QED
  BY <1>1, OwnsAlways, PTL

----------------------------------------------------------------------------
(* Owners.                                                                 *)

\* How often a handle that is not a clone is in glue.
LEMMA OwnsAtMostOnce ==
  ASSUME NEW g \in Seq(Nat), NEW C, Once(g, C), NEW h, h \notin C
  PROVE  /\ Owns(g, h) \in {0, 1}
         /\ Owns(g, h) > 0 <=> InGlue(h, g)
<1> DEFINE S == {i \in DOMAIN g : g[i] = h}
<1>1. CASE S = {}
  <2>1. Owns(g, h) = 0
    BY <1>1, FS_EmptySet DEF Owns
  <2>2. ~InGlue(h, g)
    BY <1>1 DEF InGlue
  <2> QED
    BY <2>1, <2>2
<1>2. ASSUME NEW i \in S PROVE Owns(g, h) = 1 /\ InGlue(h, g)
  <2>1. S = {i}
    BY DEF Once
  <2>2. Cardinality(S) = 1
    BY <2>1, FS_Singleton
  <2> QED
    BY <1>2, <2>2 DEF Owns, InGlue
<1>3. (\E i \in S : TRUE) => Owns(g, h) = 1 /\ InGlue(h, g)
  BY <1>2
<1> HIDE DEF S
<1>4. CASE S # {}
  <2>1. Owns(g, h) = 1 /\ InGlue(h, g)
    BY <1>3, <1>4
  <2> QED
    BY <2>1
<1> QED
  BY <1>1, <1>4

\* A set in which all are the same has one member or none.
LEMMA AllTheSame ==
  ASSUME NEW S, \A i, j \in S : i = j PROVE Cardinality(S) <= 1
<1>1. CASE S = {}
  <2>1. Cardinality(S) = 0
    BY <1>1, FS_EmptySet
  <2> QED
    BY <2>1
<1>2. ASSUME NEW i \in S PROVE Cardinality(S) = 1
  <2>1. S = {i}
    OBVIOUS
  <2> QED
    BY <2>1, FS_Singleton
<1>3. CASE S # {}
  <2>1. Cardinality(S) = 1
    BY <1>2, <1>3
  <2> QED
    BY <2>1
<1> QED
  BY <1>1, <1>3

\* Everything that owns handles, in a row.
OwnersRow(D, L, F, O, Q) ==
  /\ DOMAIN Q = {1, 2, 3} \cup {i + 3 : i \in DOMAIN O}
  /\ Q[1] = D /\ Q[2] = L /\ Q[3] = F
  /\ \A i \in DOMAIN O : Q[i + 3] = O[i].glue

\* So are they in Owners.
LEMMA OwnersInARow ==
  ASSUME NEW D \in Seq(Nat), NEW L \in Seq(Nat), NEW F \in Seq(Nat), NEW O \in Seq(ObjectType)
  PROVE  OwnersRow(D, L, F, O, <<D, L, F>> \o [i \in DOMAIN O |-> O[i].glue])
<1> DEFINE S == Seq(Nat)
           a == <<D, L, F>>
           b == [i \in DOMAIN O |-> O[i].glue]
           n == Len(O)
<1>1. n \in Nat /\ DOMAIN O = 1..n
  OBVIOUS
<1>2. \A i \in DOMAIN O : O[i].glue \in S
  <2> TAKE i \in DOMAIN O
  <2>1. O[i] \in ObjectType
    BY <1>1, ElementOfSeq
  <2> QED
    BY <2>1 DEF ObjectType
<1> HIDE DEF S
<1>3. b \in [1..n -> S]
  BY <1>1, <1>2
<1>4. b \in Seq(S) /\ Len(b) = n
  <2> HIDE DEF b, n
  <2>1. b \in Seq(S)
    BY <1>1, <1>3
  <2> QED
    BY <1>1, <1>3, <2>1
<1>5. a \in Seq(S) /\ Len(a) = 3 /\ a[1] = D /\ a[2] = L /\ a[3] = F
  BY DEF S
<1> DEFINE Q == a \o b
<1>6. Len(Q) = 3 + n /\ Q \in Seq(S)
      /\ \A i \in 1..(3 + n) : Q[i] = IF i <= 3 THEN a[i] ELSE b[i - 3]
  <2> HIDE DEF a, b, n
  <2>1. a \in Seq(S) /\ b \in Seq(S)
    BY <1>4, <1>5
  <2>2. /\ a \o b \in Seq(S)
        /\ Len(a \o b) = Len(a) + Len(b)
        /\ \A i \in 1..(Len(a) + Len(b)) :
             (a \o b)[i] = IF i <= Len(a) THEN a[i] ELSE b[i - Len(a)]
    BY <2>1, ConcatProperties
  <2> QED
    BY <1>4, <1>5, <2>2
<1> HIDE DEF a, Q, n
<1>7. DOMAIN Q = 1..(3 + n)
  BY <1>1, <1>6
<1>8. DOMAIN Q = {1, 2, 3} \cup {i + 3 : i \in DOMAIN O}
  <2>1. 1..(3 + n) = {1, 2, 3} \cup {i + 3 : i \in 1..n}
    <3>1. ASSUME NEW k \in 1..(3 + n) PROVE k \in {1, 2, 3} \cup {i + 3 : i \in 1..n}
      <4>1. CASE k <= 3
        BY <1>1, <4>1
      <4>2. CASE k > 3
        <5>1. k - 3 \in 1..n /\ k = (k - 3) + 3
          BY <1>1, <4>2
        <5> QED
          BY <5>1
      <4> QED
        BY <1>1, <4>1, <4>2
    <3>2. ASSUME NEW k \in {1, 2, 3} \cup {i + 3 : i \in 1..n} PROVE k \in 1..(3 + n)
      BY <1>1
    <3> QED
      BY <3>1, <3>2
  <2> QED
    BY <1>1, <1>7, <2>1
<1>9. Q[1] = D /\ Q[2] = L /\ Q[3] = F
  <2>1. 1 \in 1..(3 + n) /\ 2 \in 1..(3 + n) /\ 3 \in 1..(3 + n)
    BY <1>1
  <2>2. \A i \in 1..(3 + n) : i <= 3 => Q[i] = a[i]
    BY <1>6
  <2>3. 1 <= 3 /\ 2 <= 3 /\ 3 <= 3
    OBVIOUS
  <2>4. Q[1] = a[1] /\ Q[2] = a[2] /\ Q[3] = a[3]
    BY <2>1, <2>2, <2>3
  <2> QED
    BY <1>5, <2>4
<1>10. ASSUME NEW i \in DOMAIN O PROVE Q[i + 3] = O[i].glue
  <2>1. i + 3 \in 1..(3 + n) /\ ~(i + 3 <= 3) /\ (i + 3) - 3 = i
    BY <1>1
  <2>2. Q[i + 3] = b[i]
    BY <1>6, <2>1
  <2> QED
    BY <2>2
<1>11. OwnersRow(D, L, F, O, Q)
  BY <1>8, <1>9, <1>10 DEF OwnersRow
<1> QED
  BY <1>11 DEF Q, a

\* What with_store is to free is in its locals and in the settings.
LEMMA PartsHeld ==
  ASSUME NEW H, NEW C, NEW O, NEW P, NEW L, NEW F, InOrder(H, C, O, P, L, F, <<>>)
  PROVE  Sound(H, C, O, L \o F, {}) /\ F \in Seq(Nat) /\ L \in Seq(Nat)
<1>1. Spent(<<>>) = {} /\ Held(P, L, F, <<>>) = Pending(P, L, F)
  BY NothingHeld DEF Spent, Held
<1>2. Sound(H, C, O, Pending(P, L, F), {}) /\ Building(H, P, L, F, <<>>)
  BY <1>1 DEF InOrder
<1>3. CASE P = "build"
  <2>1. Building(H, "path", L, F, <<>>)
    BY <1>2, <1>3 DEF Building
  <2> QED
    BY <1>2, <1>3, <2>1, BuildHolds DEF Building
<1>4. CASE P # "build"
  BY <1>2, <1>4 DEF Pending, Building
<1> QED
  BY <1>3, <1>4

\* Glue that is there once, and apart from the glue of objects.
Alone(g, C, O) == g \in Seq(Nat) /\ Once(g, C) /\ \A i \in DOMAIN O : Apart(g, O[i].glue, C)

\* Empty glue is apart from any.
LEMMA NothingAlone ==
  ASSUME NEW C, NEW O, NEW g
  PROVE  Alone(<<>>, C, O) /\ Apart(<<>>, g, C) /\ Apart(g, <<>>, C)
  BY DEF Alone, Once, Apart

\* A thread's own glue: what it drops, what with_store holds, and its settings.
LEMMA OwnGlue ==
  ASSUME NEW H, NEW C, NEW O, NEW P, NEW L, NEW F, NEW D, InOrder(H, C, O, P, L, F, D)
  PROVE  /\ Alone(D, C, O) /\ Alone(L, C, O) /\ Alone(F, C, O)
         /\ Apart(D, L, C) /\ Apart(D, F, C) /\ Apart(L, F, C)
         /\ \A h \in DOMAIN H \ C : H[h].live /\ H[h].kind \notin Unowned =>
              \/ InGlue(h, D) \/ InGlue(h, L) \/ InGlue(h, F)
              \/ \E i \in DOMAIN O : InGlue(h, O[i].glue)
<1>1. CASE D # <<>>
  <2>1. L = <<>> /\ F = <<>> /\ D \in Seq(Nat)
    BY <1>1, EmptySeq DEF InOrder, Building
  <2>2. Sound(H, C, O, D, Spent(D))
    BY <1>1 DEF InOrder, Held
  <2>3. Alone(D, C, O)
    BY <2>1, <2>2 DEF Sound, PartOK, GlueOK, Alone
  <2>4. /\ Alone(L, C, O) /\ Alone(F, C, O)
        /\ Apart(D, L, C) /\ Apart(D, F, C) /\ Apart(L, F, C)
    BY <2>1, NothingAlone
  <2>5. AllOwned(H, C, O, D)
    BY <2>2 DEF Sound
  <2> QED
    BY <2>3, <2>4, <2>5 DEF AllOwned
<1>2. CASE D = <<>>
  <2> DEFINE G == L \o F
  <2>1. Sound(H, C, O, G, {}) /\ F \in Seq(Nat) /\ L \in Seq(Nat)
    BY <1>2, PartsHeld
  <2>2. Joined(L, F, G)
    BY <2>1, JoinSeq
  <2> HIDE DEF G
  <2>3. Once(G, C) /\ AllOwned(H, C, O, G) /\ \A i \in DOMAIN O : Apart(G, O[i].glue, C)
    BY <2>1 DEF Sound, PartOK, GlueOK
  <2>4. Once(L, C) /\ Once(F, C) /\ Apart(L, F, C)
    BY <2>2, <2>3, JoinOnce
  <2>5. \A i \in DOMAIN O : Apart(L, O[i].glue, C) /\ Apart(F, O[i].glue, C)
    BY <2>2, <2>3, JoinAparts
  <2>6. Alone(L, C, O) /\ Alone(F, C, O)
    BY <2>1, <2>4, <2>5 DEF Alone
  <2>7. Alone(D, C, O) /\ Apart(D, L, C) /\ Apart(D, F, C)
    BY <1>2, NothingAlone
  <2>8. \A h : InGlue(h, G) <=> InGlue(h, L) \/ InGlue(h, F)
    BY <2>2, JoinHas
  <2> QED
    BY <2>3, <2>4, <2>6, <2>7, <2>8 DEF AllOwned
<1> QED
  BY <1>1, <1>2

\* Of all that owns handles, no two have one that is not a clone.
LEMMA OwnersApart ==
  ASSUME NEW H, NEW C, NEW O, NEW P, NEW L, NEW F, NEW D, InOrder(H, C, O, P, L, F, D),
         NEW Q, OwnersRow(D, L, F, O, Q)
  PROVE  /\ \A i \in DOMAIN Q : Q[i] \in Seq(Nat) /\ Once(Q[i], C)
         /\ \A i, j \in DOMAIN Q : i # j => Apart(Q[i], Q[j], C)
         /\ \A h \in DOMAIN H \ C : H[h].live /\ H[h].kind \notin Unowned =>
              \E i \in DOMAIN Q : InGlue(h, Q[i])
<1>1. O \in Seq(ObjectType) /\ \A i \in DOMAIN O : O[i].glue \in Seq(Nat) /\ Once(O[i].glue, C)
  BY DEF InOrder, Sound, PartOK, GlueOK
<1>2. \A i, j \in DOMAIN O : i # j => Apart(O[i].glue, O[j].glue, C)
  BY DEF InOrder, Sound
<1>3. /\ Alone(D, C, O) /\ Alone(L, C, O) /\ Alone(F, C, O)
      /\ Apart(D, L, C) /\ Apart(D, F, C) /\ Apart(L, F, C)
  BY OwnGlue
<1>4. /\ 1 \in DOMAIN Q /\ 2 \in DOMAIN Q /\ 3 \in DOMAIN Q
      /\ Q[1] = D /\ Q[2] = L /\ Q[3] = F
      /\ \A i \in DOMAIN O : i + 3 \in DOMAIN Q /\ Q[i + 3] = O[i].glue
      /\ \A k \in DOMAIN Q : k \in {1, 2, 3} \/ \E i \in DOMAIN O : k = i + 3
  BY DEF OwnersRow
<1>5. ASSUME NEW k \in DOMAIN Q PROVE Q[k] \in Seq(Nat) /\ Once(Q[k], C)
  <2>1. CASE k \in {1, 2, 3}
    BY <1>3, <1>4, <2>1 DEF Alone
  <2>2. CASE \E i \in DOMAIN O : k = i + 3
    BY <1>1, <1>4, <2>2
  <2> QED
    BY <1>4, <2>1, <2>2
<1>6. \A f, g : Apart(f, g, C) => Apart(g, f, C)
  BY DEF Apart
<1>7. ASSUME NEW k \in DOMAIN Q, NEW l \in DOMAIN Q, k # l PROVE Apart(Q[k], Q[l], C)
  <2>1. CASE k \in {1, 2, 3} /\ l \in {1, 2, 3}
    BY <1>3, <1>4, <1>6, <1>7, <2>1
  <2>2. ASSUME NEW j \in {1, 2, 3}, NEW i \in DOMAIN O
        PROVE  Apart(Q[j], Q[i + 3], C) /\ Apart(Q[i + 3], Q[j], C)
    <3>1. Apart(Q[j], O[i].glue, C)
      BY <1>3, <1>4 DEF Alone
    <3> QED
      BY <1>4, <1>6, <3>1
  <2>3. CASE k \in {1, 2, 3} /\ \E i \in DOMAIN O : l = i + 3
    BY <2>2, <2>3
  <2>4. CASE l \in {1, 2, 3} /\ \E i \in DOMAIN O : k = i + 3
    BY <2>2, <2>4
  <2>5. ASSUME NEW i \in DOMAIN O, NEW j \in DOMAIN O, k = i + 3, l = j + 3
        PROVE  Apart(Q[k], Q[l], C)
    <3>1. i # j
      BY <1>7, <2>5
    <3> QED
      BY <1>2, <1>4, <2>5, <3>1
  <2> QED
    BY <1>4, <2>1, <2>3, <2>4, <2>5
<1>8. ASSUME NEW h \in DOMAIN H \ C, H[h].live, H[h].kind \notin Unowned
      PROVE  \E i \in DOMAIN Q : InGlue(h, Q[i])
  <2>1. \/ InGlue(h, D) \/ InGlue(h, L) \/ InGlue(h, F)
        \/ \E i \in DOMAIN O : InGlue(h, O[i].glue)
    BY <1>8, OwnGlue
  <2> QED
    BY <1>4, <2>1
<1> QED
  BY <1>5, <1>7, <1>8

\* Every live handle has one owner at every moment of every construction, also
\* of one that fails half-way: never two that would free it, and never none but
\* for the kinds that flakes.rs does not free.
THEOREM OwnersAreUnique == Spec => []OneOwner
<1>1. ASSUME OInv PROVE OneOwner
  <2> SUFFICES ASSUME NEW t \in Threads, NEW h \in Handles(t) \ cloned[t], Live(t, h)
               PROVE  LET owners == {i \in DOMAIN Owners(t) : Owns(Owners(t)[i], h) > 0}
                      IN  /\ \A i \in owners : Owns(Owners(t)[i], h) = 1
                          /\ Cardinality(owners) <= 1
                          /\ heap[t][h].kind \notin {"parseflags", "settings", "ref"} => owners # {}
    BY DEF OneOwner
  <2> DEFINE H == heap[t]
             C == cloned[t]
             O == objs[t]
             Q == Owners(t)
             owners == {i \in DOMAIN Q : Owns(Q[i], h) > 0}
  <2>1. InOrder(H, C, O, pc[t], local[t], config[t].flakes, drops[t])
    BY <1>1 DEF OInv, Orderly
  <2>2. /\ O \in Seq(ObjectType) /\ drops[t] \in Seq(Nat) /\ local[t] \in Seq(Nat)
        /\ config[t].flakes \in Seq(Nat)
    BY <2>1 DEF InOrder, Building
  <2>3. OwnersRow(drops[t], local[t], config[t].flakes, O, Q)
    BY <2>2, OwnersInARow DEF Owners
  <2> HIDE DEF Q, O
  <2>4. /\ \A i \in DOMAIN Q : Q[i] \in Seq(Nat) /\ Once(Q[i], C)
        /\ \A i, j \in DOMAIN Q : i # j => Apart(Q[i], Q[j], C)
        /\ \A g \in DOMAIN H \ C : H[g].live /\ H[g].kind \notin Unowned =>
             \E i \in DOMAIN Q : InGlue(g, Q[i])
    BY <2>1, <2>3, OwnersApart
  <2>5. \A i \in DOMAIN Q : Owns(Q[i], h) \in {0, 1} /\ (Owns(Q[i], h) > 0 <=> InGlue(h, Q[i]))
    BY <2>4, OwnsAtMostOnce
  <2>6. \A i \in owners : Owns(Q[i], h) = 1
    BY <2>5
  <2>7. \A i, j \in owners : i = j
    <3> SUFFICES ASSUME NEW i \in DOMAIN Q, NEW j \in DOMAIN Q, InGlue(h, Q[i]), InGlue(h, Q[j]),
                        i # j
                 PROVE  FALSE
      BY <2>5
    <3> QED
      BY <2>4 DEF Apart, InGlue
  <2>8. Cardinality(owners) <= 1
    BY <2>7, AllTheSame
  <2>9. H[h].kind \notin {"parseflags", "settings", "ref"} => owners # {}
    <3> SUFFICES ASSUME H[h].kind \notin {"parseflags", "settings", "ref"} PROVE owners # {}
      OBVIOUS
    <3>1. h \in DOMAIN H \ C /\ H[h].live
      BY DEF Handles, Live
    <3>2. \E i \in DOMAIN Q : InGlue(h, Q[i])
      BY <2>4, <3>1 DEF Unowned
    <3> QED
      BY <2>5, <3>2
  <2> QED
    BY <2>6, <2>8, <2>9 DEF Q
<1> QED
  BY <1>1, OwnsAlways, PTL

----------------------------------------------------------------------------
(* Types.                                                                  *)

\* Settings are asked for in with_store only, and creations are counted.
Counted ==
  /\ ops \in [Threads -> [Creations -> Nat]]
  /\ \A t \in Threads : pc[t] = "idle" => config[t].asked = <<>>

\* A count goes up by one.
LEMMA CountStep ==
  ASSUME ops \in [Threads -> [Creations -> Nat]],
         NEW t \in Threads, NEW c \in Creations, Count(t, c)
  PROVE  ops' \in [Threads -> [Creations -> Nat]]
<1>1. ops[t] \in [Creations -> Nat]
  OBVIOUS
<1>2. ops[t][c] + 1 \in Nat
  BY <1>1
<1> DEFINE f == [ops[t] EXCEPT ![c] = ops[t][c] + 1]
<1>3. f \in [Creations -> Nat]
  BY <1>1, <1>2
<1>4. ops' = [ops EXCEPT ![t] = f]
  BY DEF Count
<1> HIDE DEF f
<1> QED
  BY <1>3, <1>4

\* Steps that leave pc and the settings asked for alone.
LEMMA CountedAlone ==
  ASSUME Counted, UNCHANGED <<pc, config>>,
         UNCHANGED ops \/ \E t \in Threads, c \in Creations : Count(t, c)
  PROVE  Counted'
  BY CountStep DEF Counted

\* A step of with_store to another place.
LEMMA CountedGoto ==
  ASSUME Counted, IInv, NEW t \in Threads, NEW p, NEW q, q # "idle", Goto(t, p, q),
         UNCHANGED config
  PROVE  Counted'
  BY DEF Counted, IInv, TInv, Goto

\* Operations on flakes count what they create.
LEMMA CountedFlakes ==
  ASSUME Counted, NEW t \in Threads, FlakeStep(t) PROVE Counted'
<1>1. UNCHANGED building
  BY DEF FlakeStep, NewFlakes, NewFlakesFails, CloneFlakes, NewRefSettings, RefSettings, Parse,
         ParseFails, NewLockFlags, DropObject, UseFreed, Lock, LockFails, Operation
<1>2. UNCHANGED ops \/ \E c \in Creations : Count(t, c)
  BY DEF FlakeStep, NewFlakes, NewFlakesFails, CloneFlakes, NewRefSettings, RefSettings, Parse,
         ParseFails, NewLockFlags, DropObject, UseFreed, Lock, LockFails, Creations
<1>3. UNCHANGED <<pc, config>>
  BY <1>1 DEF building
<1> QED
  BY <1>2, <1>3, CountedAlone

\* So does with_store when it begins, with what it is asked for.
LEMMA CountedStart ==
  ASSUME Counted, IInv, NEW t \in Threads, NEW asked, NEW flakes, NEW rest,
         Start(t, asked, flakes, rest)
  PROVE  Counted'
<1>1. Count(t, "evaluator") /\ "evaluator" \in Creations
  BY DEF Start, Creations
<1>2. ops' \in [Threads -> [Creations -> Nat]]
  BY <1>1, CountStep DEF Counted
<1>3. pc' = [pc EXCEPT ![t] = "stack"] /\ pc \in [Threads -> Places]
  BY DEF Start, IInv, TInv
<1>4. \A u \in Threads \ {t} : config'[u] = config[u]
  BY DEF Start, IInv, TInv
<1> QED
  BY <1>2, <1>3, <1>4 DEF Counted

\* When it leaves, nothing is asked for any more.
LEMMA CountedLeave ==
  ASSUME Counted, IInv, NEW t \in Threads, Leave(t), pc' = [pc EXCEPT ![t] = "idle"],
         UNCHANGED ops
  PROVE  Counted'
  BY DEF Counted, IInv, TInv, Leave, NoConfig

\* So every step of with_store counts,
LEMMA CountedBuilds ==
  ASSUME Counted, IInv, NEW t \in Threads, BuildStep(t) PROVE Counted'
<1>1. ASSUME NEW asked \in Asks, StartPlain(t, asked) PROVE Counted'
  BY <1>1, CountedStart DEF StartPlain
<1>2. ASSUME NEW asked \in Asks, NEW i \in DOMAIN objs[t], StartWithFlakes(t, asked, i)
      PROVE  Counted'
  BY <1>2, CountedStart DEF StartWithFlakes
<1>3. CASE SetStack(t) \/ OpenStore(t) \/ NewBuilder(t)
  BY <1>3, CountedGoto DEF SetStack, OpenStore, NewBuilder
<1>4. CASE AddFlakes(t) \/ LoadSettings(t) \/ SetLookupPath(t)
  BY <1>4, CountedGoto DEF AddFlakes, LoadSettings, SetLookupPath
<1>5. CASE AddFreedFlakes(t) \/ \E k \in Keys : SetOption(t, k)
  BY <1>5, CountedAlone DEF AddFreedFlakes, SetOption, building
<1>6. CASE Build(t) \/ Fail(t)
  BY <1>6, CountedLeave DEF Build, Fail, Goto
<1> QED
  BY <1>1, <1>2, <1>3, <1>4, <1>5, <1>6 DEF BuildStep

\* and every step of all threads.
LEMMA CountedStep == Counted /\ IInv /\ [Next]_vars => Counted'
<1> SUFFICES ASSUME Counted, IInv, [Next]_vars PROVE Counted'
  OBVIOUS
<1>1. ASSUME NEW t \in Threads, FlakeStep(t) PROVE Counted'
  BY <1>1, CountedFlakes
<1>2. ASSUME NEW t \in Threads, BuildStep(t) PROVE Counted'
  BY <1>2, CountedBuilds
<1>3. ASSUME NEW t \in Threads, Free(t) \/ FreeAgain(t) PROVE Counted'
  BY <1>3, CountedAlone DEF Free, FreeAgain, building
<1>4. CASE Rest \/ UNCHANGED vars
  BY <1>4, CountedAlone DEF Rest, vars, building
<1> QED
  BY <1>1, <1>2, <1>3, <1>4 DEF Next

\* A sequence of members of S.
LEMMA SeqWithin ==
  ASSUME NEW g \in Seq(Nat), NEW S, \A k \in DOMAIN g : g[k] \in S PROVE g \in Seq(S)
<1> DEFINE n == Len(g)
<1>1. n \in Nat /\ g \in [1..n -> S]
  <2>1. n \in Nat /\ DOMAIN g = 1..n /\ g = [k \in 1..n |-> g[k]]
    OBVIOUS
  <2> HIDE DEF n
  <2> QED
    BY <2>1
<1> HIDE DEF n
<1> QED
  BY <1>1

\* The types of what one thread has.
LEMMA OrderedTypes ==
  ASSUME NEW H, NEW C, NEW O, NEW P, NEW L, NEW F, NEW D, InOrder(H, C, O, P, L, F, D)
  PROVE  /\ F \in Seq(DOMAIN H) /\ D \in Seq(DOMAIN H)
         /\ Len(L) = CASE P \in {"idle", "stack", "store"} -> 0 [] P = "builder" -> 1 [] OTHER -> 2
         /\ \A h \in DOMAIN H : H[h].uses \subseteq DOMAIN H
         /\ \A i \in DOMAIN O : O[i].glue \in Seq(DOMAIN H)
<1>1. Building(H, P, L, F, D) /\ Sound(H, C, O, Held(P, L, F, D), Spent(D))
  BY DEF InOrder
<1>2. F \in Seq(DOMAIN H)
  BY <1>1, SeqWithin DEF Building
<1>3. D \in Seq(DOMAIN H)
  <2>1. CASE D = <<>>
    BY <2>1
  <2>2. CASE D # <<>>
    <3>1. D \in Seq(Nat) /\ \A k \in DOMAIN D : D[k] \in DOMAIN H
      BY <1>1, <2>2 DEF Held, Sound, PartOK, GlueOK
    <3> QED
      BY <3>1, SeqWithin
  <2> QED
    BY <2>1, <2>2
<1>4. Len(L) = CASE P \in {"idle", "stack", "store"} -> 0 [] P = "builder" -> 1 [] OTHER -> 2
  BY <1>1 DEF Building
<1>5. \A h \in DOMAIN H : H[h].uses \subseteq DOMAIN H
  BY <1>1 DEF Sound, HandlesOK
<1>6. ASSUME NEW i \in DOMAIN O PROVE O[i].glue \in Seq(DOMAIN H)
  <2>1. O[i].glue \in Seq(Nat) /\ \A k \in DOMAIN O[i].glue : O[i].glue[k] \in DOMAIN H
    BY <1>1 DEF Sound, PartOK, GlueOK
  <2> DEFINE g == O[i].glue
  <2>2. g \in Seq(Nat) /\ \A k \in DOMAIN g : g[k] \in DOMAIN H
    BY <2>1
  <2> HIDE DEF g
  <2>3. g \in Seq(DOMAIN H)
    BY <2>2, SeqWithin
  <2> QED
    BY <2>3 DEF g
<1> QED
  BY <1>2, <1>3, <1>4, <1>5, <1>6

\* Every variable has its type, and glue and the local variables of with_store
\* name handles that its thread has got.
THEOREM TypeCorrect == Spec => []TypeOK
<1>1. Init => OInv /\ Counted
  BY OwnsAtStart DEF Init, Counted, NoConfig
<1>2. OInv /\ Counted /\ [Next]_vars => OInv' /\ Counted'
  BY OwnsStep, CountedStep DEF OInv
<1>3. ASSUME OInv, Counted PROVE TypeOK
  <2>1. TInv
    BY <1>3 DEF OInv, IInv
  <2>2. ASSUME NEW t \in Threads
        PROVE  /\ config[t].flakes \in Seq(Handles(t)) /\ drops[t] \in Seq(Handles(t))
               /\ Len(local[t]) = CASE pc[t] \in {"idle", "stack", "store"} -> 0
                                    [] pc[t] = "builder" -> 1
                                    [] OTHER -> 2
               /\ \A h \in Handles(t) : heap[t][h].uses \subseteq Handles(t)
               /\ \A i \in DOMAIN objs[t] : objs[t][i].glue \in Seq(Handles(t))
    BY <1>3, OrderedTypes DEF OInv, Orderly, Handles
  <2>3. ASSUME NEW t \in Threads
        PROVE  /\ pc[t] \in {"idle", "stack", "store", "builder", "flakes", "options", "path",
                            "build"}
               /\ config[t].asked \in Asks \cup {<<>>}
               /\ todo[t] \subseteq Keys /\ loaded[t] \in Settings /\ raced[t] \subseteq Keys
    <3>1. config[t].asked \in Asks \cup {<<>>}
      BY <1>3, <2>1 DEF TInv, Counted
    <3>2. todo[t] \in SUBSET Keys /\ raced[t] \in SUBSET Keys /\ loaded[t] \in Settings
      BY <2>1 DEF TInv
    <3>3. pc[t] \in Places
      BY <2>1 DEF TInv
    <3> QED
      BY <3>1, <3>2, <3>3 DEF Places
  <2>4. options \in Settings /\ ops \in [Threads -> [Creations -> Nat]]
    BY <1>3, <2>1 DEF TInv, Counted
  <2> QED
    BY <2>2, <2>3, <2>4 DEF TypeOK
<1> QED
  BY <1>1, <1>2, <1>3, PTL DEF Spec
=============================================================================
