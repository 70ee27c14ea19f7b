-------------------------- MODULE DockerCommand_proofs --------------------------
(***************************************************************************)
(* The commands the builders compile, for any number of calls and any      *)
(* words that are no flags of docker.                                      *)
(*                                                                         *)
(* Docker reads a command argument by argument, so what it makes of a list *)
(* is stated as a relation: Folds(t, s, u) says that reading the list s    *)
(* takes it from t to u.  The relation composes over concatenation, and    *)
(* each list of a builder holds the flags of its own only; what a list     *)
(* means is therefore independent of the others and of their order.        *)
(***************************************************************************)
EXTENDS DockerCommand, SequenceTheorems, WellFoundedInduction, TLAPS

\* What callers pass is not taken for a flag
WordsAreNoFlags == Words \cap Flags = {}

Slots == Flags \cup Operands
Args  == Seq(Texts)

LEMMA FlagFacts ==
  /\ \A f \in Flags : f \in Texts /\ f # "" /\ f # "image" /\ f # "args"
  /\ \A f \in Spaced : f \notin Bare /\ f \notin Joined
  /\ \A f \in Bare : f \notin Joined
<1>1. \A f \in Flags : f \in Texts /\ f # "" /\ f # "image" /\ f # "args"
  BY DEF Flags, Bare, Spaced, Joined, Texts
<1>2. \A f \in Spaced : f \notin Bare
  BY DEF Bare, Spaced
<1>3. \A f \in Spaced : f \notin Joined
  BY DEF Spaced, Joined
<1>4. \A f \in Bare : f \notin Joined
  BY DEF Bare, Joined
<1> QED BY <1>1, <1>2, <1>3, <1>4

LEMMA Pair ==
  ASSUME NEW S, NEW a \in S, NEW b \in S
  PROVE  /\ <<a>> \in Seq(S) /\ <<b>> \in Seq(S) /\ <<a, b>> \in Seq(S)
         /\ <<a>> \o <<b>> = <<a, b>>
<1> DEFINE c == <<a>> \o <<b>>
           d == <<a, b>>
<1>1. c \in Seq(S) /\ Len(c) = 2 /\ c[1] = a /\ c[2] = b
  OBVIOUS
<1>2. d \in Seq(S) /\ Len(d) = 2 /\ d[1] = a /\ d[2] = b
  OBVIOUS
<1>3. <<a>> \in Seq(S) /\ <<b>> \in Seq(S)
  OBVIOUS
<1> HIDE DEF c, d
<1>4. \A i \in 1..Len(c) : c[i] = d[i]
  BY <1>1, <1>2
<1>5. c = d
  BY <1>1, <1>2, <1>4, SeqEqual
<1> QED BY <1>2, <1>3, <1>5 DEF c, d

LEMMA Triple ==
  ASSUME NEW S, NEW a \in S, NEW b \in S, NEW c \in S
  PROVE  /\ <<a, b, c>> \in Seq(S)
         /\ (<<a>> \o <<b>>) \o <<c>> = <<a, b, c>>
<1> DEFINE x == <<a, b>> \o <<c>>
           y == <<a, b, c>>
<1>1. x \in Seq(S) /\ Len(x) = 3 /\ x[1] = a /\ x[2] = b /\ x[3] = c
  OBVIOUS
<1>2. y \in Seq(S) /\ Len(y) = 3 /\ y[1] = a /\ y[2] = b /\ y[3] = c
  OBVIOUS
<1> HIDE DEF x, y
<1>3. \A i \in 1..Len(x) : x[i] = y[i]
  BY <1>1, <1>2
<1>4. x = y
  BY <1>1, <1>2, <1>3, SeqEqual
<1> QED BY <1>2, <1>4, Pair DEF x, y

LEMMA Quadruple ==
  ASSUME NEW S, NEW a \in S, NEW b \in S, NEW c \in S, NEW d \in S
  PROVE  /\ <<a, b, c, d>> \in Seq(S)
         /\ ((<<a>> \o <<b>>) \o <<c>>) \o <<d>> = <<a, b, c, d>>
<1> DEFINE x == <<a, b, c>> \o <<d>>
           y == <<a, b, c, d>>
<1>1. x \in Seq(S) /\ Len(x) = 4 /\ x[1] = a /\ x[2] = b /\ x[3] = c /\ x[4] = d
  OBVIOUS
<1>2. y \in Seq(S) /\ Len(y) = 4 /\ y[1] = a /\ y[2] = b /\ y[3] = c /\ y[4] = d
  OBVIOUS
<1> HIDE DEF x, y
<1>3. \A i \in 1..Len(x) : x[i] = y[i]
  BY <1>1, <1>2
<1>4. x = y
  BY <1>1, <1>2, <1>3, SeqEqual
<1> QED BY <1>2, <1>4, Triple DEF x, y

--------------------------------------------------------------------------------
(* Reading a list of arguments *)

Folds(t, s, u) ==
  \E g : /\ g[0] = t
         /\ \A i \in 1..Len(s) : g[i] = Take(g[i - 1], s[i])
         /\ g[Len(s)] = u

Rd(w) == [f |-> "", values |-> w]

LEMMA FoldsNone == \A t : Folds(t, <<>>, t)
<1> TAKE t
<1> DEFINE g == [i \in 0..0 |-> t]
<1>1. g[0] = t /\ (\A i \in 1..Len(<<>>) : g[i] = Take(g[i - 1], <<>>[i])) /\ g[Len(<<>>)] = t
  OBVIOUS
<1> QED BY <1>1 DEF Folds

LEMMA FoldsOne ==
  ASSUME NEW t, NEW a
  PROVE  Folds(t, <<a>>, Take(t, a))
<1> DEFINE b == Take(t, a)
<1> HIDE DEF b
<1> DEFINE g == [i \in 0..1 |-> IF i = 0 THEN t ELSE b]
<1>1. g[0] = t /\ g[1] = b /\ Len(<<a>>) = 1 /\ <<a>>[1] = a
  OBVIOUS
<1>2. \A i \in 1..Len(<<a>>) : i = 1
  OBVIOUS
<1>3. \A i \in 1..Len(<<a>>) : g[i] = Take(g[i - 1], <<a>>[i])
  <2> TAKE i \in 1..Len(<<a>>)
  <2>1. i = 1 /\ i - 1 = 0
    BY <1>2
  <2> HIDE DEF g
  <2> QED BY <1>1, <2>1 DEF b
<1> HIDE DEF g
<1> QED BY <1>1, <1>3 DEF Folds, b

LEMMA FoldsBoth ==
  ASSUME NEW s \in Seq(Args), NEW t \in Seq(Args), NEW a, NEW b, NEW c,
         Folds(a, s, b), Folds(b, t, c)
  PROVE  Folds(a, s \o t, c)
<1>1. PICK g : g[0] = a /\ (\A i \in 1..Len(s) : g[i] = Take(g[i - 1], s[i])) /\ g[Len(s)] = b
  BY DEF Folds
<1>2. PICK h : h[0] = b /\ (\A i \in 1..Len(t) : h[i] = Take(h[i - 1], t[i])) /\ h[Len(t)] = c
  BY DEF Folds
<1> DEFINE m == Len(s)
           n == Len(t)
           f == [i \in 0..(m + n) |-> IF i <= m THEN g[i] ELSE h[i - m]]
<1>3. m \in Nat /\ n \in Nat /\ Len(s \o t) = m + n
  OBVIOUS
<1>4. f[0] = a
  BY <1>1, <1>3
<1>5. f[m + n] = c
  <2>1. CASE n = 0
    BY <1>1, <1>2, <1>3, <2>1
  <2>2. CASE n # 0
    BY <1>2, <1>3, <2>2
  <2> QED BY <2>1, <2>2
<1>6. \A i \in 1..(m + n) : f[i] = Take(f[i - 1], (s \o t)[i])
  <2> TAKE i \in 1..(m + n)
  <2>1. CASE i <= m
    <3>1. f[i] = g[i] /\ f[i - 1] = g[i - 1] /\ (s \o t)[i] = s[i]
      BY <1>3, <2>1
    <3> QED BY <1>1, <1>3, <2>1, <3>1
  <2>2. CASE ~(i <= m)
    <3>1. f[i] = h[i - m] /\ (s \o t)[i] = t[i - m] /\ i - m \in 1..n
      BY <1>3, <2>2
    <3>2. f[i - 1] = h[(i - m) - 1]
      <4>1. CASE i - 1 = m
        BY <1>1, <1>2, <1>3, <4>1
      <4>2. CASE i - 1 # m
        BY <1>3, <2>2, <4>2
      <4> QED BY <4>1, <4>2
    <3> HIDE DEF f
    <3> QED BY <1>2, <3>1, <3>2
  <2> QED BY <2>1, <2>2
<1> HIDE DEF f
<1> QED BY <1>3, <1>4, <1>5, <1>6 DEF Folds

LEMMA Least ==
  ASSUME NEW S, S \subseteq Nat, S # {}
  PROVE  \E n \in S : \A m \in S : n <= m
<1> DEFINE R == OpToRel(<, Nat)
<1>1. IsWellFoundedOn(R, Nat)
  BY NatLessThanWellFounded
<1>2. \A m, n \in Nat : m < n => <<m, n>> \in R
  BY DEF OpToRel
<1> HIDE DEF R
<1>3. PICK n \in S : \A m \in S : ~(<<m, n>> \in R)
  BY <1>1, WFMin
<1>4. ASSUME NEW m \in S
      PROVE  n <= m
  <2>1. m \in Nat /\ n \in Nat
    OBVIOUS
  <2>2. ~(m < n)
    BY <1>2, <1>3, <2>1, Zenon
  <2> QED BY <2>1, <2>2
<1> QED BY <1>4

LEMMA SetInduction ==
  ASSUME NEW S, 0 \in S, \A n \in Nat : n \in S => n + 1 \in S
  PROVE  Nat \subseteq S
<1> SUFFICES ASSUME Nat \ S # {}
             PROVE  FALSE
  OBVIOUS
<1>1. PICK n \in Nat \ S : \A m \in Nat \ S : n <= m
  <2>1. Nat \ S \subseteq Nat
    OBVIOUS
  <2> QED BY <2>1, Least
<1>2. n # 0 /\ n - 1 \in Nat \ S /\ ~(n <= n - 1)
  OBVIOUS
<1> QED BY <1>1, <1>2

(***************************************************************************)
(* Docker ends where the arguments take it.                                *)
(***************************************************************************)
LEMMA ReadIs ==
  ASSUME NEW c \in Seq(Args), NEW u, Folds(Rd(Nothing), SubSeq(c, 3, Len(c)), u)
  PROVE  Read(c) = u.values
<1> DEFINE s == SubSeq(c, 3, Len(c))
           n == Len(s)
           t == Rd(Nothing)
           D(f) == [i \in 0..n |-> IF i = 0 THEN t ELSE Take(f[i - 1], s[i])]
           reader == CHOOSE f : f = D(f)
<1>1. n \in Nat
  <2>1. s \in Seq(Args)
    OBVIOUS
  <2> QED BY <2>1
<1>2. PICK g : g[0] = t /\ (\A i \in 1..n : g[i] = Take(g[i - 1], s[i])) /\ g[n] = u
  BY DEF Folds
<1> HIDE DEF t, s, n
<1>3. \E f : f = D(f)
  <2> DEFINE f == [i \in 0..n |-> g[i]]
  <2>1. \A i \in 0..n : f[i] = D(f)[i]
    <3> TAKE i \in 0..n
    <3>1. CASE i = 0
      BY <1>2, <3>1
    <3>2. CASE i # 0
      <4>1. i \in 1..n /\ i - 1 \in 0..n
        BY <1>1, <3>2
      <4> QED BY <1>2, <3>2, <4>1
    <3> QED BY <3>1, <3>2
  <2>2. f = D(f)
    BY <2>1
  <2> QED BY <2>2
<1>4. reader = D(reader)
  BY <1>3
<1> DEFINE S == {i \in Nat : i <= n => reader[i] = g[i]}
<1>5. 0 \in S
  <2> HIDE DEF reader
  <2>1. reader[0] = t
    BY <1>1, <1>4
  <2> QED BY <1>2, <2>1
<1>6. ASSUME NEW i \in Nat, i \in S
      PROVE  i + 1 \in S
  <2> HIDE DEF reader
  <2> SUFFICES ASSUME i + 1 <= n
               PROVE  reader[i + 1] = g[i + 1]
    OBVIOUS
  <2>1. i + 1 \in 0..n /\ i + 1 \in 1..n /\ i + 1 # 0 /\ (i + 1) - 1 = i
    BY <1>1
  <2>2. reader[i] = g[i]
    <3>1. i <= n
      BY <1>1
    <3> QED BY <1>6, <3>1
  <2>3. reader[i + 1] = Take(reader[i], s[i + 1])
    BY <1>4, <2>1
  <2> QED BY <1>2, <2>1, <2>2, <2>3
<1>7. reader[n] = u
  <2>1. n \in S
    <3> HIDE DEF S
    <3> QED BY <1>1, <1>5, <1>6, SetInduction
  <2> QED BY <1>1, <1>2, <2>1
<1> QED BY <1>7 DEF Read, Rd, t, s, n

--------------------------------------------------------------------------------
(* What a list means, whatever has been read before it *)

LEMMA TextFacts ==
  /\ Flags \subseteq Texts /\ Words \subseteq Texts
  /\ "docker" \in Texts /\ "run" \in Texts /\ "build" \in Texts
  /\ "json-file" \in Texts /\ "max-size" \in Texts /\ "max-file" \in Texts
BY DEF Texts

\* docker has read flags only
Plain(m) == m = [k \in Slots |-> m[k]] /\ m["image"] = <<>>

\* the arguments x give flag f the value v
Puts(x, f, v) == \A m : Plain(m) => Folds(Rd(m), x, Rd(Want(m, f, v)))

LEMMA WantFacts ==
  ASSUME NEW w, w = [k \in Slots |-> w[k]], NEW f \in Flags, NEW v
  PROVE  /\ Want(w, f, v) = [k \in Slots |-> Want(w, f, v)[k]]
         /\ \A k \in Slots : k # f => Want(w, f, v)[k] = w[k]
         /\ Want(w, f, v)[f] = (w[f] \ Override(f, w[f], v)) \cup {v}
<1>1. f \in Slots
  BY DEF Slots
<1> DEFINE new == (w[f] \ Override(f, w[f], v)) \cup {v}
<1> HIDE DEF new
<1>2. Want(w, f, v) = [w EXCEPT ![f] = new]
  BY DEF Want, new
<1> QED BY <1>1, <1>2 DEF new

LEMMA TakeFlag ==
  ASSUME NEW m, Plain(m), NEW a, a[1] \in Flags
  PROVE  Take(Rd(m), a) = IF a[1] \in Spaced THEN [f |-> a[1], values |-> m]
                          ELSE Rd(Want(m, a[1], Tail(a)))
BY DEF Take, Rd, Plain

LEMMA TakeValue ==
  ASSUME NEW m, Plain(m), NEW f \in Flags, NEW v
  PROVE  Take([f |-> f, values |-> m], v) = Rd(Want(m, f, v))
BY FlagFacts DEF Take, Rd, Plain

LEMMA SpacedPuts ==
  ASSUME NEW f \in Spaced, NEW v \in Args
  PROVE  Puts(<<<<f>>, v>>, f, v)
<1> SUFFICES ASSUME NEW m, Plain(m)
             PROVE  Folds(Rd(m), <<<<f>>, v>>, Rd(Want(m, f, v)))
  BY DEF Puts
<1>1. f \in Flags
  BY DEF Flags
<1>2. <<f>> \in Args
  BY <1>1, TextFacts DEF Args
<1> DEFINE t == [f |-> f, values |-> m]
           a == <<f>>
<1>3. a[1] = f
  OBVIOUS
<1>4. Take(Rd(m), a) = t
  <2> HIDE DEF a
  <2> QED BY <1>1, <1>3, TakeFlag
<1>5. Take(t, v) = Rd(Want(m, f, v))
  BY <1>1, TakeValue
<1> HIDE DEF t, a
<1>6. Folds(Rd(m), <<a>>, t)
  BY <1>4, FoldsOne
<1>7. Folds(t, <<v>>, Rd(Want(m, f, v)))
  BY <1>5, FoldsOne
<1>8. <<a>> \in Seq(Args) /\ <<v>> \in Seq(Args) /\ <<a>> \o <<v>> = <<a, v>>
  <2>1. a \in Args
    BY <1>2 DEF a
  <2> QED BY <2>1, Pair
<1>9. Folds(Rd(m), <<a>> \o <<v>>, Rd(Want(m, f, v)))
  BY <1>6, <1>7, <1>8, FoldsBoth
<1> QED BY <1>8, <1>9 DEF a

LEMMA SinglePuts ==
  ASSUME NEW a, a[1] \in Joined \cup Bare
  PROVE  Puts(<<a>>, a[1], Tail(a))
<1> SUFFICES ASSUME NEW m, Plain(m)
             PROVE  Folds(Rd(m), <<a>>, Rd(Want(m, a[1], Tail(a))))
  BY DEF Puts
<1>1. a[1] \in Flags /\ a[1] \notin Spaced
  BY FlagFacts DEF Flags
<1>2. Take(Rd(m), a) = Rd(Want(m, a[1], Tail(a)))
  BY <1>1, TakeFlag
<1> QED BY <1>2, FoldsOne

\* Nothing yet of the flags S, and what is asked of them
Before(w, S)      == Plain(w) /\ \A f \in S : w[f] = {}
Merge(w, S, want) == [k \in Slots |-> IF k \in S THEN want[k] ELSE w[k]]

\* the list s says what is asked of the flags S, and nothing else
Means(s, S, want) == \A w : Before(w, S) => Folds(Rd(w), s, Rd(Merge(w, S, want)))

LEMMA MergePlain ==
  ASSUME NEW w, Plain(w), NEW S, S \subseteq Flags, NEW want
  PROVE  Plain(Merge(w, S, want))
<1>1. "image" \in Slots /\ "image" \notin S
  BY FlagFacts DEF Slots, Operands
<1> QED BY <1>1 DEF Plain, Merge

LEMMA MeansMore ==
  ASSUME NEW s \in Seq(Args), NEW x \in Seq(Args), NEW S, S \subseteq Flags,
         NEW want, want = [k \in Slots |-> want[k]],
         NEW f \in S, NEW v, Means(s, S, want), Puts(x, f, v)
  PROVE  Means(s \o x, S, Want(want, f, v))
<1> SUFFICES ASSUME NEW w, Before(w, S)
             PROVE  Folds(Rd(w), s \o x, Rd(Merge(w, S, Want(want, f, v))))
  BY DEF Means
<1> DEFINE m == Merge(w, S, want)
<1>1. Plain(m) /\ m = [k \in Slots |-> m[k]]
  BY MergePlain DEF Before, Plain
<1>2. Folds(Rd(w), s, Rd(m)) /\ Folds(Rd(m), x, Rd(Want(m, f, v)))
  BY <1>1 DEF Means, Puts
<1>3. Want(m, f, v) = Merge(w, S, Want(want, f, v))
  <2>1. f \in Flags /\ f \in Slots /\ S \subseteq Slots
    BY DEF Slots
  <2>2. \A k \in Slots : m[k] = IF k \in S THEN want[k] ELSE w[k]
    BY DEF Merge
  <2> HIDE DEF m
  <2>3. \A k \in Slots : Want(m, f, v)[k] = IF k \in S THEN Want(want, f, v)[k] ELSE w[k]
    <3>1. /\ \A k \in Slots : k # f => Want(m, f, v)[k] = m[k]
          /\ Want(m, f, v)[f] = (m[f] \ Override(f, m[f], v)) \cup {v}
      BY <1>1, <2>1, WantFacts
    <3>2. /\ \A k \in Slots : k # f => Want(want, f, v)[k] = want[k]
          /\ Want(want, f, v)[f] = (want[f] \ Override(f, want[f], v)) \cup {v}
      BY <2>1, WantFacts
    <3>3. m[f] = want[f]
      BY <2>1, <2>2
    <3> QED BY <2>2, <3>1, <3>2, <3>3
  <2>4. Want(m, f, v) = [k \in Slots |-> Want(m, f, v)[k]]
    BY <1>1, <2>1, WantFacts
  <2> QED BY <2>3, <2>4 DEF Merge
<1> QED BY <1>2, <1>3, FoldsBoth

LEMMA MeansStill ==
  ASSUME NEW s, NEW S, S \subseteq Flags, NEW want, want = [k \in Slots |-> want[k]],
         NEW f \in Flags, f \notin S, NEW v, Means(s, S, want)
  PROVE  Means(s, S, Want(want, f, v))
<1>1. \A w : Merge(w, S, Want(want, f, v)) = Merge(w, S, want)
  <2> TAKE w
  <2>1. \A k \in S : Want(want, f, v)[k] = want[k]
    BY WantFacts DEF Slots
  <2> QED BY <2>1 DEF Merge
<1> QED BY <1>1 DEF Means

--------------------------------------------------------------------------------
(* The invariant *)

\* the lists of flags, and the flags each of them holds
Lists == {"base", "options", "tags", "labels", "build_args", "ports", "env_vars", "volumes"}

ListsOf(k) == IF k = "run" THEN {"base", "options", "ports", "env_vars", "volumes"}
              ELSE {"base", "options", "tags", "labels", "build_args"}

FlagsOf(p) ==
  CASE p = "base"       -> {"-f"}
    [] p = "options"    -> Bare \cup Joined \cup {"--name", "--restart"}
    [] p = "tags"       -> {"-t"}
    [] p = "labels"     -> {"--label"}
    [] p = "build_args" -> {"--build-arg"}
    [] p = "ports"      -> {"-p"}
    [] p = "env_vars"   -> {"-e"}
    [] p = "volumes"    -> {"-v"}

LEMMA ListFacts ==
  /\ Lists \subseteq Parts
  /\ \A k : ListsOf(k) \subseteq Lists
  /\ \A p \in Lists : FlagsOf(p) \subseteq Flags
  /\ \A p, q \in Lists : p # q => FlagsOf(p) \cap FlagsOf(q) = {}
  /\ \A p \in Lists : p # "options" => FlagsOf(p) \cap Bare = {}
  /\ Bare \subseteq FlagsOf("options")
  /\ \A f \in Flags : \E p \in Lists : f \in FlagsOf(p)
<1>1. Lists \subseteq Parts /\ \A k : ListsOf(k) \subseteq Lists
  BY DEF Lists, Parts, ListsOf
<1>2. \A p \in Lists : FlagsOf(p) \subseteq Flags
  BY DEF Lists, FlagsOf, Flags, Spaced
<1>3. Bare \subseteq FlagsOf("options")
  BY DEF FlagsOf
<1>4. \A p \in Lists \ {"options"} : \E f \in Spaced : FlagsOf(p) = {f} /\ f # "--name" /\ f # "--restart"
  BY DEF Lists, FlagsOf, Spaced
<1>5. \A p, q \in Lists \ {"options"} : p # q => FlagsOf(p) \cap FlagsOf(q) = {}
  BY DEF Lists, FlagsOf
<1>6. \A p \in Lists \ {"options"} : FlagsOf(p) \cap FlagsOf("options") = {}
  <2> TAKE p \in Lists \ {"options"}
  <2>1. PICK f \in Spaced : FlagsOf(p) = {f} /\ f # "--name" /\ f # "--restart"
    BY <1>4
  <2>2. FlagsOf("options") = Bare \cup Joined \cup {"--name", "--restart"}
    BY DEF FlagsOf
  <2> QED BY <2>1, <2>2, FlagFacts
<1>7. \A p \in Lists : p # "options" => FlagsOf(p) \cap Bare = {}
  BY <1>3, <1>6
<1>8. \A p, q \in Lists : p # q => FlagsOf(p) \cap FlagsOf(q) = {}
  BY <1>5, <1>6
<1>9. \A f \in Flags : \E p \in Lists : f \in FlagsOf(p)
  <2>1. \A f \in Spaced : \E p \in Lists : f \in FlagsOf(p)
    BY DEF Spaced, Lists, FlagsOf
  <2>2. Bare \cup Joined \subseteq FlagsOf("options") /\ "options" \in Lists
    BY DEF Lists, FlagsOf
  <2> QED BY <2>1, <2>2 DEF Flags
<1> QED BY <1>1, <1>2, <1>3, <1>7, <1>8, <1>9

\* the flags in list p: the base starts with docker run or docker build
Body(ps, p) == IF p = "base" THEN SubSeq(ps[p], 3, Len(ps[p])) ELSE ps[p]

ArgLists(ps) == ps \in [Parts -> Seq(Args)] /\ Len(ps["base"]) >= 2

Once(s, f) == \A i, j \in DOMAIN s : s[i] = <<f>> /\ s[j] = <<f>> => i = j

\* every list says what is asked of its flags; a flag without a value is in once
Collected(ps, want) ==
  /\ want = [k \in Slots |-> want[k]]
  /\ \A p \in Lists : Means(Body(ps, p), FlagsOf(p), want)
  /\ \A f \in Bare : Once(ps["options"], f)
  /\ \A f \in Bare : (\E i \in DOMAIN ps["options"] : ps["options"][i] = <<f>>) => want[f] = {<<>>}

\* the image or context, and the command
Named(k, ps, want) ==
  /\ \A p \in Lists \ ListsOf(k) : ps[p] = <<>>
  /\ want["image"] # <<>> => \E u \in Words : want["image"] = <<u>>
  /\ want["args"] \in Seq(Args)
  /\ IF k = "run"
     THEN /\ ps["image"] = IF want["image"] = <<>> THEN <<>> ELSE <<want["image"]>>
          /\ ps["container_args"] = want["args"]
     ELSE /\ ps["context"] = <<want["image"]>>
          /\ want["args"] = <<>>

Says(k, ps, want) == ArgLists(ps) /\ Collected(ps, want) /\ Named(k, ps, want)

IInv == kind \in {"run", "build"} /\ calls \in 0..MaxCalls /\ Says(kind, parts, asked)

--------------------------------------------------------------------------------
(* A call adds to one list *)

More(ps, p, x) == [ps EXCEPT ![p] = @ \o x]

LEMMA Rest ==
  ASSUME NEW S, NEW s \in Seq(S), Len(s) >= 2
  PROVE  /\ SubSeq(s, 3, Len(s)) \in Seq(S)
         /\ Len(SubSeq(s, 3, Len(s))) = Len(s) - 2
         /\ \A i \in 1..(Len(s) - 2) : SubSeq(s, 3, Len(s))[i] = s[i + 2]
<1> DEFINE n == Len(s)
           x == SubSeq(s, 3, n)
<1>1. n \in Int /\ \A i \in 3..n : s[i] \in S
  OBVIOUS
<1>2. n >= 2
  OBVIOUS
<1> HIDE DEF n
<1>3. /\ x \in Seq(S)
      /\ Len(x) = IF 3 <= n THEN n - 3 + 1 ELSE 0
      /\ \A i \in 1..(n - 3 + 1) : x[i] = s[3 + i - 1]
  BY <1>1, SubSeqProperties
<1> HIDE DEF x
<1>4. Len(x) = n - 2
  BY <1>1, <1>2, <1>3
<1>5. \A i \in 1..(n - 2) : x[i] = s[i + 2]
  <2> TAKE i \in 1..(n - 2)
  <2>1. i \in 1..(n - 3 + 1) /\ 3 + i - 1 = i + 2
    BY <1>1
  <2> QED BY <1>3, <2>1
<1> QED BY <1>3, <1>4, <1>5 DEF x, n

LEMMA TailMore ==
  ASSUME NEW s \in Seq(Args), Len(s) >= 2, NEW x \in Seq(Args)
  PROVE  /\ SubSeq(s, 3, Len(s)) \in Seq(Args)
         /\ SubSeq(s \o x, 3, Len(s \o x)) = SubSeq(s, 3, Len(s)) \o x
<1> DEFINE a == SubSeq(s, 3, Len(s))
           b == SubSeq(s \o x, 3, Len(s \o x))
           c == a \o x
           m == Len(s)
           n == Len(x)
<1>1. m \in Nat /\ n \in Nat /\ s \o x \in Seq(Args) /\ Len(s \o x) = m + n
  OBVIOUS
<1>2. a \in Seq(Args) /\ Len(a) = m - 2 /\ \A i \in 1..(m - 2) : a[i] = s[i + 2]
  BY Rest
<1>3. b \in Seq(Args) /\ Len(b) = m + n - 2 /\ \A i \in 1..(m + n - 2) : b[i] = (s \o x)[i + 2]
  <2> DEFINE y == s \o x
  <2> HIDE DEF y
  <2>1. y \in Seq(Args) /\ Len(y) = m + n
    BY <1>1 DEF y
  <2>2. Len(y) >= 2
    BY <1>1, <2>1
  <2> QED BY <1>1, <2>1, <2>2, Rest DEF y
<1> HIDE DEF a, b
<1>4. c \in Seq(Args) /\ Len(c) = m + n - 2
  <2>1. a \in Seq(Args) /\ Len(a) = m - 2
    BY <1>2
  <2>2. c \in Seq(Args) /\ Len(c) = (m - 2) + n
    BY <2>1, ConcatProperties
  <2> QED BY <1>1, <2>2
<1>5. \A i \in 1..(m + n - 2) : b[i] = c[i]
  <2> TAKE i \in 1..(m + n - 2)
  <2>1. CASE i <= m - 2
    <3>1. c[i] = a[i] /\ a[i] = s[i + 2] /\ (s \o x)[i + 2] = s[i + 2]
      BY <1>1, <1>2, <2>1
    <3> QED BY <1>3, <3>1
  <2>2. CASE ~(i <= m - 2)
    <3>1. c[i] = x[i - (m - 2)] /\ (s \o x)[i + 2] = x[(i + 2) - m]
      BY <1>1, <1>2, <2>2
    <3>2. i - (m - 2) = (i + 2) - m
      BY <1>1
    <3> QED BY <1>3, <3>1, <3>2
  <2> QED BY <2>1, <2>2
<1> HIDE DEF c
<1>6. b = c
  BY <1>3, <1>4, <1>5, SeqEqual
<1> QED BY <1>2, <1>6 DEF a, b, c

LEMMA BodyMore ==
  ASSUME NEW ps, ArgLists(ps), NEW p \in Lists, NEW x \in Seq(Args)
  PROVE  LET qs == More(ps, p, x)
         IN  /\ ArgLists(qs)
             /\ Body(ps, p) \in Seq(Args)
             /\ Body(qs, p) = Body(ps, p) \o x
             /\ \A q \in Lists : q # p => Body(qs, q) = Body(ps, q)
             /\ qs[p] = ps[p] \o x
             /\ \A q \in Parts : q # p => qs[q] = ps[q]
<1> DEFINE qs == More(ps, p, x)
<1>1. p \in Parts /\ ps \in [Parts -> Seq(Args)] /\ Lists \subseteq Parts /\ "base" \in Parts
  BY ListFacts DEF ArgLists, Parts
<1>2. qs \in [Parts -> Seq(Args)] /\ qs[p] = ps[p] \o x /\ \A q \in Parts : q # p => qs[q] = ps[q]
  BY <1>1 DEF More
<1> HIDE DEF qs
<1>3. Len(qs["base"]) >= 2
  <2>1. CASE p = "base"
    <3>1. ps[p] \in Seq(Args) /\ Len(ps[p]) >= 2
      BY <1>1, <2>1 DEF ArgLists
    <3>2. Len(ps[p] \o x) >= 2
      BY <3>1
    <3> QED BY <1>2, <2>1, <3>2
  <2>2. CASE p # "base"
    BY <1>1, <1>2, <2>2 DEF ArgLists
  <2> QED BY <2>1, <2>2
<1>4. Body(ps, p) \in Seq(Args) /\ Body(qs, p) = Body(ps, p) \o x
  <2>1. ps[p] \in Seq(Args)
    BY <1>1
  <2>2. CASE p = "base"
    <3>1. Len(ps[p]) >= 2
      BY <2>2 DEF ArgLists
    <3>2. SubSeq(ps[p], 3, Len(ps[p])) \in Seq(Args)
          /\ SubSeq(ps[p] \o x, 3, Len(ps[p] \o x)) = SubSeq(ps[p], 3, Len(ps[p])) \o x
      BY <2>1, <3>1, TailMore
    <3> QED BY <1>2, <2>2, <3>2 DEF Body
  <2>3. CASE p # "base"
    BY <1>2, <2>1, <2>3 DEF Body
  <2> QED BY <2>2, <2>3
<1>5. \A q \in Lists : q # p => Body(qs, q) = Body(ps, q)
  BY <1>1, <1>2 DEF Body
<1> QED BY <1>2, <1>3, <1>4, <1>5 DEF qs, ArgLists

\* what other lists say stays
LEMMA MeansKept ==
  ASSUME NEW ps, ArgLists(ps), NEW want, Collected(ps, want),
         NEW p \in Lists, NEW f \in FlagsOf(p), NEW x \in Seq(Args), NEW v, Puts(x, f, v)
  PROVE  \A q \in Lists : Means(Body(More(ps, p, x), q), FlagsOf(q), Want(want, f, v))
<1> DEFINE qs == More(ps, p, x)
<1> TAKE q \in Lists
<1>1. f \in Flags /\ FlagsOf(q) \subseteq Flags /\ want = [k \in Slots |-> want[k]]
      /\ Means(Body(ps, q), FlagsOf(q), want)
  BY ListFacts DEF Collected
<1>2. CASE q = p
  <2>1. Body(qs, q) = Body(ps, q) \o x /\ Body(ps, q) \in Seq(Args)
    BY <1>2, BodyMore
  <2>2. Means(Body(ps, q) \o x, FlagsOf(q), Want(want, f, v))
    BY <1>1, <1>2, <2>1, MeansMore
  <2> QED BY <2>1, <2>2
<1>3. CASE q # p
  <2>1. Body(qs, q) = Body(ps, q) /\ f \notin FlagsOf(q)
    BY <1>3, BodyMore, ListFacts
  <2>2. Means(Body(ps, q), FlagsOf(q), Want(want, f, v))
    BY <1>1, <2>1, MeansStill
  <2> QED BY <2>1, <2>2
<1> QED BY <1>2, <1>3

LEMMA NamedKept ==
  ASSUME NEW k \in {"run", "build"}, NEW ps, ArgLists(ps), NEW want, want = [i \in Slots |-> want[i]],
         Named(k, ps, want), NEW p \in ListsOf(k), NEW f \in Flags, NEW x \in Seq(Args), NEW v
  PROVE  Named(k, More(ps, p, x), Want(want, f, v))
<1> DEFINE qs == More(ps, p, x)
           new == Want(want, f, v)
<1>1. new["image"] = want["image"] /\ new["args"] = want["args"]
  <2>1. "image" \in Slots /\ "args" \in Slots /\ f # "image" /\ f # "args"
    BY FlagFacts DEF Slots, Operands
  <2> QED BY <2>1, WantFacts
<1>2. p \in Lists /\ Lists \subseteq Parts
  BY ListFacts
<1>3. \A q \in Parts : q # p => qs[q] = ps[q]
  BY <1>2, BodyMore
<1>4. \A q \in {"image", "container_args", "context"} : q \in Parts /\ q # p
  BY <1>2 DEF Lists, Parts
<1> HIDE DEF qs, new
<1>5. qs["image"] = ps["image"] /\ qs["container_args"] = ps["container_args"] /\ qs["context"] = ps["context"]
  BY <1>3, <1>4
<1>6. \A q \in Lists \ ListsOf(k) : qs[q] = <<>>
  BY <1>2, <1>3 DEF Named
<1>7. Named(k, qs, new)
  BY <1>1, <1>5, <1>6 DEF Named
<1> QED BY <1>7 DEF qs, new

Has(s, f)  == \E i \in DOMAIN s : s[i] = <<f>>
NoBare(x)  == \A f \in Bare : ~Has(x, f)

LEMMA HasMore ==
  ASSUME NEW s \in Seq(Args), NEW x \in Seq(Args), NEW f, ~Has(x, f)
  PROVE  (Once(s, f) => Once(s \o x, f)) /\ (Has(s \o x, f) => Has(s, f))
<1> DEFINE y == s \o x
<1>1. \A i \in DOMAIN y : y[i] = <<f>> => i \in DOMAIN s /\ s[i] = <<f>>
  <2> TAKE i \in DOMAIN y
  <2>1. Len(s) \in Nat /\ Len(x) \in Nat /\ i \in 1..(Len(s) + Len(x)) /\ DOMAIN s = 1..Len(s)
        /\ DOMAIN x = 1..Len(x)
    OBVIOUS
  <2>2. CASE i <= Len(s)
    BY <2>1, <2>2
  <2>3. CASE ~(i <= Len(s))
    <3>1. y[i] = x[i - Len(s)] /\ i - Len(s) \in DOMAIN x
      BY <2>1, <2>3
    <3> QED BY <3>1 DEF Has
  <2> QED BY <2>2, <2>3
<1> HIDE DEF y
<1> QED BY <1>1 DEF Once, Has, y

\* a flag with a value
LEMMA Adds ==
  ASSUME NEW k \in {"run", "build"}, NEW ps, NEW want, Says(k, ps, want),
         NEW p \in ListsOf(k), NEW f \in FlagsOf(p) \ Bare, NEW x \in Seq(Args), NoBare(x),
         NEW v, Puts(x, f, v)
  PROVE  Says(k, More(ps, p, x), Want(want, f, v))
<1> DEFINE qs == More(ps, p, x)
           new == Want(want, f, v)
<1>1. ArgLists(ps) /\ Collected(ps, want) /\ Named(k, ps, want) /\ want = [i \in Slots |-> want[i]]
  BY DEF Says, Collected
<1>2. p \in Lists /\ f \in Flags /\ Bare \subseteq Slots /\ "options" \in Parts
  BY ListFacts DEF Slots, Flags, Parts
<1>3. ArgLists(qs)
  BY <1>1, <1>2, BodyMore
<1>4. \A q \in Lists : Means(Body(qs, q), FlagsOf(q), new)
  BY <1>1, <1>2, MeansKept
<1>5. Named(k, qs, new)
  BY <1>1, <1>2, NamedKept
<1>6. new = [i \in Slots |-> new[i]] /\ \A b \in Bare : new[b] = want[b]
  BY <1>1, <1>2, WantFacts
<1>7. \A b \in Bare : /\ Once(qs["options"], b)
                      /\ Has(qs["options"], b) => Has(ps["options"], b)
  <2>1. qs["options"] = IF p = "options" THEN ps["options"] \o x ELSE ps["options"]
    <3>1. qs[p] = ps[p] \o x /\ \A q \in Parts : q # p => qs[q] = ps[q]
      BY <1>1, <1>2, BodyMore
    <3> HIDE DEF qs
    <3> QED BY <1>2, <3>1
  <2>2. ps["options"] \in Seq(Args) /\ \A b \in Bare : Once(ps["options"], b)
    BY <1>1, <1>2 DEF ArgLists, Collected
  <2> HIDE DEF qs
  <2> QED BY <2>1, <2>2, HasMore DEF NoBare
<1> HIDE DEF qs, new
<1>8. Collected(qs, new)
  BY <1>1, <1>4, <1>6, <1>7 DEF Collected, Has
<1>9. Says(k, qs, new)
  BY <1>3, <1>5, <1>8 DEF Says
<1> QED BY <1>9 DEF qs, new

\* a flag without a value that is not there yet
LEMMA AddsBare ==
  ASSUME NEW k \in {"run", "build"}, NEW ps, NEW want, Says(k, ps, want),
         NEW f \in Bare, ~Has(ps["options"], f)
  PROVE  Says(k, More(ps, "options", <<<<f>>>>), Want(want, f, <<>>))
<1> DEFINE x == <<<<f>>>>
           qs == More(ps, "options", x)
           new == Want(want, f, <<>>)
<1>1. ArgLists(ps) /\ Collected(ps, want) /\ Named(k, ps, want) /\ want = [i \in Slots |-> want[i]]
  BY DEF Says, Collected
<1>2. "options" \in Lists /\ f \in Flags /\ Bare \subseteq Slots /\ "options" \in Parts
      /\ "options" \in ListsOf(k) /\ f \in FlagsOf("options")
  BY ListFacts DEF Slots, Flags, Parts, Lists, ListsOf
<1>3. x \in Seq(Args) /\ Len(x) = 1 /\ x[1] = <<f>>
  BY <1>2, TextFacts DEF Args
<1>4. Puts(x, f, <<>>)
  <2> DEFINE a == <<f>>
  <2>1. a[1] = f /\ Tail(a) = <<>>
    OBVIOUS
  <2> HIDE DEF a
  <2>2. Puts(<<a>>, f, <<>>)
    BY <2>1, SinglePuts
  <2> QED BY <2>2 DEF a
<1> HIDE DEF x
<1>5. ArgLists(qs) /\ qs["options"] = ps["options"] \o x
  BY <1>1, <1>2, <1>3, BodyMore
<1>6. \A q \in Lists : Means(Body(qs, q), FlagsOf(q), new)
  BY <1>1, <1>2, <1>3, <1>4, MeansKept
<1>7. Named(k, qs, new)
  BY <1>1, <1>2, <1>3, NamedKept
<1>8. /\ new = [i \in Slots |-> new[i]]
      /\ \A b \in Bare : b # f => new[b] = want[b]
      /\ new[f] = {<<>>}
  <2>1. Override(f, want[f], <<>>) = want[f]
    <3>1. f \notin Listed /\ f \notin Keyed
      BY DEF Bare, Listed, Keyed
    <3> QED BY <3>1 DEF Override
  <2> QED BY <1>1, <1>2, <2>1, WantFacts
<1>9. ps["options"] \in Seq(Args)
  BY <1>1, <1>2 DEF ArgLists
<1>10. Once(qs["options"], f)
  <2> DEFINE s == ps["options"]
  <2> HIDE DEF qs, s
  <2>1. s \in Seq(Args) /\ qs["options"] = s \o x /\ ~Has(s, f)
    BY <1>5, <1>9 DEF s
  <2>2. \A i \in DOMAIN (s \o x) : (s \o x)[i] = <<f>> => i = Len(s) + 1
    <3> TAKE i \in DOMAIN (s \o x)
    <3>1. Len(s) \in Nat /\ i \in 1..(Len(s) + 1) /\ DOMAIN s = 1..Len(s)
      BY <1>3, <2>1
    <3>2. CASE i <= Len(s)
      <4>1. (s \o x)[i] = s[i] /\ i \in DOMAIN s
        BY <1>3, <2>1, <3>1, <3>2
      <4> QED BY <2>1, <4>1 DEF Has
    <3>3. CASE ~(i <= Len(s))
      BY <3>1, <3>3
    <3> QED BY <3>2, <3>3
  <2> QED BY <2>1, <2>2 DEF Once
<1>11. \A b \in Bare : b # f => /\ Once(qs["options"], b)
                                /\ Has(qs["options"], b) => Has(ps["options"], b)
  <2> TAKE b \in Bare
  <2>1. ASSUME b # f
        PROVE  ~Has(x, b)
    <3>1. <<f>> # <<b>>
      <4> DEFINE a == <<f>>
                 c == <<b>>
      <4>1. a[1] = f /\ c[1] = b
        OBVIOUS
      <4> HIDE DEF a, c
      <4>2. a # c
        BY <2>1, <4>1
      <4> QED BY <4>2 DEF a, c
    <3> QED BY <1>3, <3>1 DEF Has
  <2>2. Once(ps["options"], b)
    BY <1>1 DEF Collected
  <2> SUFFICES ASSUME b # f
               PROVE  Once(qs["options"], b) /\ (Has(qs["options"], b) => Has(ps["options"], b))
    OBVIOUS
  <2> DEFINE s == ps["options"]
  <2>3. s \in Seq(Args) /\ x \in Seq(Args) /\ ~Has(x, b) /\ Once(s, b)
    BY <1>3, <1>9, <2>1, <2>2
  <2> HIDE DEF s
  <2>4. Once(s \o x, b) /\ (Has(s \o x, b) => Has(s, b))
    BY <2>3, HasMore
  <2> QED BY <1>5, <2>4 DEF s
<1> HIDE DEF qs, new
<1>12. Collected(qs, new)
  <2>1. \A b \in Bare : Once(qs["options"], b)
    BY <1>10, <1>11
  <2>2. \A b \in Bare : Has(qs["options"], b) => new[b] = {<<>>}
    BY <1>1, <1>8, <1>11 DEF Collected, Has
  <2> QED BY <1>6, <1>8, <2>1, <2>2 DEF Collected, Has
<1>13. Says(k, qs, new)
  BY <1>5, <1>7, <1>12 DEF Says
<1> QED BY <1>13 DEF qs, new, x

\* ... or that is
LEMMA AddsBareAgain ==
  ASSUME NEW k, NEW ps, NEW want, Says(k, ps, want), NEW f \in Bare, Has(ps["options"], f)
  PROVE  Says(k, ps, Want(want, f, <<>>))
<1>1. want = [i \in Slots |-> want[i]] /\ want[f] = {<<>>}
  BY DEF Says, Collected, Has
<1>2. f \in Flags /\ f \in Slots
  BY DEF Flags, Slots
<1> DEFINE new == Want(want, f, <<>>)
<1>3. new = [i \in Slots |-> new[i]] /\ (\A i \in Slots : i # f => new[i] = want[i])
      /\ new[f] = (want[f] \ Override(f, want[f], <<>>)) \cup {<<>>}
  BY <1>1, <1>2, WantFacts
<1>4. new[f] = want[f]
  BY <1>1, <1>3
<1> HIDE DEF new
<1>5. \A i \in Slots : new[i] = want[i]
  BY <1>3, <1>4
<1>6. new = want
  BY <1>1, <1>3, <1>5
<1> QED BY <1>6 DEF new

--------------------------------------------------------------------------------
(* The calls *)

LEMMA MoreMore ==
  ASSUME NEW ps, ArgLists(ps), NEW p \in Parts, NEW x \in Seq(Args), NEW y \in Seq(Args)
  PROVE  More(More(ps, p, x), p, y) = More(ps, p, x \o y)
<1>1. ps \in [Parts -> Seq(Args)] /\ ps[p] \in Seq(Args)
  BY DEF ArgLists
<1>2. (ps[p] \o x) \o y = ps[p] \o (x \o y)
  BY <1>1, ConcatAssociative
<1>3. More(ps, p, x) = [ps EXCEPT ![p] = ps[p] \o x]
  BY DEF More
<1>4. More(ps, p, x)[p] = ps[p] \o x
  BY <1>1, <1>3
<1>5. More(More(ps, p, x), p, y) = [More(ps, p, x) EXCEPT ![p] = (ps[p] \o x) \o y]
  BY <1>4 DEF More
<1>6. More(ps, p, x \o y) = [ps EXCEPT ![p] = ps[p] \o (x \o y)]
  BY DEF More
<1> DEFINE a == ps[p] \o x
           b == ps[p] \o (x \o y)
<1> HIDE DEF a, b
<1>7. [[ps EXCEPT ![p] = a] EXCEPT ![p] = b] = [ps EXCEPT ![p] = b]
  BY <1>1
<1> QED BY <1>2, <1>3, <1>5, <1>6, <1>7 DEF a, b

LEMMA AddSpaced ==
  ASSUME WordsAreNoFlags,
         NEW k \in {"run", "build"}, NEW ps, NEW want, Says(k, ps, want), NEW p \in ListsOf(k),
         NEW f \in Spaced, f \in FlagsOf(p), NEW v \in Args, v[1] \in Words
  PROVE  Says(k, More(ps, p, <<<<f>>, v>>), Want(want, f, v))
<1> DEFINE a == <<f>>
           x == <<a, v>>
<1>1. f \in Flags /\ f \notin Bare /\ a[1] = f
  BY FlagFacts DEF Flags
<1>2. a \in Args
  BY <1>1, TextFacts DEF Args
<1>3. Puts(x, f, v)
  BY SpacedPuts
<1> HIDE DEF a
<1>4. x \in Seq(Args) /\ Len(x) = 2 /\ x[1] = a /\ x[2] = v
  BY <1>2
<1> HIDE DEF x
<1>5. NoBare(x)
  <2> SUFFICES ASSUME NEW b \in Bare, NEW i \in DOMAIN x, x[i] = <<b>>
               PROVE  FALSE
    BY DEF NoBare, Has
  <2> DEFINE c == <<b>>
  <2>1. x[i] = c /\ c[1] = b
    OBVIOUS
  <2> HIDE DEF c
  <2>2. i = 1 \/ i = 2
    BY <1>4
  <2>3. v[1] # b
    BY DEF WordsAreNoFlags, Flags
  <2>4. x[i][1] = b
    BY <2>1
  <2> QED BY <1>1, <1>4, <2>2, <2>3, <2>4
<1>6. Says(k, More(ps, p, x), Want(want, f, v))
  BY <1>1, <1>3, <1>4, <1>5, Adds
<1> QED BY <1>6 DEF x, a

LEMMA AddJoined ==
  ASSUME NEW k \in {"run", "build"}, NEW ps, NEW want, Says(k, ps, want),
         NEW a \in Args, a[1] \in Joined
  PROVE  Says(k, More(ps, "options", <<a>>), Want(want, a[1], Tail(a)))
<1> DEFINE x == <<a>>
           f == a[1]
           v == Tail(a)
<1>1. f \in Flags /\ f \notin Bare /\ f \in FlagsOf("options") /\ "options" \in ListsOf(k)
  BY FlagFacts DEF Flags, FlagsOf, ListsOf
<1>2. Puts(x, f, v)
  BY SinglePuts
<1>3. x \in Seq(Args) /\ Len(x) = 1 /\ x[1] = a
  OBVIOUS
<1> HIDE DEF x, v
<1>4. NoBare(x)
  <2> SUFFICES ASSUME NEW b \in Bare, NEW i \in DOMAIN x, x[i] = <<b>>
               PROVE  FALSE
    BY DEF NoBare, Has
  <2> DEFINE c == <<b>>
  <2>1. x[i] = c /\ c[1] = b
    OBVIOUS
  <2> HIDE DEF c
  <2>2. i = 1
    BY <1>3
  <2>3. x[i][1] = b
    BY <2>1
  <2> QED BY <1>1, <1>3, <2>2, <2>3
<1> HIDE DEF f
<1>5. Says(k, More(ps, "options", x), Want(want, f, v))
  BY <1>1, <1>2, <1>3, <1>4, Adds
<1> QED BY <1>5 DEF x, f, v

\* of two and three words
LEMMA AddOption ==
  ASSUME NEW k \in {"run", "build"}, NEW ps, NEW want, Says(k, ps, want),
         NEW f \in Joined, NEW u \in Texts
  PROVE  Says(k, More(ps, "options", <<<<f, u>>>>), Want(want, f, <<u>>))
<1> DEFINE a == <<f, u>>
<1>1. f \in Texts
  BY TextFacts DEF Flags
<1>2. a \in Args /\ a[1] = f
  BY <1>1 DEF Args
<1>3. Tail(a) = <<u>>
  OBVIOUS
<1> HIDE DEF a
<1>4. Says(k, More(ps, "options", <<a>>), Want(want, f, <<u>>))
  BY <1>2, <1>3, AddJoined
<1> QED BY <1>4 DEF a

LEMMA AddKeyed ==
  ASSUME NEW k \in {"run", "build"}, NEW ps, NEW want, Says(k, ps, want),
         NEW f \in Joined, NEW u \in Texts, NEW v \in Texts
  PROVE  Says(k, More(ps, "options", <<<<f, u, v>>>>), Want(want, f, <<u, v>>))
<1> DEFINE a == <<f, u, v>>
<1>1. f \in Texts
  BY TextFacts DEF Flags
<1>2. a \in Args /\ a[1] = f
  BY <1>1 DEF Args
<1>3. Tail(a) = <<u, v>>
  OBVIOUS
<1> HIDE DEF a
<1>4. Says(k, More(ps, "options", <<a>>), Want(want, f, <<u, v>>))
  BY <1>2, <1>3, AddJoined
<1> QED BY <1>4 DEF a

LEMMA MeansNothing ==
  ASSUME NEW S, S \subseteq Flags, NEW want, \A f \in S : want[f] = {}
  PROVE  Means(<<>>, S, want)
<1> SUFFICES ASSUME NEW w, Before(w, S)
             PROVE  Folds(Rd(w), <<>>, Rd(Merge(w, S, want)))
  BY DEF Means
<1>1. Merge(w, S, want) = w
  BY DEF Merge, Before, Plain
<1> QED BY <1>1, FoldsNone

LEMMA Started ==
  ASSUME NEW ps, ArgLists(ps), Len(ps["base"]) = 2, \A p \in Lists : p # "base" => ps[p] = <<>>,
         NEW want, want = [k \in Slots |-> want[k]], \A f \in Flags : want[f] = {}
  PROVE  Collected(ps, want)
<1>1. "base" \in Lists /\ "options" \in Lists
  BY DEF Lists
<1>2. ps["base"] \in Seq(Args)
  BY <1>1, ListFacts DEF ArgLists
<1>3. SubSeq(ps["base"], 3, 2) = <<>>
  BY SubSeqEmpty
<1>4. \A p \in Lists : Body(ps, p) = <<>>
  BY <1>3 DEF Body
<1>5. \A p \in Lists : Means(<<>>, FlagsOf(p), want)
  BY MeansNothing, ListFacts
<1>6. ps["options"] = <<>>
  BY <1>1
<1>7. \A f \in Bare : Once(ps["options"], f) /\ ~\E i \in DOMAIN ps["options"] : ps["options"][i] = <<f>>
  BY <1>6 DEF Once
<1> QED BY <1>4, <1>5, <1>7 DEF Collected

LEMMA InitSays == Init => IInv
<1> SUFFICES ASSUME Init
             PROVE  IInv
  OBVIOUS
<1>1. calls \in 0..MaxCalls
  BY DockerCommandAssumption DEF Init
<1>2. Parts \cap Lists = Lists /\ "base" \in Parts /\ "options" \in Parts /\ "image" \in Parts
      /\ "container_args" \in Parts /\ "context" \in Parts /\ "context" \notin Lists
      /\ "image" \notin Lists /\ "container_args" \notin Lists
  BY DEF Parts, Lists
<1>3. "image" \in Slots /\ "args" \in Slots /\ "image" \notin Flags /\ "args" \notin Flags
      /\ Flags \subseteq Slots
  BY FlagFacts DEF Slots, Operands
<1>4. <<>> \in Seq(Args)
  OBVIOUS
<1>5. Nothing = [i \in Slots |-> Nothing[i]] /\ (\A f \in Flags : Nothing[f] = {})
      /\ Nothing["image"] = <<>> /\ Nothing["args"] = <<>>
  BY <1>3 DEF Nothing, Slots
<1>6. ASSUME InitRun
      PROVE  IInv
  <2> DEFINE start == <<<<"docker">>, <<"run">>>>
  <2>1. start \in Seq(Args) /\ Len(start) = 2
    <3> DEFINE a == <<"docker">>
               b == <<"run">>
    <3>1. a \in Args /\ b \in Args
      BY TextFacts DEF Args
    <3> HIDE DEF a, b
    <3>2. <<a, b>> \in Seq(Args) /\ Len(<<a, b>>) = 2
      BY <3>1, Pair
    <3> QED BY <3>2 DEF a, b
  <2> HIDE DEF start
  <2>2. parts = [p \in Parts |-> IF p = "base" THEN start ELSE <<>>] /\ kind = "run" /\ asked = Nothing
    BY <1>6 DEF InitRun, start
  <2>3. ArgLists(parts) /\ Len(parts["base"]) = 2
    <3>1. parts \in [Parts -> Seq(Args)] /\ parts["base"] = start
      BY <1>2, <1>4, <2>1, <2>2
    <3>2. Len(parts["base"]) = 2
      BY <2>1, <3>1
    <3>3. Len(parts["base"]) >= 2
      BY <3>2
    <3> QED BY <3>1, <3>2, <3>3 DEF ArgLists
  <2>4. Collected(parts, asked)
    BY <1>2, <1>5, <2>2, <2>3, Started
  <2>5. Named(kind, parts, asked)
    <3>1. \A p \in Lists \ ListsOf("run") : p \in Parts /\ p # "base"
      BY <1>2 DEF ListsOf
    <3> QED BY <1>2, <1>4, <1>5, <2>2, <3>1 DEF Named
  <2> QED BY <1>1, <2>2, <2>3, <2>4, <2>5 DEF IInv, Says
<1>7. ASSUME NEW path \in Words, InitBuild(path)
      PROVE  IInv
  <2> DEFINE start == <<<<"docker">>, <<"build">>>>
             image == <<path>>
             there == <<image>>
  <2>1. start \in Seq(Args) /\ Len(start) = 2
    <3> DEFINE a == <<"docker">>
               b == <<"build">>
    <3>1. a \in Args /\ b \in Args
      BY TextFacts DEF Args
    <3> HIDE DEF a, b
    <3>2. <<a, b>> \in Seq(Args) /\ Len(<<a, b>>) = 2
      BY <3>1, Pair
    <3> QED BY <3>2 DEF a, b
  <2>2. image \in Args
    BY TextFacts DEF Args
  <2>3. image # <<>> /\ \E u \in Words : image = <<u>>
    OBVIOUS
  <2> HIDE DEF start, image
  <2>4. there \in Seq(Args)
    BY <2>2
  <2> HIDE DEF there
  <2>5. /\ parts = [p \in Parts |-> CASE p = "base" -> start
                                      [] p = "context" -> there
                                      [] OTHER -> <<>>]
        /\ kind = "build" /\ asked = [Nothing EXCEPT !["image"] = image]
    BY <1>7 DEF InitBuild, start, there, image
  <2>6. parts \in [Parts -> Seq(Args)] /\ parts["base"] = start /\ parts["context"] = there
        /\ \A p \in Parts : p # "base" /\ p # "context" => parts[p] = <<>>
    BY <1>2, <1>4, <2>1, <2>4, <2>5
  <2>7. ArgLists(parts) /\ Len(parts["base"]) = 2
    <3>1. Len(parts["base"]) = 2
      BY <2>1, <2>6
    <3>2. Len(parts["base"]) >= 2
      BY <3>1
    <3> QED BY <2>6, <3>1, <3>2 DEF ArgLists
  <2>8. asked = [i \in Slots |-> asked[i]] /\ (\A f \in Flags : asked[f] = {})
        /\ asked["image"] = image /\ asked["args"] = <<>>
    BY <1>3, <1>5, <2>5
  <2>9. Collected(parts, asked)
    BY <1>2, <2>6, <2>7, <2>8, Started
  <2>10. Named(kind, parts, asked)
    <3>1. \A p \in Lists \ ListsOf("build") : p \in Parts /\ p # "base" /\ p # "context"
      BY <1>2 DEF ListsOf
    <3> QED BY <1>2, <1>4, <2>3, <2>5, <2>6, <2>8, <3>1 DEF Named, there
  <2> QED BY <1>1, <2>5, <2>7, <2>9, <2>10 DEF IInv, Says
<1> QED BY <1>6, <1>7 DEF Init

\* the state after a call
SaysNext(k) == Says(k, parts', asked')

LEMMA SpacedSays ==
  ASSUME WordsAreNoFlags, NEW k \in {"run", "build"}, Says(k, parts, asked), NEW p \in ListsOf(k),
         NEW f \in Spaced, f \in FlagsOf(p), NEW v \in Args, v[1] \in Words, WithSpaced(p, f, v)
  PROVE  SaysNext(k)
<1>1. parts' = More(parts, p, <<<<f>>, v>>) /\ asked' = Want(asked, f, v)
  BY DEF WithSpaced, Extend, More
<1>2. Says(k, More(parts, p, <<<<f>>, v>>), Want(asked, f, v))
  BY AddSpaced
<1> QED BY <1>1, <1>2 DEF SaysNext

LEMMA BareSays ==
  ASSUME NEW k \in {"run", "build"}, Says(k, parts, asked), NEW f \in Bare, WithBare(f)
  PROVE  SaysNext(k)
<1>1. asked' = Want(asked, f, <<>>)
  BY DEF WithBare
<1>2. CASE Has(parts["options"], f)
  <2>1. parts' = parts
    BY <1>2 DEF WithBare, Has
  <2>2. Says(k, parts, Want(asked, f, <<>>))
    BY <1>2, AddsBareAgain
  <2> QED BY <1>1, <2>1, <2>2 DEF SaysNext
<1>3. CASE ~Has(parts["options"], f)
  <2>1. parts' = More(parts, "options", <<<<f>>>>)
    BY <1>3 DEF WithBare, Has, Extend, More
  <2>2. Says(k, More(parts, "options", <<<<f>>>>), Want(asked, f, <<>>))
    BY <1>3, AddsBare
  <2> QED BY <1>1, <2>1, <2>2 DEF SaysNext
<1> QED BY <1>2, <1>3

LEMMA OneWord ==
  ASSUME NEW u \in Words
  PROVE  <<u>> \in Args /\ <<u>>[1] \in Words /\ u \in Texts
BY TextFacts DEF Args

LEMMA TwoWords ==
  ASSUME NEW u \in Words, NEW v \in Words
  PROVE  <<u, v>> \in Args /\ <<u, v>>[1] \in Words
BY TextFacts DEF Args

LEMMA BuildSays ==
  ASSUME WordsAreNoFlags, Says("build", parts, asked), NEW u \in Words, NEW v \in Words,
         BuildCall(u, v)
  PROVE  SaysNext("build")
<1>1. /\ {"base", "tags", "labels", "build_args"} \subseteq ListsOf("build")
      /\ {"-f", "-t", "--label", "--build-arg"} \subseteq Spaced
      /\ "-f" \in FlagsOf("base") /\ "-t" \in FlagsOf("tags") /\ "--label" \in FlagsOf("labels")
      /\ "--build-arg" \in FlagsOf("build_args")
      /\ "--pull" \in Bare /\ "--no-cache" \in Bare /\ "--progress" \in Joined
  BY DEF ListsOf, Spaced, FlagsOf, Bare, Joined
<1>2. CASE WithSpaced("base", "-f", <<u>>)
  BY <1>1, <1>2, OneWord, SpacedSays
<1>3. CASE WithSpaced("tags", "-t", <<u>>)
  BY <1>1, <1>3, OneWord, SpacedSays
<1>4. CASE WithSpaced("labels", "--label", <<u, v>>)
  BY <1>1, <1>4, TwoWords, SpacedSays
<1>5. CASE WithSpaced("build_args", "--build-arg", <<u, v>>)
  BY <1>1, <1>5, TwoWords, SpacedSays
<1>6. CASE WithBare("--pull")
  BY <1>1, <1>6, BareSays
<1>7. CASE WithBare("--no-cache")
  BY <1>1, <1>7, BareSays
<1>8. CASE WithJoined("--progress", <<u>>)
  <2>1. <<"--progress">> \o <<u>> = <<"--progress", u>>
    <3>1. "--progress" \in Texts /\ u \in Texts
      BY <1>1, TextFacts DEF Flags
    <3> QED BY <3>1, Pair
  <2>2. parts' = More(parts, "options", <<<<"--progress", u>>>>) /\ asked' = Want(asked, "--progress", <<u>>)
    BY <1>8, <2>1 DEF WithJoined, Extend, More
  <2>3. Says("build", More(parts, "options", <<<<"--progress", u>>>>), Want(asked, "--progress", <<u>>))
    BY <1>1, OneWord, AddOption
  <2> QED BY <2>2, <2>3 DEF SaysNext
<1> QED BY <1>2, <1>3, <1>4, <1>5, <1>6, <1>7, <1>8 DEF BuildCall

LEMMA LimitSays ==
  ASSUME NEW ps, NEW want, Says("run", ps, want), NEW f \in Joined, NEW u \in Words,
         NEW v \in {<<>>, <<u>>}
  PROVE  /\ Limit(f, v) \in Seq(Args)
         /\ Says("run", More(ps, "options", Limit(f, v)), WantLimit(want, f, v))
<1>1. ArgLists(ps) /\ "options" \in Parts
  BY DEF Says, Parts
<1>2. ps \in [Parts -> Seq(Args)] /\ ps["options"] \in Seq(Args)
  BY <1>1 DEF ArgLists
<1>3. CASE v = <<>>
  <2>1. More(ps, "options", <<>>) = ps
    <3>1. ps["options"] \o <<>> = ps["options"]
      BY <1>2
    <3>2. [ps EXCEPT !["options"] = ps["options"]] = ps
      BY <1>2
    <3>3. More(ps, "options", <<>>) = [ps EXCEPT !["options"] = ps["options"] \o <<>>]
      BY DEF More
    <3> QED BY <3>1, <3>2, <3>3
  <2>2. Limit(f, v) = <<>> /\ WantLimit(want, f, v) = want
    BY <1>3 DEF Limit, WantLimit
  <2>3. <<>> \in Seq(Args)
    OBVIOUS
  <2> QED BY <2>1, <2>2, <2>3
<1>4. CASE v = <<u>> /\ v # <<>>
  <2>1. f \in Texts /\ u \in Texts
    BY TextFacts DEF Flags
  <2>2. <<f>> \o <<u>> = <<f, u>> /\ <<f, u>> \in Args
    BY <2>1, Pair DEF Args
  <2>3. Limit(f, v) = <<<<f, u>>>> /\ WantLimit(want, f, v) = Want(want, f, <<u>>)
    BY <1>4, <2>2 DEF Limit, WantLimit
  <2>4. Says("run", More(ps, "options", <<<<f, u>>>>), Want(want, f, <<u>>))
    BY <2>1, AddOption
  <2>5. <<<<f, u>>>> \in Seq(Args)
    <3> DEFINE a == <<f, u>>
    <3>1. a \in Args
      BY <2>2
    <3> HIDE DEF a
    <3>2. <<a>> \in Seq(Args)
      BY <3>1
    <3> QED BY <3>2 DEF a
  <2> QED BY <2>3, <2>4, <2>5
<1>5. v = <<>> \/ (v = <<u>> /\ v # <<>>)
  OBVIOUS
<1> QED BY <1>3, <1>4, <1>5

LEMMA LimitsSay ==
  ASSUME Says("run", parts, asked), NEW u \in Words, NEW m \in {<<>>, <<u>>}, NEW c \in {<<>>, <<u>>},
         WithResourceLimits(m, c)
  PROVE  SaysNext("run")
<1> DEFINE x == Limit("--memory", m)
           y == Limit("--cpus", c)
           one == More(parts, "options", x)
           want == WantLimit(asked, "--memory", m)
<1>1. "--memory" \in Joined /\ "--cpus" \in Joined /\ "options" \in Parts
  BY DEF Joined, Parts
<1>2. x \in Seq(Args) /\ Says("run", one, want)
  BY <1>1, LimitSays
<1> HIDE DEF one, want
<1>3. y \in Seq(Args) /\ Says("run", More(one, "options", y), WantLimit(want, "--cpus", c))
  BY <1>1, <1>2, LimitSays
<1>4. More(one, "options", y) = More(parts, "options", x \o y)
  <2>1. ArgLists(parts)
    BY DEF Says
  <2> HIDE DEF x, y
  <2> QED BY <1>1, <1>2, <1>3, <2>1, MoreMore DEF one
<1>5. parts' = More(parts, "options", x \o y) /\ asked' = WantLimit(want, "--cpus", c)
  BY DEF WithResourceLimits, Extend, More, want
<1> QED BY <1>3, <1>4, <1>5 DEF SaysNext

\* several options in one call, one after the other
LEMMA TwoMore ==
  ASSUME NEW ps, ArgLists(ps), NEW a \in Args, NEW b \in Args
  PROVE  More(More(ps, "options", <<a>>), "options", <<b>>) = More(ps, "options", <<a, b>>)
<1>1. "options" \in Parts
  BY DEF Parts
<1> DEFINE x == <<a>>
           y == <<b>>
<1>2. x \in Seq(Args) /\ y \in Seq(Args) /\ x \o y = <<a, b>>
  BY Pair
<1> HIDE DEF x, y
<1>3. More(More(ps, "options", x), "options", y) = More(ps, "options", x \o y)
  BY <1>1, <1>2, MoreMore
<1> QED BY <1>2, <1>3 DEF x, y

LEMMA ThreeMore ==
  ASSUME NEW ps, ArgLists(ps), NEW a \in Args, NEW b \in Args, NEW c \in Args
  PROVE  More(More(More(ps, "options", <<a>>), "options", <<b>>), "options", <<c>>)
           = More(ps, "options", <<a, b, c>>)
<1>1. "options" \in Parts
  BY DEF Parts
<1>2. <<a, b>> \in Seq(Args) /\ <<c>> \in Seq(Args) /\ <<a, b>> \o <<c>> = <<a, b, c>>
  BY Pair, Triple
<1>3. More(More(ps, "options", <<a, b>>), "options", <<c>>) = More(ps, "options", <<a, b>> \o <<c>>)
  BY <1>1, <1>2, MoreMore
<1> QED BY <1>2, <1>3, TwoMore

LEMMA FourMore ==
  ASSUME NEW ps, ArgLists(ps), NEW a \in Args, NEW b \in Args, NEW c \in Args, NEW d \in Args
  PROVE  More(More(More(More(ps, "options", <<a>>), "options", <<b>>), "options", <<c>>), "options", <<d>>)
           = More(ps, "options", <<a, b, c, d>>)
<1>1. "options" \in Parts
  BY DEF Parts
<1>2. <<a, b, c>> \in Seq(Args) /\ <<d>> \in Seq(Args) /\ <<a, b, c>> \o <<d>> = <<a, b, c, d>>
  <2>1. <<a, b, c>> \in Seq(Args) /\ (<<a>> \o <<b>>) \o <<c>> = <<a, b, c>>
    BY Triple
  <2>2. ((<<a>> \o <<b>>) \o <<c>>) \o <<d>> = <<a, b, c, d>>
    BY Quadruple
  <2>3. <<d>> \in Seq(Args)
    BY Pair
  <2> QED BY <2>1, <2>2, <2>3, Zenon
<1>3. More(More(ps, "options", <<a, b, c>>), "options", <<d>>) = More(ps, "options", <<a, b, c>> \o <<d>>)
  BY <1>1, <1>2, MoreMore
<1>4. More(More(More(ps, "options", <<a>>), "options", <<b>>), "options", <<c>>)
        = More(ps, "options", <<a, b, c>>)
  BY ThreeMore
<1> QED BY <1>2, <1>3, <1>4, Zenon

LEMMA HealthcheckSays ==
  ASSUME Says("run", parts, asked), NEW u \in Words, NEW v \in Words, WithHealthcheck(u, v, v, u)
  PROVE  SaysNext("run")
<1> DEFINE a == <<"--health-cmd", u>>
           b == <<"--health-interval", v>>
           c == <<"--health-timeout", v>>
           d == <<"--health-retries", u>>
           p1 == More(parts, "options", <<a>>)
           p2 == More(p1, "options", <<b>>)
           p3 == More(p2, "options", <<c>>)
           p4 == More(p3, "options", <<d>>)
           w1 == Want(asked, "--health-cmd", <<u>>)
           w2 == Want(w1, "--health-interval", <<v>>)
           w3 == Want(w2, "--health-timeout", <<v>>)
           w4 == Want(w3, "--health-retries", <<u>>)
<1>1. "--health-cmd" \in Joined /\ "--health-interval" \in Joined /\ "--health-timeout" \in Joined
      /\ "--health-retries" \in Joined
  BY DEF Joined
<1>2. u \in Texts /\ v \in Texts /\ Joined \subseteq Texts
  BY TextFacts DEF Flags
<1>3. a \in Args /\ b \in Args /\ c \in Args /\ d \in Args
  BY <1>1, <1>2 DEF Args
<1>4. parts' = More(parts, "options", <<a, b, c, d>>) /\ asked' = w4
  BY DEF WithHealthcheck, Extend, More
<1>5. ArgLists(parts)
  BY DEF Says
<1>6. Says("run", p1, w1)
  BY <1>1, <1>2, AddOption
<1> HIDE DEF p1, w1
<1>7. Says("run", p2, w2)
  BY <1>1, <1>2, <1>6, AddOption
<1> HIDE DEF p2, w2
<1>8. Says("run", p3, w3)
  BY <1>1, <1>2, <1>7, AddOption
<1> HIDE DEF p3, w3
<1>9. Says("run", p4, w4)
  BY <1>1, <1>2, <1>8, AddOption
<1> HIDE DEF a, b, c, d, w4
<1>10. p4 = More(parts, "options", <<a, b, c, d>>)
  BY <1>3, <1>5, FourMore DEF p1, p2, p3
<1> QED BY <1>4, <1>9, <1>10 DEF SaysNext

LEMMA LogConfigSays ==
  ASSUME Says("run", parts, asked), NEW u \in Words, NEW v \in Words, WithLogConfig(u, v)
  PROVE  SaysNext("run")
<1> DEFINE a == <<"--log-driver", "json-file">>
           b == <<"--log-opt", "max-size", u>>
           c == <<"--log-opt", "max-file", v>>
           p1 == More(parts, "options", <<a>>)
           p2 == More(p1, "options", <<b>>)
           p3 == More(p2, "options", <<c>>)
           w1 == Want(asked, "--log-driver", <<"json-file">>)
           w2 == Want(w1, "--log-opt", <<"max-size", u>>)
           w3 == Want(w2, "--log-opt", <<"max-file", v>>)
<1>1. "--log-driver" \in Joined /\ "--log-opt" \in Joined
  BY DEF Joined
<1>2. u \in Texts /\ v \in Texts /\ Joined \subseteq Texts /\ "json-file" \in Texts
      /\ "max-size" \in Texts /\ "max-file" \in Texts
  BY TextFacts DEF Flags
<1>3. a \in Args /\ b \in Args /\ c \in Args
  BY <1>1, <1>2 DEF Args
<1>4. parts' = More(parts, "options", <<a, b, c>>) /\ asked' = w3
  BY DEF WithLogConfig, Extend, More
<1>5. ArgLists(parts)
  BY DEF Says
<1>6. Says("run", p1, w1)
  BY <1>1, <1>2, AddOption
<1> HIDE DEF p1, w1
<1>7. Says("run", p2, w2)
  BY <1>1, <1>2, <1>6, AddKeyed
<1> HIDE DEF p2, w2
<1>8. Says("run", p3, w3)
  BY <1>1, <1>2, <1>7, AddKeyed
<1> HIDE DEF a, b, c, w3
<1>9. p3 = More(parts, "options", <<a, b, c>>)
  BY <1>3, <1>5, ThreeMore DEF p1, p2
<1> QED BY <1>4, <1>8, <1>9 DEF SaysNext

\* a call that touches no flag
LEMMA UnaskedKept ==
  ASSUME NEW ps, NEW qs, NEW want, NEW new, Collected(ps, want),
         \A p \in Lists : qs[p] = ps[p],
         new = [k \in Slots |-> new[k]], \A f \in Flags : new[f] = want[f]
  PROVE  Collected(qs, new)
<1>1. \A p \in Lists : Body(qs, p) = Body(ps, p)
  BY DEF Body
<1>2. \A p \in Lists : Means(Body(qs, p), FlagsOf(p), new)
  <2> TAKE p \in Lists
  <2>1. FlagsOf(p) \subseteq Flags /\ Means(Body(ps, p), FlagsOf(p), want)
    BY ListFacts DEF Collected
  <2>2. \A w : Merge(w, FlagsOf(p), new) = Merge(w, FlagsOf(p), want)
    BY <2>1 DEF Merge
  <2> QED BY <1>1, <2>1, <2>2 DEF Means
<1>3. qs["options"] = ps["options"] /\ Bare \subseteq Flags
  BY DEF Lists, Flags
<1> QED BY <1>2, <1>3 DEF Collected

LEMMA ImageSays ==
  ASSUME Says("run", parts, asked), NEW u \in Words, WithImage(u)
  PROVE  SaysNext("run")
<1> DEFINE image == <<u>>
           there == <<image>>
<1>1. image \in Args /\ image # <<>> /\ \E w \in Words : image = <<w>>
  BY OneWord
<1>2. parts' = [parts EXCEPT !["image"] = there] /\ asked' = [asked EXCEPT !["image"] = image]
  BY DEF WithImage
<1> HIDE DEF image
<1>3. there \in Seq(Args)
  BY <1>1
<1> HIDE DEF there
<1>4. ArgLists(parts) /\ Collected(parts, asked) /\ Named("run", parts, asked)
  BY DEF Says
<1>5. "image" \in Parts /\ "image" \notin Lists /\ "base" \in Parts /\ "options" \in Lists
      /\ Lists \subseteq Parts /\ "container_args" \in Parts
  BY DEF Parts, Lists
<1>6. "image" \in Slots /\ "args" \in Slots /\ "image" \notin Flags /\ Flags \subseteq Slots
  BY FlagFacts DEF Slots, Operands
<1>7. /\ parts' \in [Parts -> Seq(Args)]
      /\ parts'["image"] = there
      /\ \A p \in Parts : p # "image" => parts'[p] = parts[p]
  BY <1>2, <1>3, <1>4, <1>5 DEF ArgLists
<1>8. /\ asked' = [k \in Slots |-> asked'[k]] /\ asked'["image"] = image
      /\ asked'["args"] = asked["args"] /\ \A f \in Flags : asked'[f] = asked[f]
  BY <1>2, <1>4, <1>6 DEF Collected
<1>9. ArgLists(parts')
  BY <1>4, <1>5, <1>7 DEF ArgLists
<1>10. Collected(parts', asked')
  BY <1>4, <1>5, <1>7, <1>8, UnaskedKept
<1>11. Named("run", parts', asked')
  BY <1>1, <1>4, <1>5, <1>7, <1>8 DEF Named, there
<1> QED BY <1>9, <1>10, <1>11 DEF Says, SaysNext

LEMMA CommandSays ==
  ASSUME Says("run", parts, asked), NEW words \in Seq(Args), WithCommand(words)
  PROVE  SaysNext("run")
<1>1. parts' = [parts EXCEPT !["container_args"] = words] /\ asked' = [asked EXCEPT !["args"] = words]
  BY DEF WithCommand
<1>2. ArgLists(parts) /\ Collected(parts, asked) /\ Named("run", parts, asked)
  BY DEF Says
<1>3. "image" \in Parts /\ "base" \in Parts /\ "options" \in Lists
      /\ Lists \subseteq Parts /\ "container_args" \in Parts /\ "container_args" \notin Lists
  BY DEF Parts, Lists
<1>4. "image" \in Slots /\ "args" \in Slots /\ "args" \notin Flags /\ Flags \subseteq Slots
  BY FlagFacts DEF Slots, Operands
<1>5. /\ parts' \in [Parts -> Seq(Args)]
      /\ parts'["container_args"] = words
      /\ \A p \in Parts : p # "container_args" => parts'[p] = parts[p]
  BY <1>1, <1>2, <1>3 DEF ArgLists
<1>6. /\ asked' = [k \in Slots |-> asked'[k]] /\ asked'["args"] = words
      /\ asked'["image"] = asked["image"] /\ \A f \in Flags : asked'[f] = asked[f]
  BY <1>1, <1>2, <1>4 DEF Collected
<1>7. ArgLists(parts')
  BY <1>2, <1>3, <1>5 DEF ArgLists
<1>8. Collected(parts', asked')
  <2>1. \A p \in Lists : parts'[p] = parts[p]
    BY <1>3, <1>5
  <2> QED BY <1>2, <1>6, <2>1, UnaskedKept
<1>9. Named("run", parts', asked')
  BY <1>2, <1>3, <1>5, <1>6 DEF Named
<1> QED BY <1>7, <1>8, <1>9 DEF Says, SaysNext

LEMMA RunSays ==
  ASSUME WordsAreNoFlags, Says("run", parts, asked), NEW u \in Words, NEW v \in Words, RunCall(u, v)
  PROVE  SaysNext("run")
<1>1. /\ {"options", "ports", "env_vars", "volumes"} \subseteq ListsOf("run")
      /\ {"--name", "--restart", "-p", "-e", "-v"} \subseteq Spaced
      /\ "--name" \in FlagsOf("options") /\ "--restart" \in FlagsOf("options")
      /\ "-p" \in FlagsOf("ports") /\ "-e" \in FlagsOf("env_vars") /\ "-v" \in FlagsOf("volumes")
      /\ "-d" \in Bare
  BY DEF ListsOf, Spaced, FlagsOf, Bare
<1>2. CASE WithBare("-d")
  BY <1>1, <1>2, BareSays
<1>3. CASE WithSpaced("options", "--name", <<u>>)
  BY <1>1, <1>3, OneWord, SpacedSays
<1>4. CASE WithSpaced("ports", "-p", <<u, v>>)
  BY <1>1, <1>4, TwoWords, SpacedSays
<1>5. CASE WithSpaced("env_vars", "-e", <<u, v>>)
  BY <1>1, <1>5, TwoWords, SpacedSays
<1>6. CASE WithSpaced("volumes", "-v", <<u, v>>)
  BY <1>1, <1>6, TwoWords, SpacedSays
<1>7. CASE WithSpaced("options", "--restart", <<u>>)
  BY <1>1, <1>7, OneWord, SpacedSays
<1>8. CASE \E m, c \in {<<>>, <<u>>} : WithResourceLimits(m, c)
  BY <1>8, LimitsSay
<1>9. CASE WithHealthcheck(u, v, v, u)
  BY <1>9, HealthcheckSays
<1>10. CASE WithLogConfig(u, v)
  BY <1>10, LogConfigSays
<1>11. CASE WithImage(u)
  BY <1>11, ImageSays
<1>12. CASE \E words \in {<<<<u>>>>, <<<<u>>, <<"-d">>>>} : WithCommand(words)
  <2> DEFINE a == <<u>>
             b == <<"-d">>
  <2>1. a \in Args /\ b \in Args
    <3>1. u \in Texts /\ "-d" \in Texts
      BY <1>1, TextFacts DEF Flags
    <3> QED BY <3>1 DEF Args
  <2>2. PICK words \in {<<a>>, <<a, b>>} : WithCommand(words)
    BY <1>12
  <2> HIDE DEF a, b
  <2>3. words \in Seq(Args)
    BY <2>1, Pair
  <2> QED BY <2>2, <2>3, CommandSays
<1> QED BY <1>2, <1>3, <1>4, <1>5, <1>6, <1>7, <1>8, <1>9, <1>10, <1>11, <1>12 DEF RunCall

LEMMA StepSays ==
  ASSUME WordsAreNoFlags, IInv, [Next]_dvars
  PROVE  IInv'
<1>1. CASE UNCHANGED dvars
  BY <1>1 DEF IInv, dvars, Says, ArgLists, Collected, Named, Once, Body
<1>2. ASSUME Next
      PROVE  IInv'
  <2>1. PICK u \in Words, v \in Words :
          (Call("build") /\ BuildCall(u, v)) \/ (Call("run") /\ RunCall(u, v))
    BY <1>2 DEF Next
  <2>2. calls' \in 0..MaxCalls
    BY <2>1, DockerCommandAssumption DEF Call, IInv
  <2>3. CASE Call("build") /\ BuildCall(u, v)
    <3>1. kind = "build" /\ kind' = "build"
      BY <2>3 DEF Call
    <3>2. SaysNext("build")
      BY <2>3, <3>1, BuildSays DEF IInv
    <3> QED BY <2>2, <3>1, <3>2 DEF IInv, SaysNext
  <2>4. CASE Call("run") /\ RunCall(u, v)
    <3>1. kind = "run" /\ kind' = "run"
      BY <2>4 DEF Call
    <3>2. SaysNext("run")
      BY <2>4, <3>1, RunSays DEF IInv
    <3> QED BY <2>2, <3>1, <3>2 DEF IInv, SaysNext
  <2> QED BY <2>1, <2>3, <2>4
<1> QED BY <1>1, <1>2

--------------------------------------------------------------------------------
(* What docker reads *)

\* one list after the other
LEMMA MeansFrom ==
  ASSUME NEW ps, ArgLists(ps), NEW want, Collected(ps, want), NEW p \in Lists,
         NEW S, S \subseteq Flags, S \cap FlagsOf(p) = {}, NEW s \in Seq(Args),
         Folds(Rd(Nothing), s, Rd(Merge(Nothing, S, want)))
  PROVE  /\ s \o Body(ps, p) \in Seq(Args)
         /\ Folds(Rd(Nothing), s \o Body(ps, p), Rd(Merge(Nothing, S \cup FlagsOf(p), want)))
<1> DEFINE m == Merge(Nothing, S, want)
           n == Merge(Nothing, S \cup FlagsOf(p), want)
<1>1. FlagsOf(p) \subseteq Flags /\ Flags \subseteq Slots
  BY ListFacts DEF Slots
<1>2. Plain(Nothing) /\ \A f \in Flags : Nothing[f] = {}
  <2>1. "image" \in Slots /\ "image" \notin Flags
    BY FlagFacts DEF Slots, Operands
  <2> QED BY <1>1, <2>1 DEF Nothing, Plain, Slots
<1>3. Plain(m)
  BY <1>2, MergePlain
<1>4. Before(m, FlagsOf(p))
  <2>1. \A f \in FlagsOf(p) : m[f] = {}
    BY <1>1, <1>2 DEF Merge
  <2> QED BY <1>3, <2>1 DEF Before
<1>5. Merge(m, FlagsOf(p), want) = n
  BY DEF Merge
<1> HIDE DEF m, n
<1>6. Folds(Rd(m), Body(ps, p), Rd(n))
  BY <1>4, <1>5 DEF Collected, Means
<1>7. Body(ps, p) \in Seq(Args)
  <2>1. <<>> \in Seq(Args)
    OBVIOUS
  <2> QED BY <2>1, BodyMore
<1>8. Folds(Rd(Nothing), s \o Body(ps, p), Rd(n))
  BY <1>6, <1>7, FoldsBoth DEF m
<1> QED BY <1>7, <1>8 DEF n

\* all flags as asked, before the image
FlagsRead(ps) ==
  ((((((Body(ps, "base") \o Body(ps, "options")) \o Body(ps, "tags")) \o Body(ps, "labels"))
    \o Body(ps, "build_args")) \o Body(ps, "ports")) \o Body(ps, "env_vars")) \o Body(ps, "volumes")

Asked(want) == [k \in Slots |-> IF k \in Flags THEN want[k] ELSE <<>>]

LEMMA AllRead ==
  ASSUME NEW ps, ArgLists(ps), NEW want, Collected(ps, want)
  PROVE  /\ FlagsRead(ps) \in Seq(Args)
         /\ Folds(Rd(Nothing), FlagsRead(ps), Rd(Asked(want)))
<1> DEFINE S1 == FlagsOf("base")
           S2 == S1 \cup FlagsOf("options")
           S3 == S2 \cup FlagsOf("tags")
           S4 == S3 \cup FlagsOf("labels")
           S5 == S4 \cup FlagsOf("build_args")
           S6 == S5 \cup FlagsOf("ports")
           S7 == S6 \cup FlagsOf("env_vars")
           S8 == S7 \cup FlagsOf("volumes")
           s0 == <<>> \o Body(ps, "base")
           s1 == Body(ps, "base")
           s2 == s1 \o Body(ps, "options")
           s3 == s2 \o Body(ps, "tags")
           s4 == s3 \o Body(ps, "labels")
           s5 == s4 \o Body(ps, "build_args")
           s6 == s5 \o Body(ps, "ports")
           s7 == s6 \o Body(ps, "env_vars")
           ReadSoFar(s, S) == s \in Seq(Args) /\ Folds(Rd(Nothing), s, Rd(Merge(Nothing, S, want)))
<1>1. "base" \in Lists /\ "options" \in Lists /\ "tags" \in Lists /\ "labels" \in Lists
      /\ "build_args" \in Lists /\ "ports" \in Lists /\ "env_vars" \in Lists /\ "volumes" \in Lists
  BY DEF Lists
<1>2. \A p \in Lists : p \in {"base", "options", "tags", "labels", "build_args", "ports",
                              "env_vars", "volumes"}
  BY DEF Lists
<1>3. \A p \in Lists : FlagsOf(p) \subseteq Flags
  BY ListFacts
<1>4. \A p, q \in Lists : p # q => FlagsOf(p) \cap FlagsOf(q) = {}
  BY ListFacts
<1>5. Folds(Rd(Nothing), <<>>, Rd(Merge(Nothing, {}, want)))
  <2>1. Merge(Nothing, {}, want) = Nothing
    BY DEF Merge, Nothing, Slots
  <2> QED BY <2>1, FoldsNone
<1>6. Body(ps, "base") \in Seq(Args)
  <2>1. <<>> \in Seq(Args)
    OBVIOUS
  <2> QED BY <1>1, <2>1, BodyMore
<1> HIDE DEF Folds
<1>7. ReadSoFar(s1, S1)
  <2>1. <<>> \in Seq(Args)
    OBVIOUS
  <2>2. ReadSoFar(s0, {} \cup S1)
    BY <1>1, <1>5, <2>1, MeansFrom
  <2>3. s0 = s1
    BY <1>6
  <2>4. {} \cup S1 = S1
    OBVIOUS
  <2> QED BY <2>2, <2>3, <2>4
<1>8. ReadSoFar(s2, S2)
  <2>1. S1 \subseteq Flags /\ S1 \cap FlagsOf("options") = {}
    BY <1>1, <1>3, <1>4
  <2> HIDE DEF S1, s1
  <2> QED BY <1>1, <1>7, <2>1, MeansFrom
<1>9. ReadSoFar(s3, S3)
  <2>1. S2 \subseteq Flags /\ S2 \cap FlagsOf("tags") = {}
    BY <1>1, <1>3, <1>4
  <2> HIDE DEF S2, s2
  <2> QED BY <1>1, <1>8, <2>1, MeansFrom
<1>10. ReadSoFar(s4, S4)
  <2>1. S3 \subseteq Flags /\ S3 \cap FlagsOf("labels") = {}
    BY <1>1, <1>3, <1>4
  <2> HIDE DEF S3, s3
  <2> QED BY <1>1, <1>9, <2>1, MeansFrom
<1>11. ReadSoFar(s5, S5)
  <2>1. S4 \subseteq Flags /\ S4 \cap FlagsOf("build_args") = {}
    BY <1>1, <1>3, <1>4
  <2> HIDE DEF S4, s4
  <2> QED BY <1>1, <1>10, <2>1, MeansFrom
<1>12. ReadSoFar(s6, S6)
  <2>1. S5 \subseteq Flags /\ S5 \cap FlagsOf("ports") = {}
    BY <1>1, <1>3, <1>4
  <2> HIDE DEF S5, s5
  <2> QED BY <1>1, <1>11, <2>1, MeansFrom
<1>13. ReadSoFar(s7, S7)
  <2>1. S6 \subseteq Flags /\ S6 \cap FlagsOf("env_vars") = {}
    BY <1>1, <1>3, <1>4
  <2> HIDE DEF S6, s6
  <2> QED BY <1>1, <1>12, <2>1, MeansFrom
<1>14. ReadSoFar(s7 \o Body(ps, "volumes"), S8)
  <2>1. S7 \subseteq Flags /\ S7 \cap FlagsOf("volumes") = {}
    BY <1>1, <1>3, <1>4
  <2> HIDE DEF S7, s7
  <2> QED BY <1>1, <1>13, <2>1, MeansFrom
<1>15. S8 = Flags
  <2>1. \A f \in Flags : f \in S8
    <3> TAKE f \in Flags
    <3>1. PICK p \in Lists : f \in FlagsOf(p)
      BY ListFacts
    <3> QED BY <1>2, <3>1
  <2>2. S8 \subseteq Flags
    BY <1>1, <1>3
  <2> QED BY <2>1, <2>2
<1>16. Merge(Nothing, Flags, want) = Asked(want)
  BY DEF Merge, Asked, Nothing, Slots
<1> HIDE DEF S8
<1> QED BY <1>14, <1>15, <1>16 DEF FlagsRead


LEMMA TailLonger ==
  ASSUME NEW s \in Seq(Args), Len(s) >= 2, NEW x \in Seq(Args)
  PROVE  /\ s \o x \in Seq(Args) /\ Len(s \o x) >= 2
         /\ SubSeq(s \o x, 3, Len(s \o x)) = SubSeq(s, 3, Len(s)) \o x
<1>1. s \o x \in Seq(Args) /\ Len(s \o x) = Len(s) + Len(x) /\ Len(s) \in Nat /\ Len(x) \in Nat
  OBVIOUS
<1>2. Len(s \o x) >= 2
  BY <1>1
<1> QED BY <1>1, <1>2, TailMore

\* the arguments after docker run and docker build
Image(want) == <<want["image"]>>

LEMMA RunTail ==
  ASSUME ArgLists(parts), Named("run", parts, asked), asked["image"] \in Args, asked["image"] # <<>>
  PROVE  /\ Compile("run") \in Seq(Args)
         /\ SubSeq(Compile("run"), 3, Len(Compile("run")))
              = (FlagsRead(parts) \o Image(asked)) \o asked["args"]
<1> DEFINE base == parts["base"]
           options == parts["options"]
           ports == parts["ports"]
           envs == parts["env_vars"]
           volumes == parts["volumes"]
           image == Image(asked)
           args == asked["args"]
           b == SubSeq(base, 3, Len(base))
           c1 == base \o options
           c2 == c1 \o ports
           c3 == c2 \o envs
           c4 == c3 \o volumes
           c5 == c4 \o image
           c6 == c5 \o args
           D(s) == SubSeq(s, 3, Len(s))
           Long(s) == s \in Seq(Args) /\ Len(s) >= 2
<1>1. /\ Long(base) /\ options \in Seq(Args) /\ ports \in Seq(Args) /\ envs \in Seq(Args)
      /\ volumes \in Seq(Args) /\ args \in Seq(Args)
  BY DEF ArgLists, Parts, Named
<1>2. image \in Seq(Args)
  BY DEF Image
<1>3. Compile("run") = c6
  <2>1. parts["image"] = image /\ parts["container_args"] = args
    BY DEF Named, Image
  <2> QED BY <2>1 DEF Compile
<1>4. \A s, x : Long(s) /\ x \in Seq(Args) => Long(s \o x) /\ D(s \o x) = D(s) \o x
  BY TailLonger
<1> HIDE DEF Long, D, base, options, ports, envs, volumes, image, args
<1>5. Long(c1) /\ D(c1) = D(base) \o options
  BY <1>1, <1>4
<1> HIDE DEF c1
<1>6. Long(c2) /\ D(c2) = D(c1) \o ports
  BY <1>1, <1>4, <1>5
<1> HIDE DEF c2
<1>7. Long(c3) /\ D(c3) = D(c2) \o envs
  BY <1>1, <1>4, <1>6
<1> HIDE DEF c3
<1>8. Long(c4) /\ D(c4) = D(c3) \o volumes
  BY <1>1, <1>4, <1>7
<1> HIDE DEF c4
<1>9. Long(c5) /\ D(c5) = D(c4) \o image
  BY <1>2, <1>4, <1>8
<1> HIDE DEF c5
<1>10. Long(c6) /\ D(c6) = D(c5) \o args
  BY <1>1, <1>4, <1>9
<1>11. D(c4) = FlagsRead(parts)
  <2>1. /\ Body(parts, "base") = D(base) /\ Body(parts, "options") = options
        /\ Body(parts, "ports") = ports /\ Body(parts, "env_vars") = envs
        /\ Body(parts, "volumes") = volumes
    BY DEF Body, D, base, options, ports, envs, volumes
  <2>2. /\ Body(parts, "tags") = <<>> /\ Body(parts, "labels") = <<>>
        /\ Body(parts, "build_args") = <<>>
    <3>1. "tags" \in Lists \ ListsOf("run") /\ "labels" \in Lists \ ListsOf("run")
          /\ "build_args" \in Lists \ ListsOf("run")
      BY DEF Lists, ListsOf
    <3> QED BY <3>1 DEF Named, Body
  <2>3. D(c1) \in Seq(Args)
    BY <1>5, Rest DEF D, Long
  <2>4. ((D(c1) \o <<>>) \o <<>>) \o <<>> = D(c1)
    BY <2>3, ConcatEmptySeq
  <2> QED BY <1>5, <1>6, <1>7, <1>8, <2>1, <2>2, <2>4 DEF FlagsRead
<1> QED BY <1>3, <1>9, <1>10, <1>11 DEF Long, D, image, args

LEMMA BuildTail ==
  ASSUME ArgLists(parts), Named("build", parts, asked), asked["image"] \in Args
  PROVE  /\ Compile("build") \in Seq(Args)
         /\ SubSeq(Compile("build"), 3, Len(Compile("build")))
              = FlagsRead(parts) \o Image(asked)
<1> DEFINE base == parts["base"]
           options == parts["options"]
           tags == parts["tags"]
           labels == parts["labels"]
           buildArgs == parts["build_args"]
           image == Image(asked)
           c1 == base \o options
           c2 == c1 \o tags
           c3 == c2 \o labels
           c4 == c3 \o buildArgs
           c5 == c4 \o image
           D(s) == SubSeq(s, 3, Len(s))
           Long(s) == s \in Seq(Args) /\ Len(s) >= 2
<1>1. /\ Long(base) /\ options \in Seq(Args) /\ tags \in Seq(Args) /\ labels \in Seq(Args)
      /\ buildArgs \in Seq(Args)
  BY DEF ArgLists, Parts
<1>2. image \in Seq(Args)
  BY DEF Image
<1>3. Compile("build") = c5
  <2>1. parts["context"] = image
    BY DEF Named, Image
  <2> QED BY <2>1 DEF Compile
<1>4. \A s, x : Long(s) /\ x \in Seq(Args) => Long(s \o x) /\ D(s \o x) = D(s) \o x
  BY TailLonger
<1> HIDE DEF Long, D, base, options, tags, labels, buildArgs, image
<1>5. Long(c1) /\ D(c1) = D(base) \o options
  BY <1>1, <1>4
<1> HIDE DEF c1
<1>6. Long(c2) /\ D(c2) = D(c1) \o tags
  BY <1>1, <1>4, <1>5
<1> HIDE DEF c2
<1>7. Long(c3) /\ D(c3) = D(c2) \o labels
  BY <1>1, <1>4, <1>6
<1> HIDE DEF c3
<1>8. Long(c4) /\ D(c4) = D(c3) \o buildArgs
  BY <1>1, <1>4, <1>7
<1> HIDE DEF c4
<1>9. Long(c5) /\ D(c5) = D(c4) \o image
  BY <1>2, <1>4, <1>8
<1>10. D(c4) = FlagsRead(parts)
  <2>1. /\ Body(parts, "base") = D(base) /\ Body(parts, "options") = options
        /\ Body(parts, "tags") = tags /\ Body(parts, "labels") = labels
        /\ Body(parts, "build_args") = buildArgs
    BY DEF Body, D, base, options, tags, labels, buildArgs
  <2>2. /\ Body(parts, "ports") = <<>> /\ Body(parts, "env_vars") = <<>>
        /\ Body(parts, "volumes") = <<>>
    <3>1. "ports" \in Lists \ ListsOf("build") /\ "env_vars" \in Lists \ ListsOf("build")
          /\ "volumes" \in Lists \ ListsOf("build")
      BY DEF Lists, ListsOf
    <3> QED BY <3>1 DEF Named, Body
  <2>3. D(c4) \in Seq(Args)
    BY <1>8, Rest DEF D, Long
  <2>4. ((D(c4) \o <<>>) \o <<>>) \o <<>> = D(c4)
    BY <2>3, ConcatEmptySeq
  <2> QED BY <1>5, <1>6, <1>7, <1>8, <2>1, <2>2, <2>4 DEF FlagsRead
<1> QED BY <1>3, <1>9, <1>10 DEF Long, D, image

\* the first argument that is no flag
LEMMA ImageRead ==
  ASSUME NEW w, Plain(w), NEW a, a[1] \notin Flags
  PROVE  Folds(Rd(w), <<a>>, Rd([w EXCEPT !["image"] = a]))
<1>1. Take(Rd(w), a) = Rd([w EXCEPT !["image"] = a])
  BY DEF Take, Rd, Plain
<1> QED BY <1>1, FoldsOne

\* everything behind it is the command's
LEMMA ArgsRead ==
  ASSUME NEW w, w = [k \in Slots |-> w[k]], w["image"] # <<>>, w["args"] = <<>>,
         NEW words \in Seq(Args)
  PROVE  Folds(Rd(w), words, Rd([w EXCEPT !["args"] = words]))
<1> DEFINE n == Len(words)
           With(x) == [w EXCEPT !["args"] = x]
           g == [i \in 0..n |-> Rd(With(SubSeq(words, 1, i)))]
<1>1. n \in Nat /\ \A i \in 1..n : words[i] \in Args
  OBVIOUS
<1>2. "image" \in Slots /\ "args" \in Slots
  BY DEF Slots, Operands
<1>3. With(<<>>) = w
  BY <1>2
<1>4. \A x : With(x)["image"] # <<>>
  BY <1>2
<1>5. \A x, a : Take(Rd(With(x)), a) = Rd(With(Append(x, a)))
  <2> TAKE x, a
  <2>1. With(x)["args"] = x
    BY <1>2
  <2>2. Take(Rd(With(x)), a) = Rd([With(x) EXCEPT !["args"] = Append(@, a)])
    <3> HIDE DEF With
    <3> QED BY <1>4 DEF Take, Rd
  <2> DEFINE y == Append(x, a)
  <2> HIDE DEF y
  <2>3. [With(x) EXCEPT !["args"] = y] = With(y)
    BY <1>2
  <2> QED BY <2>1, <2>2, <2>3 DEF y
<1>6. SubSeq(words, 1, 0) = <<>>
  BY SubSeqEmpty
<1>7. SubSeq(words, 1, n) = words
  BY SubSeqFull
<1>8. \A i \in 1..n : SubSeq(words, 1, i) = Append(SubSeq(words, 1, i - 1), words[i])
  <2> TAKE i \in 1..n
  <2>1. SubSeq(words, 1, i) = SubSeq(words, 1, i - 1) \o <<words[i]>>
    <3>1. 1 \in 1..n /\ i \in 1..n /\ n = Len(words)
      BY <1>1
    <3> QED BY <3>1, SubSeqRecursiveSecond, Zenon
  <2>2. SubSeq(words, 1, i - 1) \in Seq(Args)
    <3>1. \A j \in 1..(i - 1) : words[j] \in Args
      BY <1>1
    <3> QED BY <1>1, <3>1, SubSeqProperties
  <2> QED BY <1>1, <2>1, <2>2, AppendIsConcat
<1> HIDE DEF With
<1>9. g[0] = Rd(w) /\ g[n] = Rd(With(words))
  <2>1. 0 \in 0..n /\ n \in 0..n
    BY <1>1
  <2>2. g[0] = Rd(With(SubSeq(words, 1, 0))) /\ g[n] = Rd(With(SubSeq(words, 1, n)))
    BY <2>1
  <2> HIDE DEF g, n
  <2> QED BY <1>3, <1>6, <1>7, <2>2
<1>10. \A i \in 1..n : g[i] = Take(g[i - 1], words[i])
  <2> TAKE i \in 1..n
  <2>1. g[i] = Rd(With(SubSeq(words, 1, i))) /\ g[i - 1] = Rd(With(SubSeq(words, 1, i - 1)))
    BY <1>1
  <2> HIDE DEF g
  <2> QED BY <1>5, <1>8, <2>1
<1> HIDE DEF g
<1> QED BY <1>9, <1>10 DEF Folds, With

LEMMA AskedRead ==
  ASSUME WordsAreNoFlags, IInv, asked["image"] # <<>>
  PROVE  Read(Compile(kind)) = asked
<1> DEFINE image == asked["image"]
           args == asked["args"]
           flags == Asked(asked)
           there == [flags EXCEPT !["image"] = image]
           all == [there EXCEPT !["args"] = args]
<1>1. Says(kind, parts, asked) /\ ArgLists(parts) /\ Collected(parts, asked)
      /\ Named(kind, parts, asked)
  BY DEF IInv, Says
<1>2. image \in Args /\ image[1] \notin Flags /\ args \in Seq(Args)
  <2>1. PICK u \in Words : image = <<u>>
    BY <1>1 DEF Named
  <2>2. u \in Texts /\ u \notin Flags
    BY TextFacts DEF WordsAreNoFlags
  <2> QED BY <1>1, <2>1, <2>2 DEF Named, Args
<1>3. "image" \in Slots /\ "args" \in Slots /\ "image" \notin Flags /\ "args" \notin Flags
      /\ asked = [k \in Slots |-> asked[k]] /\ Slots = Flags \cup {"image", "args"}
  BY <1>1, FlagFacts DEF Slots, Operands, Collected
<1>4. FlagsRead(parts) \in Seq(Args) /\ Folds(Rd(Nothing), FlagsRead(parts), Rd(flags))
  BY <1>1, AllRead
<1>5. Plain(flags) /\ flags["args"] = <<>>
  BY <1>3 DEF Asked, Plain
<1>6. Image(asked) \in Seq(Args) /\ Image(asked) = <<image>>
  BY <1>2 DEF Image
<1>7. Folds(Rd(flags), Image(asked), Rd(there))
  <2> HIDE DEF flags, image
  <2> QED BY <1>2, <1>5, <1>6, ImageRead
<1>8. there = [k \in Slots |-> there[k]] /\ there["image"] = image /\ there["args"] = <<>>
  BY <1>3, <1>5 DEF Plain
<1>9. Folds(Rd(there), args, Rd(all))
  <2> HIDE DEF there, args
  <2> QED BY <1>2, <1>8, ArgsRead
<1>10. all = asked
  BY <1>3 DEF Asked
<1> HIDE DEF all, there, flags
<1>11. FlagsRead(parts) \o Image(asked) \in Seq(Args)
       /\ Folds(Rd(Nothing), FlagsRead(parts) \o Image(asked), Rd(there))
  <2>1. FlagsRead(parts) \o Image(asked) \in Seq(Args)
    BY <1>4, <1>6, ConcatProperties
  <2> QED BY <1>4, <1>6, <1>7, <2>1, FoldsBoth
<1>12. CASE kind = "run"
  <2>1. Compile(kind) \in Seq(Args)
        /\ SubSeq(Compile(kind), 3, Len(Compile(kind))) = (FlagsRead(parts) \o Image(asked)) \o args
    BY <1>1, <1>2, <1>12, RunTail
  <2>2. Folds(Rd(Nothing), (FlagsRead(parts) \o Image(asked)) \o args, Rd(asked))
    <3> HIDE DEF args
    <3> QED BY <1>2, <1>9, <1>10, <1>11, FoldsBoth
  <2>3. Read(Compile(kind)) = Rd(asked).values
    BY <2>1, <2>2, ReadIs
  <2> QED BY <2>3 DEF Rd
<1>13. CASE kind = "build"
  <2>1. Compile(kind) \in Seq(Args)
        /\ SubSeq(Compile(kind), 3, Len(Compile(kind))) = FlagsRead(parts) \o Image(asked)
    BY <1>1, <1>2, <1>13, BuildTail
  <2>2. there = asked
    <3>1. args = <<>>
      BY <1>1, <1>13 DEF Named
    <3>2. all = there
      BY <1>3, <1>8, <3>1 DEF all
    <3> QED BY <1>10, <3>2
  <2>3. Folds(Rd(Nothing), FlagsRead(parts) \o Image(asked), Rd(asked))
    BY <1>11, <2>2
  <2>4. Read(Compile(kind)) = Rd(asked).values
    BY <2>1, <2>3, ReadIs
  <2> QED BY <2>4 DEF Rd
<1> QED BY <1>12, <1>13 DEF IInv

--------------------------------------------------------------------------------
(* The theorems *)

LEMMA AlwaysSays == ASSUME WordsAreNoFlags PROVE Spec => []IInv
<1>1. Init => IInv
  BY InitSays
<1>2. IInv /\ [Next]_dvars => IInv'
  BY StepSays
<1> QED BY <1>1, <1>2, PTL DEF Spec

\* Whatever calls are made, a builder holds lists of arguments, and a flag without a
\* value is in the options once: the builder looks for it before it adds it.
THEOREM TypeCorrect == ASSUME WordsAreNoFlags PROVE Spec => []TypeOK
<1>1. Spec => []IInv
  BY AlwaysSays
<1>2. IInv => TypeOK
  <2> SUFFICES ASSUME IInv
               PROVE  TypeOK
    OBVIOUS
  <2>1. \A f \in Bare : Once(parts["options"], f)
    BY DEF IInv, Says, Collected
  <2>2. parts \in [Parts -> Seq(Seq(Texts))] /\ DOMAIN asked = Flags \cup Operands
    BY DEF IInv, Says, ArgLists, Args, Collected, Slots
  <2> QED BY <2>1, <2>2 DEF TypeOK, IInv, Once
<1> QED BY <1>1, <1>2, PTL

\* Docker reads the compiled command as what the calls asked for, however many they
\* were and whatever words they passed that docker would not take for a flag: each
\* list of a builder holds flags of its own only, so their order cannot matter, and
\* the image comes before the command and after every flag.
THEOREM CommandsAsAsked == ASSUME WordsAreNoFlags PROVE Spec => []CompiledAsAsked
<1>1. Spec => []IInv
  BY AlwaysSays
<1>2. IInv => CompiledAsAsked
  BY AskedRead DEF CompiledAsAsked
<1> QED BY <1>1, <1>2, PTL

================================================================================
