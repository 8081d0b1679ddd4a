--------------------------- MODULE ParserProofs ---------------------------
(***************************************************************************)
(* The brackets that the parser consumes are balanced, for sources of any  *)
(* length: however deep its functions call each other, those on the stack  *)
(* are going to close what is open.                                        *)
(*                                                                         *)
(* A walk through the items of the stack says what is still open after     *)
(* each.  Each body closes what it opens (the Body lemmas), so that a call *)
(* puts a detour into the walk, and a token consumed takes its first step. *)
(***************************************************************************)
EXTENDS Parser, SequenceTheorems, WellFoundedInduction, TLAPS

Brackets == {"(", "[", "{", ")", "]", "}"}

Functions ==
  Loops \cup {"type", "expr", "assign rest", "binary", "binary rest", "unary", "postfix", "primary",
              "stmt", "block", "decl", "decl rest", "-> type", ": type", "= expr", "= int",
              "let rest", "value", "else", "else body", "for init", "for post", "fn body",
              "struct init"}

Expected == {"ident", "int", "string", ";", ":", ".", "=", "(", ")", "]", "{", "}"}
Optional == {"mut", ",", ";", "extern", "inline"}

Item ==
  [do : {"parse"}, of : Functions] \cup [do : {"expect"}, of : Expected]
  \cup [do : {"match"}, of : Optional] \cup {Advance, Error}

(* What an item consumes when the current token is t. *)
Token(item, t) ==
  CASE item.do = "expect" -> item.of
    [] item.do = "advance" -> t
    [] OTHER -> ""

Opens == Seq(Closers)

(* What is open after each item of s, beginning with b. *)
Walk(g, b, s, t) ==
  /\ g \in [0 .. Len(s) -> Opens] /\ g[0] = b
  /\ \A i \in 1 .. Len(s) : g[i] = Bracket(g[i - 1], Token(s[i], t))

(* Only the item to be done next is `advance`: the current token is known  *)
(* for no other.                                                           *)
OneAdvance(s) == \A i \in 2 .. Len(s) : s[i].do # "advance"

BracketInv ==
  /\ had_error \in BOOLEAN /\ stack \in Seq(Item) /\ open \in Opens
  /\ \/ had_error
     \/ Todo("error")
     \/ OneAdvance(stack) /\ \E g : Walk(g, open, stack, cur) /\ g[Len(stack)] = << >>

-----------------------------------------------------------------------------
(* A set of numbers with 0 and with the successor of each has them all. *)
LEMMA Induction ==
  ASSUME NEW T, 0 \in T, \A n \in Nat : n \in T => n + 1 \in T
  PROVE  Nat \subseteq T
<1> SUFFICES ASSUME Nat \ T # {} PROVE FALSE
  OBVIOUS
<1>1. PICK x \in Nat \ T : \A y \in Nat \ T : <<y, x>> \notin OpToRel(<, Nat)
  <2>1. Nat \ T \subseteq Nat
    OBVIOUS
  <2> QED BY <2>1, NatLessThanWellFounded, WFMin
<1>2. x # 0 /\ x - 1 \in Nat /\ x - 1 < x
  OBVIOUS
<1>3. x - 1 \in T
  <2>1. <<x - 1, x>> \in OpToRel(<, Nat)
    <3>1. <<x - 1, x>> \in Nat \X Nat /\ <<x - 1, x>>[1] < <<x - 1, x>>[2]
      BY <1>2
    <3> QED BY <3>1, Zenon DEF OpToRel
  <2> QED BY <1>1, <1>2, <2>1
<1> QED BY <1>2, <1>3

-----------------------------------------------------------------------------
(* A body that consumes no bracket, or one pair of them. *)
Silent(s, t) == \A i \in 1 .. Len(s) : Token(s[i], t) \notin Brackets

Pair(s, t, o, c) ==
  /\ o \in 1 .. Len(s) /\ c \in 1 .. Len(s) /\ o < c
  /\ Token(s[o], t) \in DOMAIN Closer /\ Token(s[c], t) = Closer[Token(s[o], t)]
  /\ \A i \in 1 .. Len(s) : i # o /\ i # c => Token(s[i], t) \notin Brackets

(* What a body may be: it closes what it opens, or begins with an error. *)
Fine(s, t) ==
  /\ s \in Seq(Item)
  /\ \/ s # << >> /\ s[1] = Error
     \/ OneAdvance(s) /\ (Silent(s, t) \/ \E o, c \in 1 .. Len(s) : Pair(s, t, o, c))

LEMMA ClosersFacts ==
  /\ DOMAIN Closer = {"(", "[", "{"}
  /\ Closer["("] = ")" /\ Closer["["] = "]" /\ Closer["{"] = "}"
  /\ Closers = {")", "]", "}"}
BY DEF Closer, Closers

LEMMA BracketFacts ==
  ASSUME NEW b \in Opens, NEW t
  PROVE  /\ Bracket(b, t) \in Opens
         /\ t \notin Brackets => Bracket(b, t) = b
         /\ t \in DOMAIN Closer =>
               /\ Bracket(b, t) = <<Closer[t]>> \o b
               /\ Bracket(<<Closer[t]>> \o b, Closer[t]) = b
<1>1. CASE t \in DOMAIN Closer
  <2> DEFINE c == Closer[t]
  <2>1. c \in Closers /\ c \notin DOMAIN Closer
    BY <1>1, ClosersFacts
  <2>2. /\ <<c>> \o b \in Opens /\ <<c>> \o b # << >>
        /\ Head(<<c>> \o b) = c /\ Tail(<<c>> \o b) = b
    BY <2>1 DEF Opens
  <2> HIDE DEF c
  <2>3. Bracket(<<c>> \o b, c) = b
    BY <2>1, <2>2 DEF Bracket
  <2>4. Bracket(b, t) = <<c>> \o b
    BY <1>1 DEF Bracket, c
  <2>5. t \in Brackets
    BY <1>1, ClosersFacts DEF Brackets
  <2> QED BY <2>2, <2>3, <2>4, <2>5 DEF c
<1>2. CASE t \notin DOMAIN Closer /\ t \in Closers
  <2>1. b # << >> => Tail(b) \in Opens
    BY DEF Opens
  <2>2. <<t>> \o b \in Opens
    BY <1>2 DEF Opens
  <2>3. t \in Brackets
    BY <1>2, ClosersFacts DEF Brackets
  <2> QED BY <1>2, <2>1, <2>2, <2>3 DEF Bracket
<1>3. CASE t \notin DOMAIN Closer /\ t \notin Closers
  BY <1>3 DEF Bracket
<1> QED BY <1>1, <1>2, <1>3

(* The walk through a fine body ends where it began. *)
LEMMA FineWalk ==
  ASSUME NEW s \in Seq(Item), NEW t, NEW b \in Opens,
         Silent(s, t) \/ \E o, c \in 1 .. Len(s) : Pair(s, t, o, c)
  PROVE  \E g : Walk(g, b, s, t) /\ g[Len(s)] = b
<1>0. Len(s) \in Nat
  OBVIOUS
<1>1. CASE Silent(s, t)
  <2> DEFINE g == [i \in 0 .. Len(s) |-> b]
  <2>1. g \in [0 .. Len(s) -> Opens] /\ g[0] = b /\ g[Len(s)] = b
    BY <1>0
  <2>2. ASSUME NEW i \in 1 .. Len(s) PROVE g[i] = Bracket(g[i - 1], Token(s[i], t))
    <3>1. g[i] = b /\ g[i - 1] = b
      BY <1>0
    <3> QED BY <1>1, <3>1, BracketFacts DEF Silent
  <2> HIDE DEF g
  <2> QED BY <2>1, <2>2 DEF Walk
<1>2. ASSUME NEW o \in 1 .. Len(s), NEW c \in 1 .. Len(s), Pair(s, t, o, c)
      PROVE  \E g : Walk(g, b, s, t) /\ g[Len(s)] = b
  <2> DEFINE k == Closer[Token(s[o], t)]
             inner == <<k>> \o b
             g == [i \in 0 .. Len(s) |-> IF o <= i /\ i < c THEN inner ELSE b]
  <2>1. /\ o < c /\ Token(s[o], t) \in DOMAIN Closer /\ Token(s[c], t) = k
        /\ \A i \in 1 .. Len(s) : i # o /\ i # c => Token(s[i], t) \notin Brackets
    BY <1>2 DEF Pair
  <2>2. inner \in Opens /\ Bracket(b, Token(s[o], t)) = inner /\ Bracket(inner, k) = b
    BY <2>1, BracketFacts
  <2> HIDE DEF inner, k
  <2>3. g \in [0 .. Len(s) -> Opens] /\ g[0] = b /\ g[Len(s)] = b
    BY <1>0, <2>1, <2>2
  <2>4. ASSUME NEW i \in 1 .. Len(s) PROVE g[i] = Bracket(g[i - 1], Token(s[i], t))
    <3>1. CASE i = o
      BY <1>0, <2>1, <2>2, <3>1
    <3>2. CASE i = c
      BY <1>0, <2>1, <2>2, <3>2
    <3>3. CASE i # o /\ i # c
      <4>1. g[i] = g[i - 1] /\ g[i] \in Opens
        BY <1>0, <2>1, <2>2, <3>3
      <4> QED BY <2>1, <3>3, <4>1, BracketFacts
    <3> QED BY <3>1, <3>2, <3>3
  <2> HIDE DEF g
  <2> QED BY <2>3, <2>4 DEF Walk
<1> QED BY <1>1, <1>2


-----------------------------------------------------------------------------
(* The bodies. *)

(* The items that may come after the first, and those that consume no bracket. *)
Later == {x \in Item : x.do # "advance"}
Mute(t) == {x \in Item : Token(x, t) \notin Brackets}

LEMMA Items ==
  ASSUME NEW t
  PROVE  /\ \A f \in Functions : Parse(f) \in Mute(t) \cap Later
         /\ \A u \in Expected : Expect(u) \in Later /\ Token(Expect(u), t) = u
         /\ \A u \in Expected \ Brackets : Expect(u) \in Mute(t)
         /\ \A u \in Optional : Match(u) \in Mute(t) \cap Later
         /\ Advance \in Item /\ Token(Advance, t) = t
         /\ t \notin Brackets => Advance \in Mute(t)
         /\ Error \in Item
<1>1. ASSUME NEW f \in Functions PROVE Parse(f) \in Mute(t) \cap Later
  BY DEF Item, Parse, Token, Mute, Later, Brackets
<1>2. ASSUME NEW u \in Expected PROVE Expect(u) \in Later /\ Token(Expect(u), t) = u
  BY DEF Item, Expect, Token, Later
<1>3. ASSUME NEW u \in Expected \ Brackets PROVE Expect(u) \in Mute(t)
  BY <1>2 DEF Mute, Later
<1>4. ASSUME NEW u \in Optional PROVE Match(u) \in Mute(t) \cap Later
  BY DEF Item, Match, Token, Mute, Later, Brackets
<1>5. Advance \in Item /\ Token(Advance, t) = t /\ Error \in Item
  BY DEF Item, Token, Advance, Error
<1> QED BY <1>1, <1>2, <1>3, <1>4, <1>5 DEF Mute

(* Bodies that consume no bracket. *)
LEMMA SilentTuples ==
  ASSUME NEW t
  PROVE
    /\ \A a \in Mute(t) : Fine(<<a>>, t)
    /\ \A a \in Mute(t), b \in Mute(t) \cap Later : Fine(<<a, b>>, t)
    /\ \A a \in Mute(t), b, c \in Mute(t) \cap Later : Fine(<<a, b, c>>, t)
    /\ \A a \in Mute(t), b, c, d \in Mute(t) \cap Later : Fine(<<a, b, c, d>>, t)
    /\ \A a \in Mute(t), b, c, d, e \in Mute(t) \cap Later : Fine(<<a, b, c, d, e>>, t)
    /\ \A a \in Mute(t), b, c, d, e, f \in Mute(t) \cap Later : Fine(<<a, b, c, d, e, f>>, t)
<1> USE DEF Fine, OneAdvance, Silent
<1>1. ASSUME NEW a \in Mute(t)
      PROVE  Fine(<<a>>, t)
  <2> /\ {a} \subseteq Item /\ \A x \in {a} : Token(x, t) \notin Brackets
    BY DEF Mute, Later
  <2> QED OBVIOUS
<1>2. ASSUME NEW a \in Mute(t), NEW b \in Mute(t) \cap Later
      PROVE  Fine(<<a, b>>, t)
  <2> /\ {a, b} \subseteq Item /\ \A x \in {a, b} : Token(x, t) \notin Brackets
      /\ \A x \in {b} : x.do # "advance"
    BY DEF Mute, Later
  <2> QED OBVIOUS
<1>3. ASSUME NEW a \in Mute(t), NEW b \in Mute(t) \cap Later, NEW c \in Mute(t) \cap Later
      PROVE  Fine(<<a, b, c>>, t)
  <2> /\ {a, b, c} \subseteq Item /\ \A x \in {a, b, c} : Token(x, t) \notin Brackets
      /\ \A x \in {b, c} : x.do # "advance"
    BY DEF Mute, Later
  <2> QED OBVIOUS
<1>4. ASSUME NEW a \in Mute(t), NEW b \in Mute(t) \cap Later, NEW c \in Mute(t) \cap Later, NEW d \in Mute(t) \cap Later
      PROVE  Fine(<<a, b, c, d>>, t)
  <2> /\ {a, b, c, d} \subseteq Item /\ \A x \in {a, b, c, d} : Token(x, t) \notin Brackets
      /\ \A x \in {b, c, d} : x.do # "advance"
    BY DEF Mute, Later
  <2> QED OBVIOUS
<1>5. ASSUME NEW a \in Mute(t), NEW b \in Mute(t) \cap Later, NEW c \in Mute(t) \cap Later, NEW d \in Mute(t) \cap Later, NEW e \in Mute(t) \cap Later
      PROVE  Fine(<<a, b, c, d, e>>, t)
  <2> /\ {a, b, c, d, e} \subseteq Item /\ \A x \in {a, b, c, d, e} : Token(x, t) \notin Brackets
      /\ \A x \in {b, c, d, e} : x.do # "advance"
    BY DEF Mute, Later
  <2> QED OBVIOUS
<1>6. ASSUME NEW a \in Mute(t), NEW b \in Mute(t) \cap Later, NEW c \in Mute(t) \cap Later, NEW d \in Mute(t) \cap Later, NEW e \in Mute(t) \cap Later, NEW f \in Mute(t) \cap Later
      PROVE  Fine(<<a, b, c, d, e, f>>, t)
  <2> /\ {a, b, c, d, e, f} \subseteq Item /\ \A x \in {a, b, c, d, e, f} : Token(x, t) \notin Brackets
      /\ \A x \in {b, c, d, e, f} : x.do # "advance"
    BY DEF Mute, Later
  <2> QED OBVIOUS
<1> QED BY <1>1, <1>2, <1>3, <1>4, <1>5, <1>6

(* The items o and c consume a pair of brackets. *)
Matching(o, c, t) ==
  o \in Item /\ c \in Later /\ Token(o, t) \in DOMAIN Closer /\ Token(c, t) = Closer[Token(o, t)]

LEMMA PairFirst ==
  ASSUME NEW t, NEW o, NEW c, Matching(o, c, t),
         NEW x \in Mute(t) \cap Later, NEW y \in Mute(t) \cap Later
  PROVE  Fine(<<o, c, x>>, t) /\ Fine(<<o, x, c>>, t) /\ Fine(<<o, x, c, y>>, t)
<1> /\ {o, c, x, y} \subseteq Item
    /\ c.do # "advance" /\ x.do # "advance" /\ y.do # "advance"
    /\ Token(x, t) \notin Brackets /\ Token(y, t) \notin Brackets
    /\ Token(o, t) \in DOMAIN Closer /\ Token(c, t) = Closer[Token(o, t)]
  BY DEF Mute, Later, Matching
<1>1. Fine(<<o, c, x>>, t)
  <2>1. Pair(<<o, c, x>>, t, 1, 2)
    BY DEF Pair
  <2> QED BY <2>1 DEF Fine, OneAdvance
<1>2. Fine(<<o, x, c>>, t)
  <2>1. Pair(<<o, x, c>>, t, 1, 3)
    BY DEF Pair
  <2> QED BY <2>1 DEF Fine, OneAdvance
<1>3. Fine(<<o, x, c, y>>, t)
  <2>1. Pair(<<o, x, c, y>>, t, 1, 3)
    BY DEF Pair
  <2> QED BY <2>1 DEF Fine, OneAdvance
<1> QED BY <1>1, <1>2, <1>3

LEMMA PairSecond ==
  ASSUME NEW t, NEW o, NEW c, Matching(o, c, t), o \in Later, NEW a \in Mute(t),
         NEW x \in Mute(t) \cap Later, NEW y \in Mute(t) \cap Later
  PROVE  Fine(<<a, o, x, c>>, t) /\ Fine(<<a, o, x, c, y>>, t)
<1> /\ {o, c, a, x, y} \subseteq Item
    /\ o.do # "advance" /\ c.do # "advance" /\ \A i \in {x, y} : i.do # "advance"
    /\ \A i \in {a, x, y} : Token(i, t) \notin Brackets
    /\ Token(o, t) \in DOMAIN Closer /\ Token(c, t) = Closer[Token(o, t)]
  BY DEF Mute, Later, Matching
<1>1. Fine(<<a, o, x, c>>, t)
  <2>1. Pair(<<a, o, x, c>>, t, 2, 4)
    BY DEF Pair
  <2> QED BY <2>1 DEF Fine, OneAdvance
<1>2. Fine(<<a, o, x, c, y>>, t)
  <2>1. Pair(<<a, o, x, c, y>>, t, 2, 4)
    BY DEF Pair
  <2> QED BY <2>1 DEF Fine, OneAdvance
<1> QED BY <1>1, <1>2

LEMMA PairThird ==
  ASSUME NEW t, NEW o, NEW c, Matching(o, c, t), o \in Later, NEW a \in Mute(t),
         NEW b \in Mute(t) \cap Later, NEW x \in Mute(t) \cap Later, NEW y \in Mute(t) \cap Later,
         NEW z \in Mute(t) \cap Later
  PROVE  Fine(<<a, b, o, x, c>>, t) /\ Fine(<<a, b, o, x, c, y, z>>, t)
<1> /\ {o, c, a, b, x, y, z} \subseteq Item
    /\ o.do # "advance" /\ c.do # "advance" /\ \A i \in {b, x, y, z} : i.do # "advance"
    /\ \A i \in {a, b, x, y, z} : Token(i, t) \notin Brackets
    /\ Token(o, t) \in DOMAIN Closer /\ Token(c, t) = Closer[Token(o, t)]
  BY DEF Mute, Later, Matching
<1>1. Fine(<<a, b, o, x, c>>, t)
  <2>1. Pair(<<a, b, o, x, c>>, t, 3, 5)
    BY DEF Pair
  <2> QED BY <2>1 DEF Fine, OneAdvance
<1>2. Fine(<<a, b, o, x, c, y, z>>, t)
  <2>1. Pair(<<a, b, o, x, c, y, z>>, t, 3, 5)
    BY DEF Pair
  <2> QED BY <2>1 DEF Fine, OneAdvance
<1> QED BY <1>1, <1>2

LEMMA PairFourth ==
  ASSUME NEW t, NEW o, NEW c, Matching(o, c, t), o \in Later, NEW a \in Mute(t),
         NEW b \in Mute(t) \cap Later, NEW d \in Mute(t) \cap Later, NEW x \in Mute(t) \cap Later
  PROVE  Fine(<<a, b, d, o, x, c>>, t)
<1> /\ {o, c, a, b, d, x} \subseteq Item
    /\ o.do # "advance" /\ c.do # "advance" /\ \A i \in {b, d, x} : i.do # "advance"
    /\ \A i \in {a, b, d, x} : Token(i, t) \notin Brackets
    /\ Token(o, t) \in DOMAIN Closer /\ Token(c, t) = Closer[Token(o, t)]
  BY DEF Mute, Later, Matching
<1>1. Fine(<<a, b, d, o, x, c>>, t)
  <2>1. Pair(<<a, b, d, o, x, c>>, t, 4, 6)
    BY DEF Pair
  <2> QED BY <2>1 DEF Fine, OneAdvance
<1> QED BY <1>1

(* The two ways a pair of brackets begins: with the current token, or with *)
(* one that is expected. *)
LEMMA Matchings ==
  /\ cur = "(" => Matching(Advance, Expect(")"), cur)
  /\ cur = "[" => Matching(Advance, Expect("]"), cur)
  /\ cur = "{" => Matching(Advance, Expect("}"), cur)
  /\ Matching(Expect("("), Expect(")"), cur) /\ Expect("(") \in Later
  /\ Matching(Expect("{"), Expect("}"), cur) /\ Expect("{") \in Later
<1>1. {"(", ")", "]", "{", "}"} \subseteq Expected
  BY DEF Expected
<1>2. Later \subseteq Item
  BY DEF Later
<1>3. \A u \in Expected : Expect(u) \in Item
  BY <1>2, Items
<1>4. ASSUME NEW o \in {"(", "{"} PROVE Matching(Expect(o), Expect(Closer[o]), cur) /\ Expect(o) \in Later
  <2>1. o \in Expected /\ Closer[o] \in Expected /\ o \in DOMAIN Closer
    BY <1>1, <1>4, ClosersFacts
  <2> QED BY <1>3, <2>1, Items DEF Matching
<1>5. ASSUME cur \in {"(", "[", "{"} PROVE Matching(Advance, Expect(Closer[cur]), cur)
  <2>1. cur \in DOMAIN Closer /\ Closer[cur] \in Expected
    BY <1>1, <1>5, ClosersFacts
  <2> QED BY <2>1, Items DEF Matching
<1> QED BY <1>4, <1>5, ClosersFacts

LEMMA Nothing == Fine(Done, cur)
BY DEF Fine, OneAdvance, Silent, Done

LEMMA Errors == Fine(<<Error>>, cur) /\ Fine(<<Error, Advance>>, cur)
BY Items DEF Fine

(* Constants of the bodies, to be cited together. *)
LEMMA Words ==
  /\ {"ident", "int", "string", ";", ":", ".", "="} \subseteq Expected \ Brackets
  /\ Optional = {"mut", ",", ";", "extern", "inline"}
BY DEF Expected, Optional, Brackets

(* The current token opens nothing, and a pair in brackets is expected. *)
LEMMA Parenthesised ==
  ASSUME cur \notin Brackets
  PROVE  /\ Advance \in Mute(cur)
         /\ \A x, y \in Mute(cur) \cap Later :
               /\ Fine(<<Advance, Expect("("), x, Expect(")")>>, cur)
               /\ Fine(<<Advance, Expect("("), x, Expect(")"), y>>, cur)
<1>1. Advance \in Mute(cur)
  BY Items
<1>2. ASSUME NEW x \in Mute(cur) \cap Later, NEW y \in Mute(cur) \cap Later
      PROVE  /\ Fine(<<Advance, Expect("("), x, Expect(")")>>, cur)
             /\ Fine(<<Advance, Expect("("), x, Expect(")"), y>>, cur)
  BY <1>1, Matchings, PairSecond
<1> QED BY <1>1, <1>2

LEMMA TypeBodyFine == Fine(TypeBody, cur)
<1> {"type", "fn types", "-> type"} \subseteq Functions
  BY DEF Functions, Loops
<1>1. CASE cur = "*"
  <2>1. TypeBody = <<Advance, Match("mut"), Parse("type")>>
    BY <1>1 DEF TypeBody, Is
  <2>2. Advance \in Mute(cur)
    BY <1>1, Items DEF Brackets
  <2> QED BY <2>1, <2>2, Words, Items, SilentTuples
<1>2. CASE cur = "[" /\ peek = "]"
  <2>1. TypeBody = <<Advance, Expect("]"), Parse("type")>>
    BY <1>2 DEF TypeBody, Is
  <2> QED BY <1>2, <2>1, Matchings, Words, Items, PairFirst
<1>3. CASE cur = "[" /\ peek # "]"
  <2>1. TypeBody = <<Advance, Expect("int"), Expect("]"), Parse("type")>>
    BY <1>3 DEF TypeBody, Is
  <2> QED BY <1>3, <2>1, Matchings, Words, Items, PairFirst
<1>4. CASE cur = "fn"
  <2>1. TypeBody = <<Advance, Expect("("), Parse("fn types"), Expect(")"), Parse("-> type")>>
    BY <1>4 DEF TypeBody, Is
  <2>2. cur \notin Brackets
    BY <1>4 DEF Brackets
  <2> QED BY <2>1, <2>2, Items, Parenthesised
<1>5. CASE cur \in {"primitive", "ident"}
  <2>1. TypeBody = <<Advance>>
    BY <1>5 DEF TypeBody, Is
  <2>2. Advance \in Mute(cur)
    BY <1>5, Items DEF Brackets
  <2> QED BY <2>1, <2>2, Words, Items, SilentTuples
<1>6. CASE cur \notin {"*", "[", "fn", "primitive", "ident"}
  <2>1. TypeBody = <<Error>>
    BY <1>6 DEF TypeBody, Is
  <2> QED BY <2>1, Errors
<1> QED BY <1>1, <1>2, <1>3, <1>4, <1>5, <1>6

LEMMA UnaryBodyFine == Fine(UnaryBody, cur)
<1> {"type", "unary", "primary", "postfix"} \subseteq Functions
  BY DEF Functions, Loops
<1>1. CASE cur = "&"
  <2>1. UnaryBody = <<Advance, Match("mut"), Parse("unary")>>
    BY <1>1 DEF UnaryBody, Is, UnaryOps
  <2>2. Advance \in Mute(cur)
    BY <1>1, Items DEF Brackets, UnaryOps
  <2> QED BY <2>1, <2>2, Words, Items, SilentTuples
<1>2. CASE cur \in UnaryOps \ {"&"}
  <2>1. UnaryBody = <<Advance, Parse("unary")>>
    BY <1>2 DEF UnaryBody, Is, UnaryOps
  <2>2. Advance \in Mute(cur)
    BY <1>2, Items DEF Brackets, UnaryOps
  <2> QED BY <2>1, <2>2, Words, Items, SilentTuples
<1>3. CASE cur = "sizeof"
  <2>1. UnaryBody = <<Advance, Expect("("), Parse("type"), Expect(")")>>
    BY <1>3 DEF UnaryBody, Is, UnaryOps
  <2>2. cur \notin Brackets
    BY <1>3 DEF Brackets, UnaryOps
  <2> QED BY <2>1, <2>2, Items, Parenthesised
<1>4. CASE cur \notin UnaryOps \cup {"sizeof"}
  <2>1. UnaryBody = <<Parse("primary"), Parse("postfix")>>
    BY <1>4 DEF UnaryBody, Is, UnaryOps
  <2> QED BY <2>1, Words, Items, SilentTuples
<1> QED BY <1>1, <1>2, <1>3, <1>4

LEMMA PostfixBodyFine == Fine(PostfixBody, cur)
<1> {"arguments", "expr", "postfix", "type"} \subseteq Functions
  BY DEF Functions, Loops
<1>1. CASE cur = "("
  <2>1. PostfixBody = <<Advance, Parse("arguments"), Expect(")"), Parse("postfix")>>
    BY <1>1 DEF PostfixBody, Is
  <2> QED BY <1>1, <2>1, Matchings, Words, Items, PairFirst
<1>2. CASE cur = "["
  <2>1. PostfixBody = <<Advance, Parse("expr"), Expect("]"), Parse("postfix")>>
    BY <1>2 DEF PostfixBody, Is
  <2> QED BY <1>2, <2>1, Matchings, Words, Items, PairFirst
<1>3. CASE cur = "."
  <2>1. PostfixBody = <<Advance, Expect("ident"), Parse("postfix")>>
    BY <1>3 DEF PostfixBody, Is
  <2>2. Advance \in Mute(cur)
    BY <1>3, Items DEF Brackets
  <2> QED BY <2>1, <2>2, Words, Items, SilentTuples
<1>4. CASE cur = "++"
  <2>1. PostfixBody = <<Advance, Parse("postfix")>>
    BY <1>4 DEF PostfixBody, Is
  <2>2. Advance \in Mute(cur)
    BY <1>4, Items DEF Brackets
  <2> QED BY <2>1, <2>2, Words, Items, SilentTuples
<1>5. CASE cur = "as"
  <2>1. PostfixBody = <<Advance, Parse("type"), Parse("postfix")>>
    BY <1>5 DEF PostfixBody, Is
  <2>2. Advance \in Mute(cur)
    BY <1>5, Items DEF Brackets
  <2> QED BY <2>1, <2>2, Words, Items, SilentTuples
<1>6. CASE cur \notin {"(", "[", ".", "++", "as"}
  <2>1. PostfixBody = Done
    BY <1>6 DEF PostfixBody, Is
  <2> QED BY <2>1, Nothing
<1> QED BY <1>1, <1>2, <1>3, <1>4, <1>5, <1>6

LEMMA PrimaryBodyFine == Fine(PrimaryBody, cur)
<1> {"struct init", "elements", "expr"} \subseteq Functions
  BY DEF Functions, Loops
<1>1. CASE cur \in {"int", "literal", "string"}
  <2>1. PrimaryBody = <<Advance>>
    BY <1>1 DEF PrimaryBody, Is
  <2>2. Advance \in Mute(cur)
    BY <1>1, Items DEF Brackets
  <2> QED BY <2>1, <2>2, Words, Items, SilentTuples
<1>2. CASE cur = "ident"
  <2>1. PrimaryBody = <<Advance, Parse("struct init")>>
    BY <1>2 DEF PrimaryBody, Is
  <2>2. Advance \in Mute(cur)
    BY <1>2, Items DEF Brackets
  <2> QED BY <2>1, <2>2, Words, Items, SilentTuples
<1>3. CASE cur = "["
  <2>1. PrimaryBody = <<Advance, Parse("elements"), Expect("]")>>
    BY <1>3 DEF PrimaryBody, Is
  <2> QED BY <1>3, <2>1, Matchings, Words, Items, PairFirst
<1>4. CASE cur = "("
  <2>1. PrimaryBody = <<Advance, Parse("expr"), Expect(")")>>
    BY <1>4 DEF PrimaryBody, Is
  <2> QED BY <1>4, <2>1, Matchings, Words, Items, PairFirst
<1>5. CASE cur \notin {"int", "literal", "string", "ident", "[", "("}
  <2>1. PrimaryBody = <<Error, Advance>>
    BY <1>5 DEF PrimaryBody, Is
  <2> QED BY <2>1, Errors
<1> QED BY <1>1, <1>2, <1>3, <1>4, <1>5

LEMMA StmtBodyFine == Fine(StmtBody, cur)
<1> {"block", "let rest", "value", "expr", "else", "for init", "for post", "stmt"} \subseteq Functions
  BY DEF Functions, Loops
<1>1. CASE cur = "{"
  <2>1. StmtBody = <<Parse("block")>>
    BY <1>1 DEF StmtBody, Is
  <2> QED BY <2>1, Words, Items, SilentTuples
<1>2. CASE cur = "let"
  <2>1. StmtBody = <<Advance, Match("mut"), Expect("ident"), Parse("let rest"), Expect(";")>>
    BY <1>2 DEF StmtBody, Is
  <2>2. Advance \in Mute(cur)
    BY <1>2, Items DEF Brackets
  <2> QED BY <2>1, <2>2, Words, Items, SilentTuples
<1>3. CASE cur = "return"
  <2>1. StmtBody = <<Advance, Parse("value"), Expect(";")>>
    BY <1>3 DEF StmtBody, Is
  <2>2. Advance \in Mute(cur)
    BY <1>3, Items DEF Brackets
  <2> QED BY <2>1, <2>2, Words, Items, SilentTuples
<1>4. CASE cur = "if"
  <2>1. StmtBody = <<Advance, Parse("expr"), Parse("block"), Parse("else")>>
    BY <1>4 DEF StmtBody, Is
  <2>2. Advance \in Mute(cur)
    BY <1>4, Items DEF Brackets
  <2> QED BY <2>1, <2>2, Words, Items, SilentTuples
<1>5. CASE cur = "while"
  <2>1. StmtBody = <<Advance, Parse("expr"), Parse("block")>>
    BY <1>5 DEF StmtBody, Is
  <2>2. Advance \in Mute(cur)
    BY <1>5, Items DEF Brackets
  <2> QED BY <2>1, <2>2, Words, Items, SilentTuples
<1>6. CASE cur = "for"
  <2>1. StmtBody = <<Advance, Parse("for init"), Parse("value"), Expect(";"), Parse("for post"), Parse("block")>>
    BY <1>6 DEF StmtBody, Is
  <2>2. Advance \in Mute(cur)
    BY <1>6, Items DEF Brackets
  <2> QED BY <2>1, <2>2, Words, Items, SilentTuples
<1>7. CASE cur = "break"
  <2>1. StmtBody = <<Advance, Expect(";")>>
    BY <1>7 DEF StmtBody, Is
  <2>2. Advance \in Mute(cur)
    BY <1>7, Items DEF Brackets
  <2> QED BY <2>1, <2>2, Words, Items, SilentTuples
<1>8. CASE cur = "defer"
  <2>1. StmtBody = <<Advance, Parse("stmt")>>
    BY <1>8 DEF StmtBody, Is
  <2>2. Advance \in Mute(cur)
    BY <1>8, Items DEF Brackets
  <2> QED BY <2>1, <2>2, Words, Items, SilentTuples
<1>9. CASE cur \notin {"{", "let", "return", "if", "while", "for", "break", "defer"}
  <2>1. StmtBody = <<Parse("expr"), Expect(";")>>
    BY <1>9 DEF StmtBody, Is
  <2> QED BY <2>1, Words, Items, SilentTuples
<1> QED BY <1>1, <1>2, <1>3, <1>4, <1>5, <1>6, <1>7, <1>8, <1>9

LEMMA DeclBodyFine == Fine(DeclBody, cur)
<1> {"params", "-> type", "fn body", "fields", ": type", "variants", "= expr"} \subseteq Functions
  BY DEF Functions, Loops
<1>1. CASE cur = "fn"
  <2>1. DeclBody = <<Advance, Expect("ident"), Expect("("), Parse("params"), Expect(")"), Parse("-> type"), Parse("fn body")>>
    BY <1>1 DEF DeclBody, Is
  <2>2. Advance \in Mute(cur)
    BY <1>1, Items DEF Brackets
  <2> QED BY <2>1, <2>2, Matchings, Words, Items, PairThird
<1>2. CASE cur = "struct"
  <2>1. DeclBody = <<Advance, Expect("ident"), Expect("{"), Parse("fields"), Expect("}")>>
    BY <1>2 DEF DeclBody, Is
  <2>2. Advance \in Mute(cur)
    BY <1>2, Items DEF Brackets
  <2> QED BY <2>1, <2>2, Matchings, Words, Items, PairThird
<1>3. CASE cur = "enum"
  <2>1. DeclBody = <<Advance, Expect("ident"), Parse(": type"), Expect("{"), Parse("variants"), Expect("}")>>
    BY <1>3 DEF DeclBody, Is
  <2>2. Advance \in Mute(cur)
    BY <1>3, Items DEF Brackets
  <2> QED BY <2>1, <2>2, Matchings, Words, Items, PairFourth
<1>4. CASE cur = "import"
  <2>1. DeclBody = <<Advance, Expect("string"), Expect(";")>>
    BY <1>4 DEF DeclBody, Is
  <2>2. Advance \in Mute(cur)
    BY <1>4, Items DEF Brackets
  <2> QED BY <2>1, <2>2, Words, Items, SilentTuples
<1>5. CASE cur = "let"
  <2>1. DeclBody = <<Advance, Expect("ident"), Parse(": type"), Parse("= expr"), Expect(";")>>
    BY <1>5 DEF DeclBody, Is
  <2>2. Advance \in Mute(cur)
    BY <1>5, Items DEF Brackets
  <2> QED BY <2>1, <2>2, Words, Items, SilentTuples
<1>6. CASE cur \notin {"fn", "struct", "enum", "import", "let"}
  <2>1. DeclBody = <<Error, Advance>>
    BY <1>6 DEF DeclBody, Is
  <2> QED BY <2>1, Errors
<1> QED BY <1>1, <1>2, <1>3, <1>4, <1>5, <1>6


LEMMA Two ==
  ASSUME NEW a, NEW b
  PROVE  <<a>> \o <<b>> = <<a, b>>
<1> DEFINE s == <<a>>  t == <<b>>  r == <<a, b>>
<1>1. /\ s \in Seq({a, b}) /\ Len(s) = 1 /\ s[1] = a
      /\ t \in Seq({a, b}) /\ Len(t) = 1 /\ t[1] = b
      /\ r \in Seq({a, b}) /\ Len(r) = 2 /\ r[1] = a /\ r[2] = b
  OBVIOUS
<1> HIDE DEF s, t, r
<1>2. s \o t \in Seq({a, b}) /\ Len(s \o t) = 2 /\ (s \o t)[1] = a /\ (s \o t)[2] = b
  BY <1>1, ConcatProperties
<1>3. s \o t = r
  BY <1>1, <1>2, SeqEqual
<1> QED BY <1>3 DEF s, t, r

LEMMA UntilFine ==
  ASSUME NEW close, NEW body, Fine(body, cur)
  PROVE  Fine(Until(close, body), cur)
BY Nothing DEF Until

(* An item that the current token leads to. *)
LEMMA GivenFine ==
  ASSUME NEW tokens, tokens \cap Brackets = {}, NEW x \in Mute(cur) \cap Later
  PROVE  Fine(Given(tokens, <<x>>), cur)
<1>1. CASE cur \in tokens
  <2>1. Given(tokens, <<x>>) = <<Advance, x>>
    BY <1>1, Two DEF Given, Is
  <2>2. Advance \in Mute(cur)
    BY <1>1, Items
  <2> QED BY <2>1, <2>2, SilentTuples
<1>2. CASE cur \notin tokens
  BY <1>2, Nothing DEF Given, Is
<1> QED BY <1>1, <1>2

LEMMA CommaFine ==
  ASSUME NEW loop \in Functions
  PROVE  Fine(Comma(loop), cur)
<1>1. Comma(loop) = Given({","}, <<Parse(loop)>>)
  BY Two DEF Comma, Given
<1>2. {","} \cap Brackets = {}
  BY DEF Brackets
<1> QED BY <1>1, <1>2, Items, GivenFine

LEMMA LoopBodyFine ==
  ASSUME NEW f \in Loops
  PROVE  Fine(LoopBody(f), cur)
<1>0. Loops \subseteq Functions /\ {"decl", "type", "expr", "stmt", "= int"} \subseteq Functions
  BY DEF Functions
<1> DEFINE dots == <<Advance>>
<1>d. cur = "..." => Fine(dots, cur)
  <2>1. cur = "..." => Advance \in Mute(cur)
    BY Items DEF Brackets
  <2> QED BY <2>1, SilentTuples
<1> HIDE DEF dots
<1>1. CASE f = "module"
  <2>1. LoopBody(f) = IF cur = "eof" THEN Done ELSE <<Parse("decl"), Parse("module")>>
    BY <1>1 DEF LoopBody, Is
  <2>2. Fine(<<Parse("decl"), Parse("module")>>, cur)
    BY <1>0, <1>1, Items, SilentTuples
  <2> QED BY <2>1, <2>2, Nothing
<1>2. CASE f = "params"
  <2>1. LoopBody(f) = IF cur = "..." THEN dots
                      ELSE Until(")", <<Expect("ident"), Expect(":"), Parse("type"), Parse("params,")>>)
    BY <1>2 DEF LoopBody, Is, dots
  <2>2. {"type", "params,"} \subseteq Functions
    BY <1>0 DEF Loops
  <2>3. Fine(<<Expect("ident"), Expect(":"), Parse("type"), Parse("params,")>>, cur)
    BY <2>2, Words, Items, SilentTuples
  <2> QED BY <1>d, <2>1, <2>3, UntilFine
<1>3. CASE f = "fn types"
  <2>1. LoopBody(f) = IF cur = "..." THEN dots
                      ELSE Until(")", <<Parse("type"), Parse("fn types,")>>)
    BY <1>3 DEF LoopBody, Is, dots
  <2>2. {"type", "fn types,"} \subseteq Functions
    BY <1>0 DEF Loops
  <2>3. Fine(<<Parse("type"), Parse("fn types,")>>, cur)
    BY <2>2, Words, Items, SilentTuples
  <2> QED BY <1>d, <2>1, <2>3, UntilFine
<1>4. CASE f = "arguments"
  <2>1. LoopBody(f) = Until(")", <<Parse("expr"), Parse("arguments,")>>)
    BY <1>4 DEF LoopBody
  <2>2. {"expr", "arguments,"} \subseteq Functions
    BY <1>0 DEF Loops
  <2>3. Fine(<<Parse("expr"), Parse("arguments,")>>, cur)
    BY <2>2, Words, Items, SilentTuples
  <2> QED BY <1>d, <2>1, <2>3, UntilFine
<1>5. CASE f = "elements"
  <2>1. LoopBody(f) = Until("]", <<Parse("expr"), Parse("elements,")>>)
    BY <1>5 DEF LoopBody
  <2>2. {"expr", "elements,"} \subseteq Functions
    BY <1>0 DEF Loops
  <2>3. Fine(<<Parse("expr"), Parse("elements,")>>, cur)
    BY <2>2, Words, Items, SilentTuples
  <2> QED BY <1>d, <2>1, <2>3, UntilFine
<1>6. CASE f = "inits"
  <2>1. LoopBody(f) = Until("}", <<Expect("."), Expect("ident"), Expect("="), Parse("expr"), Parse("inits,")>>)
    BY <1>6 DEF LoopBody
  <2>2. {"expr", "inits,"} \subseteq Functions
    BY <1>0 DEF Loops
  <2>3. Fine(<<Expect("."), Expect("ident"), Expect("="), Parse("expr"), Parse("inits,")>>, cur)
    BY <2>2, Words, Items, SilentTuples
  <2> QED BY <1>d, <2>1, <2>3, UntilFine
<1>7. CASE f = "fields"
  <2>1. LoopBody(f) = Until("}", <<Expect("ident"), Expect(":"), Parse("type"), Match(","), Match(";"), Parse("fields")>>)
    BY <1>7 DEF LoopBody
  <2>2. {"type", "fields"} \subseteq Functions
    BY <1>0 DEF Loops
  <2>3. Fine(<<Expect("ident"), Expect(":"), Parse("type"), Match(","), Match(";"), Parse("fields")>>, cur)
    BY <2>2, Words, Items, SilentTuples
  <2> QED BY <1>d, <2>1, <2>3, UntilFine
<1>8. CASE f = "variants"
  <2>1. LoopBody(f) = Until("}", <<Expect("ident"), Parse("= int"), Match(","), Parse("variants")>>)
    BY <1>8 DEF LoopBody
  <2>2. {"= int", "variants"} \subseteq Functions
    BY <1>0 DEF Loops
  <2>3. Fine(<<Expect("ident"), Parse("= int"), Match(","), Parse("variants")>>, cur)
    BY <2>2, Words, Items, SilentTuples
  <2> QED BY <1>d, <2>1, <2>3, UntilFine
<1>9. CASE f = "statements"
  <2>1. LoopBody(f) = Until("}", <<Parse("stmt"), Parse("statements")>>)
    BY <1>9 DEF LoopBody
  <2>2. {"stmt", "statements"} \subseteq Functions
    BY <1>0 DEF Loops
  <2>3. Fine(<<Parse("stmt"), Parse("statements")>>, cur)
    BY <2>2, Words, Items, SilentTuples
  <2> QED BY <1>d, <2>1, <2>3, UntilFine
<1>10. CASE f \in {"params,", "fn types,", "arguments,", "elements,", "inits,"}
  <2>1. PICK loop \in Functions : LoopBody(f) = Comma(loop)
    BY <1>0, <1>10 DEF LoopBody, Loops
  <2> QED BY <2>1, CommaFine
<1> QED BY <1>1, <1>2, <1>3, <1>4, <1>5, <1>6, <1>7, <1>8, <1>9, <1>10 DEF Loops

LEMMA BranchFine ==
  ASSUME NEW f \in Functions \ Loops,
         f \notin {"type", "expr", "assign rest", "binary", "binary rest", "unary", "postfix", "primary",
                   "stmt", "block", "decl", "decl rest"}
  PROVE  Fine(Branch(f), cur)
<1>0. {"type", "expr", "= expr", "else body", "stmt", "block", "inits"} \subseteq Functions
  BY DEF Functions, Loops
<1>1. CASE f = "-> type"
  <2>1. Branch(f) = Given({"->"}, <<Parse("type")>>)
    BY <1>1 DEF Branch
  <2>2. {"->"} \cap Brackets = {} /\ Parse("type") \in Mute(cur) \cap Later
    BY <1>0, Words, Items DEF Brackets
  <2> QED BY <2>1, <2>2, GivenFine
<1>2. CASE f = ": type"
  <2>1. Branch(f) = Given({":"}, <<Parse("type")>>)
    BY <1>2 DEF Branch
  <2>2. {":"} \cap Brackets = {} /\ Parse("type") \in Mute(cur) \cap Later
    BY <1>0, Words, Items DEF Brackets
  <2> QED BY <2>1, <2>2, GivenFine
<1>3. CASE f = "= expr"
  <2>1. Branch(f) = Given({"="}, <<Parse("expr")>>)
    BY <1>3 DEF Branch
  <2>2. {"="} \cap Brackets = {} /\ Parse("expr") \in Mute(cur) \cap Later
    BY <1>0, Words, Items DEF Brackets
  <2> QED BY <2>1, <2>2, GivenFine
<1>4. CASE f = "= int"
  <2>1. Branch(f) = Given({"="}, <<Expect("int")>>)
    BY <1>4 DEF Branch
  <2>2. {"="} \cap Brackets = {} /\ Expect("int") \in Mute(cur) \cap Later
    BY <1>0, Words, Items DEF Brackets
  <2> QED BY <2>1, <2>2, GivenFine
<1>5. CASE f = "else"
  <2>1. Branch(f) = Given({"else"}, <<Parse("else body")>>)
    BY <1>5 DEF Branch
  <2>2. {"else"} \cap Brackets = {} /\ Parse("else body") \in Mute(cur) \cap Later
    BY <1>0, Words, Items DEF Brackets
  <2> QED BY <2>1, <2>2, GivenFine
<1>6. CASE f = "let rest"
  <2>1. CASE cur = ":"
    <3>1. Branch(f) = <<Advance, Parse("type"), Parse("= expr")>>
      BY <1>6, <2>1 DEF Branch, Is
    <3>2. Advance \in Mute(cur)
      BY <2>1, Items DEF Brackets
    <3>3. Fine(<<Advance, Parse("type"), Parse("= expr")>>, cur)
      BY <1>0, <3>2, Words, Items, SilentTuples
    <3> QED BY <3>1, <3>3
  <2>2. CASE cur = "="
    <3>1. Branch(f) = <<Parse("= expr")>>
      BY <1>6, <2>2 DEF Branch, Is
    <3>2. Fine(<<Parse("= expr")>>, cur)
      BY <1>0, Words, Items, SilentTuples
    <3> QED BY <3>1, <3>2
  <2>3. CASE cur \notin {":", "="}
    <3>1. Branch(f) = <<Error>>
      BY <1>6, <2>3 DEF Branch, Is
    <3> QED BY <3>1, Errors
  <2> QED BY <2>1, <2>2, <2>3
<1>7. CASE f = "value"
  <2>1. CASE cur = ";"
    <3>1. Branch(f) = Done
      BY <1>7, <2>1 DEF Branch, Is
    <3> QED BY <3>1, Nothing
  <2>2. CASE cur # ";"
    <3>1. Branch(f) = <<Parse("expr")>>
      BY <1>7, <2>2 DEF Branch, Is
    <3>2. Fine(<<Parse("expr")>>, cur)
      BY <1>0, Words, Items, SilentTuples
    <3> QED BY <3>1, <3>2
  <2> QED BY <2>1, <2>2
<1>8. CASE f = "else body"
  <2>1. CASE cur = "if"
    <3>1. Branch(f) = <<Parse("stmt")>>
      BY <1>8, <2>1 DEF Branch, Is
    <3>2. Fine(<<Parse("stmt")>>, cur)
      BY <1>0, Words, Items, SilentTuples
    <3> QED BY <3>1, <3>2
  <2>2. CASE cur # "if"
    <3>1. Branch(f) = <<Parse("block")>>
      BY <1>8, <2>2 DEF Branch, Is
    <3>2. Fine(<<Parse("block")>>, cur)
      BY <1>0, Words, Items, SilentTuples
    <3> QED BY <3>1, <3>2
  <2> QED BY <2>1, <2>2
<1>9. CASE f = "for init"
  <2>1. CASE cur = ";"
    <3>1. Branch(f) = <<Advance>>
      BY <1>9, <2>1 DEF Branch, Is
    <3>2. Advance \in Mute(cur)
      BY <2>1, Items DEF Brackets
    <3>3. Fine(<<Advance>>, cur)
      BY <1>0, <3>2, Words, Items, SilentTuples
    <3> QED BY <3>1, <3>3
  <2>2. CASE cur # ";"
    <3>1. Branch(f) = <<Parse("stmt")>>
      BY <1>9, <2>2 DEF Branch, Is
    <3>2. Fine(<<Parse("stmt")>>, cur)
      BY <1>0, Words, Items, SilentTuples
    <3> QED BY <3>1, <3>2
  <2> QED BY <2>1, <2>2
<1>10. CASE f = "for post"
  <2>1. CASE cur = "{"
    <3>1. Branch(f) = Done
      BY <1>10, <2>1 DEF Branch, Is
    <3> QED BY <3>1, Nothing
  <2>2. CASE cur # "{"
    <3>1. Branch(f) = <<Parse("expr")>>
      BY <1>10, <2>2 DEF Branch, Is
    <3>2. Fine(<<Parse("expr")>>, cur)
      BY <1>0, Words, Items, SilentTuples
    <3> QED BY <3>1, <3>2
  <2> QED BY <2>1, <2>2
<1>11. CASE f = "fn body"
  <2>1. CASE cur = "{"
    <3>1. Branch(f) = <<Parse("block")>>
      BY <1>11, <2>1 DEF Branch, Is
    <3>2. Fine(<<Parse("block")>>, cur)
      BY <1>0, Words, Items, SilentTuples
    <3> QED BY <3>1, <3>2
  <2>2. CASE cur # "{"
    <3>1. Branch(f) = <<Expect(";")>>
      BY <1>11, <2>2 DEF Branch, Is
    <3>2. Fine(<<Expect(";")>>, cur)
      BY <1>0, Words, Items, SilentTuples
    <3> QED BY <3>1, <3>2
  <2> QED BY <2>1, <2>2
<1>12. CASE f = "struct init"
  <2>1. CASE cur = "{" /\ peek = "."
    <3>1. Branch(f) = <<Advance, Parse("inits"), Expect("}")>>
      BY <1>12, <2>1 DEF Branch, Is
    <3>2. Fine(<<Advance, Parse("inits"), Expect("}")>>, cur)
      BY <1>0, <2>1, Matchings, Items, PairFirst
    <3> QED BY <3>1, <3>2
  <2>2. CASE ~(cur = "{" /\ peek = ".")
    <3>1. Branch(f) = Done
      BY <1>12, <2>2 DEF Branch, Is
    <3> QED BY <3>1, Nothing
  <2> QED BY <2>1, <2>2
<1> QED BY <1>1, <1>2, <1>3, <1>4, <1>5, <1>6, <1>7, <1>8, <1>9, <1>10, <1>11, <1>12 DEF Functions

LEMMA BodyFine ==
  ASSUME NEW f \in Functions
  PROVE  Fine(Body(f), cur)
<1>0. {"binary", "assign rest", "expr", "unary", "binary rest", "statements", "decl rest"} \subseteq Functions
  BY DEF Functions, Loops
<1>1. CASE f = "type"
  BY <1>1, TypeBodyFine DEF Body, Loops
<1>2. CASE f = "unary"
  BY <1>2, UnaryBodyFine DEF Body, Loops
<1>3. CASE f = "postfix"
  BY <1>3, PostfixBodyFine DEF Body, Loops
<1>4. CASE f = "primary"
  BY <1>4, PrimaryBodyFine DEF Body, Loops
<1>5. CASE f = "stmt"
  BY <1>5, StmtBodyFine DEF Body, Loops
<1>6. CASE f = "decl rest"
  BY <1>6, DeclBodyFine DEF Body, Loops
<1>7. CASE f = "expr"
  <2>1. Body(f) = <<Parse("binary"), Parse("assign rest")>>
    BY <1>7 DEF Body, Loops
  <2>2. Fine(<<Parse("binary"), Parse("assign rest")>>, cur)
    BY <1>0, Words, Items, SilentTuples
  <2> QED BY <2>1, <2>2
<1>8. CASE f = "binary"
  <2>1. Body(f) = <<Parse("unary"), Parse("binary rest")>>
    BY <1>8 DEF Body, Loops
  <2>2. Fine(<<Parse("unary"), Parse("binary rest")>>, cur)
    BY <1>0, Words, Items, SilentTuples
  <2> QED BY <2>1, <2>2
<1>9. CASE f = "decl"
  <2>1. Body(f) = <<Match("extern"), Match("inline"), Parse("decl rest")>>
    BY <1>9 DEF Body, Loops
  <2>2. Fine(<<Match("extern"), Match("inline"), Parse("decl rest")>>, cur)
    BY <1>0, Words, Items, SilentTuples
  <2> QED BY <2>1, <2>2
<1>10. CASE f = "assign rest"
  <2>1. Body(f) = Given(AssignOps, <<Parse("expr")>>)
    BY <1>10 DEF Body, Loops
  <2>2. AssignOps \cap Brackets = {} /\ Parse("expr") \in Mute(cur) \cap Later
    BY <1>0, Items DEF AssignOps, Brackets
  <2> QED BY <2>1, <2>2, GivenFine
<1>11. CASE f = "binary rest"
  <2>1. Body(f) = Given(BinaryOps, <<Parse("binary")>>)
    BY <1>11 DEF Body, Loops
  <2>2. BinaryOps \cap Brackets = {} /\ Parse("binary") \in Mute(cur) \cap Later
    BY <1>0, Items DEF BinaryOps, Brackets
  <2> QED BY <2>1, <2>2, GivenFine
<1>12. CASE f = "block"
  <2>1. Body(f) = <<Expect("{"), Parse("statements"), Expect("}")>>
    BY <1>12 DEF Body, Loops
  <2>2. Fine(<<Expect("{"), Parse("statements"), Expect("}")>>, cur)
    BY <1>0, Matchings, Items, PairFirst
  <2> QED BY <2>1, <2>2
<1>13. CASE f \in Loops
  <2>1. Body(f) = LoopBody(f)
    BY <1>13 DEF Body, Loops
  <2> QED BY <1>13, <2>1, LoopBodyFine
<1>14. CASE /\ f \in Functions \ Loops
            /\ f \notin {"type", "expr", "assign rest", "binary", "binary rest", "unary", "postfix",
                         "primary", "stmt", "block", "decl", "decl rest"}
  <2>1. Body(f) = Branch(f)
    BY <1>14 DEF Body, Loops
  <2> QED BY <1>14, <2>1, BranchFine
<1> QED BY <1>1, <1>2, <1>3, <1>4, <1>5, <1>6, <1>7, <1>8, <1>9, <1>10, <1>11, <1>12, <1>13, <1>14


-----------------------------------------------------------------------------
(* The steps. *)

LEMMA StackFacts ==
  ASSUME NEW s \in Seq(Item), s # << >>
  PROVE  /\ Len(s) \in Nat \ {0} /\ Head(s) = s[1] /\ s[1] \in Item
         /\ Tail(s) \in Seq(Item) /\ Len(Tail(s)) = Len(s) - 1
         /\ \A i \in 1 .. Len(s) - 1 : Tail(s)[i] = s[i + 1]
OBVIOUS

LEMMA ItemKinds ==
  ASSUME NEW x \in Item
  PROVE  /\ x.do = "parse" => x.of \in Functions
         /\ x.do = "match" => x.of \in Optional
<1>1. CASE x \in [do : {"parse"}, of : Functions]
  BY <1>1
<1>2. CASE x \in [do : {"expect"}, of : Expected]
  BY <1>2
<1>3. CASE x \in [do : {"match"}, of : Optional]
  BY <1>3
<1>4. CASE x = Advance
  BY <1>4 DEF Advance
<1>5. CASE x = Error
  BY <1>5 DEF Error
<1> QED BY <1>1, <1>2, <1>3, <1>4, <1>5 DEF Item

(* A body in the place of the item that called it: the walk makes a detour. *)
LEMMA Detour ==
  ASSUME NEW s \in Seq(Item), s # << >>, NEW t, NEW b \in Opens, OneAdvance(s),
         Token(s[1], t) \notin Brackets,
         NEW g, Walk(g, b, s, t), g[Len(s)] = << >>,
         NEW r \in Seq(Item), OneAdvance(r),
         Silent(r, t) \/ \E o, c \in 1 .. Len(r) : Pair(r, t, o, c)
  PROVE  /\ OneAdvance(r \o Tail(s))
         /\ \E h : Walk(h, b, r \o Tail(s), t) /\ h[Len(r \o Tail(s))] = << >>
<1> DEFINE w == r \o Tail(s)
           n == Len(r)
           m == Len(s) - 1
<1>1. n \in Nat /\ m \in Nat /\ Len(s) = m + 1
  BY StackFacts
<1>2. /\ w \in Seq(Item) /\ Len(w) = n + m
      /\ \A i \in 1 .. n : w[i] = r[i]
      /\ \A i \in n + 1 .. n + m : w[i] = s[i - n + 1]
  BY <1>1, StackFacts, ConcatProperties
<1>3. PICK d : Walk(d, b, r, t) /\ d[n] = b
  BY FineWalk
<1> HIDE DEF w, n, m
<1> DEFINE h == [i \in 0 .. n + m |-> IF i <= n THEN d[i] ELSE g[i - n + 1]]
<1>4. /\ g \in [0 .. m + 1 -> Opens] /\ g[0] = b /\ g[m + 1] = << >>
      /\ \A i \in 1 .. m + 1 : g[i] = Bracket(g[i - 1], Token(s[i], t))
  BY <1>1 DEF Walk
<1>5. /\ d \in [0 .. n -> Opens] /\ d[0] = b /\ d[n] = b
      /\ \A i \in 1 .. n : d[i] = Bracket(d[i - 1], Token(r[i], t))
  BY <1>3 DEF Walk, n
<1>6. g[1] = b
  <2>1. 1 \in 1 .. m + 1 /\ 1 - 1 = 0
    BY <1>1
  <2>2. g[1] = Bracket(g[0], Token(s[1], t))
    BY <1>4, <2>1
  <2> QED BY <1>4, <2>2, BracketFacts
<1>7. h \in [0 .. n + m -> Opens] /\ h[0] = b
  BY <1>1, <1>4, <1>5
<1>h. /\ \A i \in 0 .. n : h[i] = d[i]
      /\ \A i \in n .. n + m : h[i] = g[i - n + 1]
  BY <1>1, <1>5, <1>6
<1> HIDE DEF h
<1>8. ASSUME NEW i \in 1 .. n + m PROVE h[i] = Bracket(h[i - 1], Token(w[i], t))
  <2>1. CASE i <= n
    BY <1>1, <1>2, <1>5, <1>h, <2>1
  <2>2. CASE i > n
    <3> DEFINE k == i - n + 1
    <3>1. /\ k \in 1 .. m + 1 /\ i \in n .. n + m /\ i - 1 \in n .. n + m /\ i \in n + 1 .. n + m
          /\ i - 1 - n + 1 = k - 1
      BY <1>1, <2>2
    <3>2. h[i] = g[k] /\ h[i - 1] = g[k - 1] /\ w[i] = s[k]
      BY <1>2, <1>h, <3>1
    <3> HIDE DEF k
    <3> QED BY <1>4, <3>1, <3>2
  <2> QED BY <1>1, <2>1, <2>2
<1>9. h[n + m] = << >>
  <2> DEFINE k == n + m
  <2>1. k \in n .. n + m /\ k - n + 1 = m + 1
    BY <1>1
  <2> HIDE DEF k
  <2>2. h[k] = g[k - n + 1]
    BY <1>h, <2>1
  <2> QED BY <1>4, <2>1, <2>2 DEF k
<1>10. OneAdvance(w)
  <2> SUFFICES ASSUME NEW i \in 2 .. n + m PROVE w[i].do # "advance"
    BY <1>2 DEF OneAdvance
  <2>1. CASE i <= n
    BY <1>1, <1>2, <2>1 DEF OneAdvance, n
  <2>2. CASE i > n
    <3>1. i - n + 1 \in 2 .. m + 1 /\ w[i] = s[i - n + 1]
      BY <1>1, <1>2, <2>2
    <3> QED BY <1>1, <3>1 DEF OneAdvance
  <2> QED BY <1>1, <2>1, <2>2
<1>11. Walk(h, b, w, t)
  BY <1>2, <1>7, <1>8 DEF Walk
<1> QED BY <1>2, <1>9, <1>10, <1>11 DEF w

(* Past the item done next, the walk goes on, whatever token comes then. *)
LEMMA Onward ==
  ASSUME NEW s \in Seq(Item), s # << >>, NEW t, NEW u, NEW b \in Opens, OneAdvance(s),
         NEW g, Walk(g, b, s, t), g[Len(s)] = << >>
  PROVE  /\ OneAdvance(Tail(s))
         /\ \E h : Walk(h, Bracket(b, Token(s[1], t)), Tail(s), u) /\ h[Len(Tail(s))] = << >>
<1> DEFINE w == Tail(s)
           m == Len(s) - 1
           h == [i \in 0 .. m |-> g[i + 1]]
<1>1. /\ m \in Nat /\ Len(s) = m + 1
      /\ w \in Seq(Item) /\ Len(w) = m /\ \A i \in 1 .. m : w[i] = s[i + 1]
  BY StackFacts
<1> HIDE DEF w, m
<1>2. /\ g \in [0 .. m + 1 -> Opens] /\ g[0] = b /\ g[m + 1] = << >>
      /\ \A i \in 1 .. m + 1 : g[i] = Bracket(g[i - 1], Token(s[i], t))
  BY <1>1 DEF Walk
<1>3. h \in [0 .. m -> Opens] /\ h[0] = g[1] /\ h[m] = << >>
  BY <1>1, <1>2
<1>4. g[1] = Bracket(b, Token(s[1], t))
  BY <1>1, <1>2
<1>5. ASSUME NEW i \in 1 .. m PROVE h[i] = Bracket(h[i - 1], Token(w[i], u))
  <2>1. /\ h[i] = g[i + 1] /\ h[i - 1] = g[i] /\ w[i] = s[i + 1]
        /\ i + 1 \in 1 .. m + 1 /\ i + 1 - 1 = i
    BY <1>1
  <2>2. g[i + 1] = Bracket(g[i], Token(s[i + 1], t))
    BY <1>2, <2>1
  <2>3. s[i + 1].do # "advance"
    BY <1>1 DEF OneAdvance
  <2>4. Token(s[i + 1], t) = Token(s[i + 1], u)
    BY <2>3 DEF Token
  <2> QED BY <2>1, <2>2, <2>4
<1>6. OneAdvance(w)
  BY <1>1 DEF OneAdvance
<1> HIDE DEF h
<1>7. Walk(h, Bracket(b, Token(s[1], t)), w, u)
  BY <1>1, <1>3, <1>4, <1>5 DEF Walk
<1> QED BY <1>1, <1>3, <1>6, <1>7 DEF w

LEMMA InitBrackets == Init => BracketInv
<1> SUFFICES ASSUME Init PROVE BracketInv
  OBVIOUS
<1> DEFINE p == Parse("module")
<1>1. p \in Item /\ p.do # "error" /\ Token(p, cur) = ""
  <2>1. "module" \in Functions
    BY DEF Functions, Loops
  <2> QED BY <2>1 DEF Item, Parse, Token
<1> HIDE DEF p
<1>2. stack = <<p>> /\ open = << >> /\ had_error = FALSE
  BY DEF Init, p
<1>3. stack \in Seq(Item) /\ Len(stack) = 1 /\ stack[1] = p /\ open \in Opens
  <2>1. <<p>> \in Seq(Item) /\ Len(<<p>>) = 1 /\ <<p>>[1] = p
    <3>1. p \in Item
      BY <1>1
    <3> QED BY <3>1
  <2>2. open \in Opens
    BY <1>2 DEF Opens
  <2> QED BY <1>2, <2>1, <2>2
<1> DEFINE g == [i \in 0 .. 1 |-> << >>]
<1>4. Bracket(<< >>, "") = << >>
  BY ClosersFacts DEF Bracket
<1>5. g \in [0 .. 1 -> Opens] /\ g[0] = open /\ g[1] = << >>
  BY <1>2, <1>3
<1> HIDE DEF g
<1>6. Walk(g, open, stack, cur)
  <2>1. ASSUME NEW i \in 1 .. 1 PROVE g[i] = Bracket(g[i - 1], Token(stack[i], cur))
    <3>1. i = 1 /\ i - 1 = 0
      OBVIOUS
    <3> QED BY <1>1, <1>2, <1>3, <1>4, <1>5, <3>1
  <2> QED BY <1>3, <1>5, <2>1 DEF Walk
<1>7. OneAdvance(stack)
  BY <1>3 DEF OneAdvance
<1> QED BY <1>2, <1>3, <1>5, <1>6, <1>7 DEF BracketInv


(* The current token is consumed by the item done next. *)
LEMMA ConsumeStep ==
  ASSUME BracketInv, stack # Done, Do(Done), Consume, ~Todo("error"),
         Bracket(open, Token(stack[1], cur)) = Bracket(open, cur)
  PROVE  BracketInv'
<1>1. /\ stack \in Seq(Item) /\ stack # << >> /\ open \in Opens /\ had_error \in BOOLEAN
      /\ ~had_error =>
            OneAdvance(stack) /\ \E g : Walk(g, open, stack, cur) /\ g[Len(stack)] = << >>
  BY DEF BracketInv, Done
<1>2. stack' = Tail(stack) /\ Tail(stack) \in Seq(Item)
  BY <1>1, StackFacts DEF Do, Done
<1>3. had_error' = had_error /\ open' = IF had_error THEN << >> ELSE Bracket(open, cur)
  BY DEF Consume
<1>4. << >> \in Opens
  BY DEF Opens
<1>5. open' \in Opens
  BY <1>1, <1>3, <1>4, BracketFacts
<1>6. CASE had_error
  BY <1>1, <1>2, <1>3, <1>5, <1>6 DEF BracketInv
<1>7. CASE ~had_error
  <2>1. PICK g : Walk(g, open, stack, cur) /\ g[Len(stack)] = << >>
    BY <1>1, <1>7
  <2>2. /\ OneAdvance(Tail(stack))
        /\ \E h : Walk(h, Bracket(open, Token(stack[1], cur)), Tail(stack), cur') /\ h[Len(Tail(stack))] = << >>
    BY <1>1, <1>7, <2>1, Onward
  <2>3. open' = Bracket(open, Token(stack[1], cur))
    BY <1>3, <1>7
  <2>4. OneAdvance(stack') /\ \E h : Walk(h, open', stack', cur') /\ h[Len(stack')] = << >>
    BY <1>2, <2>2, <2>3
  <2> QED BY <1>1, <1>2, <1>3, <1>5, <2>4 DEF BracketInv
<1> QED BY <1>6, <1>7

(* Nothing is consumed. *)
LEMMA PassStep ==
  ASSUME BracketInv, stack # Done, Do(Done), Pass, ~Todo("error"),
         Token(stack[1], cur) \notin Brackets
  PROVE  BracketInv'
<1>1. /\ stack \in Seq(Item) /\ stack # << >> /\ open \in Opens /\ had_error \in BOOLEAN
      /\ ~had_error =>
            OneAdvance(stack) /\ \E g : Walk(g, open, stack, cur) /\ g[Len(stack)] = << >>
  BY DEF BracketInv, Done
<1>2. stack' = Tail(stack) /\ Tail(stack) \in Seq(Item)
  BY <1>1, StackFacts DEF Do, Done
<1>3. had_error' = had_error /\ open' = open /\ cur' = cur
  BY DEF Pass
<1>4. CASE had_error
  BY <1>1, <1>2, <1>3, <1>4 DEF BracketInv
<1>5. CASE ~had_error
  <2>1. PICK g : Walk(g, open, stack, cur) /\ g[Len(stack)] = << >>
    BY <1>1, <1>5
  <2>2. /\ OneAdvance(Tail(stack))
        /\ \E h : Walk(h, Bracket(open, Token(stack[1], cur)), Tail(stack), cur) /\ h[Len(Tail(stack))] = << >>
    BY <1>1, <1>5, <2>1, Onward
  <2>3. Bracket(open, Token(stack[1], cur)) = open
    BY <1>1, BracketFacts
  <2>4. OneAdvance(stack') /\ \E h : Walk(h, open', stack', cur') /\ h[Len(stack')] = << >>
    BY <1>2, <1>3, <2>2, <2>3
  <2> QED BY <1>1, <1>2, <1>3, <2>4 DEF BracketInv
<1> QED BY <1>4, <1>5

LEMMA ReportStep ==
  ASSUME BracketInv, stack # Done, Do(Done), Report
  PROVE  BracketInv'
<1>1. stack \in Seq(Item) /\ stack # << >>
  BY DEF BracketInv, Done
<1>2. stack' \in Seq(Item)
  BY <1>1, StackFacts DEF Do, Done
<1>3. << >> \in Opens
  BY DEF Opens
<1>4. had_error' = TRUE /\ open' = << >>
  BY DEF Report
<1> QED BY <1>2, <1>3, <1>4 DEF BracketInv

LEMMA StepBrackets ==
  ASSUME BracketInv, Step
  PROVE  BracketInv'
<1> DEFINE x == stack[1]
<1>1. /\ stack \in Seq(Item) /\ stack # << >> /\ x \in Item /\ Head(stack) = x
      /\ stack # Done /\ Do(Done)
  BY StackFacts DEF BracketInv, Step, Done
<1>2. Step => \/ Todo("expect") /\ cur = x.of /\ Consume
              \/ Todo("match") /\ cur = x.of /\ Consume
              \/ Todo("match") /\ cur # x.of /\ Pass
              \/ Todo("advance") /\ Consume
              \/ Report
  BY <1>1 DEF Step
<1> HIDE DEF x
<1>3. \A what : Todo(what) <=> x.do = what
  BY <1>1 DEF Todo
<1>4. CASE Todo("expect") /\ cur = x.of /\ Consume
  <2>1. ~Todo("error") /\ Token(x, cur) = cur
    BY <1>3, <1>4 DEF Token
  <2> QED BY <1>1, <1>4, <2>1, ConsumeStep DEF x
<1>5. CASE Todo("match") /\ cur = x.of /\ Consume
  <2>1. ~Todo("error") /\ Token(x, cur) = "" /\ cur \in Optional
    BY <1>1, <1>3, <1>5, ItemKinds DEF Token
  <2>2. cur \notin Brackets /\ "" \notin Brackets
    BY <2>1 DEF Optional, Brackets
  <2>3. open \in Opens
    BY DEF BracketInv
  <2>4. Bracket(open, Token(x, cur)) = Bracket(open, cur)
    BY <2>1, <2>2, <2>3, BracketFacts
  <2> QED BY <1>1, <1>5, <2>1, <2>4, ConsumeStep DEF x
<1>6. CASE Todo("match") /\ cur # x.of /\ Pass
  <2>1. ~Todo("error") /\ Token(x, cur) = ""
    BY <1>3, <1>6 DEF Token
  <2>2. "" \notin Brackets
    BY DEF Brackets
  <2> QED BY <1>1, <1>6, <2>1, <2>2, PassStep DEF x
<1>7. CASE Todo("advance") /\ Consume
  <2>1. ~Todo("error") /\ Token(x, cur) = cur
    BY <1>3, <1>7 DEF Token
  <2> QED BY <1>1, <1>7, <2>1, ConsumeStep DEF x
<1>8. CASE Report
  BY <1>1, <1>8, ReportStep
<1> QED BY <1>2, <1>4, <1>5, <1>6, <1>7, <1>8

LEMMA CallBrackets ==
  ASSUME BracketInv, Call
  PROVE  BracketInv'
<1> DEFINE x == stack[1]
           r == Body(x.of)
<1>1. /\ stack \in Seq(Item) /\ stack # << >> /\ x \in Item /\ Head(stack) = x
      /\ x.do = "parse" /\ x.of \in Functions
      /\ stack' = r \o Tail(stack) /\ cur' = cur /\ open' = open /\ had_error' = had_error
  <2>1. stack \in Seq(Item) /\ stack # << >> /\ Todo("parse")
    BY DEF BracketInv, Call, Todo, Done
  <2>2. x \in Item /\ Head(stack) = x /\ x.do = "parse"
    BY <2>1, StackFacts DEF Todo
  <2>3. x.of \in Functions
    BY <2>2, ItemKinds
  <2>4. stack' = r \o Tail(stack) /\ cur' = cur /\ open' = open /\ had_error' = had_error
    BY <2>2 DEF Call, Do, Pass
  <2> QED BY <2>1, <2>2, <2>3, <2>4
<1>2. Fine(r, cur)
  BY <1>1, BodyFine
<1> HIDE DEF r
<1>3. r \in Seq(Item) /\ stack' \in Seq(Item)
  BY <1>1, <1>2, StackFacts, ConcatProperties DEF Fine
<1>4. had_error \in BOOLEAN /\ open \in Opens
  BY DEF BracketInv
<1>5. CASE had_error
  BY <1>1, <1>3, <1>4, <1>5 DEF BracketInv
<1>6. CASE r # << >> /\ r[1] = Error
  <2>1. stack'[1] = Error /\ stack' # << >>
    <3>1. Len(r) >= 1
      BY <1>3, <1>6
    <3>2. stack'[1] = r[1] /\ Len(stack') >= 1
      BY <1>1, <1>3, <3>1, StackFacts, ConcatProperties
    <3> QED BY <1>3, <1>6, <3>2
  <2>2. Todo("error")'
    <3>1. Head(stack') = stack'[1]
      BY <1>3, <2>1, StackFacts
    <3>2. Error.do = "error"
      BY DEF Error
    <3>3. stack' # Done /\ Head(stack').do = "error"
      BY <2>1, <3>1, <3>2 DEF Done
    <3> QED BY <3>3 DEF Todo
  <2> QED BY <1>1, <1>3, <1>4, <2>2 DEF BracketInv
<1>7. CASE ~had_error /\ ~(r # << >> /\ r[1] = Error)
  <2>1. OneAdvance(r) /\ (Silent(r, cur) \/ \E o, c \in 1 .. Len(r) : Pair(r, cur, o, c))
    BY <1>2, <1>7 DEF Fine
  <2>2. ~Todo("error") /\ Token(x, cur) \notin Brackets
    BY <1>1 DEF Todo, Token, Brackets
  <2>3. OneAdvance(stack)
    BY <1>7, <2>2 DEF BracketInv
  <2>4. PICK g : Walk(g, open, stack, cur) /\ g[Len(stack)] = << >>
    BY <1>7, <2>2 DEF BracketInv
  <2>5. /\ OneAdvance(r \o Tail(stack))
        /\ \E h : Walk(h, open, r \o Tail(stack), cur) /\ h[Len(r \o Tail(stack))] = << >>
    BY <1>1, <1>3, <1>4, <2>1, <2>2, <2>3, <2>4, Detour DEF x
  <2>6. OneAdvance(stack') /\ \E h : Walk(h, open', stack', cur') /\ h[Len(stack')] = << >>
    BY <1>1, <2>5
  <2> QED BY <1>1, <1>3, <1>4, <2>6 DEF BracketInv
<1> QED BY <1>4, <1>5, <1>6, <1>7

LEMMA NextBrackets ==
  ASSUME BracketInv, [Next]_vars
  PROVE  BracketInv'
<1>1. CASE Step
  BY <1>1, StepBrackets
<1>2. CASE Look
  BY <1>2 DEF Look, BracketInv, Todo
<1>3. CASE Call
  BY <1>3, CallBrackets
<1>4. CASE UNCHANGED vars
  BY <1>4 DEF vars, BracketInv, Todo
<1> QED BY <1>1, <1>2, <1>3, <1>4 DEF Next

(* The walk is the one that the property speaks of. *)
LEMMA BracketsWalked == BracketInv => BracketsClose
<1> SUFFICES ASSUME BracketInv, ~had_error, ~Todo("error") PROVE BracketsClose
  BY DEF BracketsClose
<1> DEFINE n == Len(stack)
           after[i \in 0 .. n] ==
               IF i = 0 THEN open ELSE Bracket(after[i - 1], Consumes(stack[i]))
<1>1. n \in Nat
  BY DEF BracketInv
<1>2. PICK g : Walk(g, open, stack, cur) /\ g[n] = << >>
  BY DEF BracketInv
<1> SUFFICES after[n] = << >>
  BY DEF BracketsClose
<1> HIDE DEF n
<1>3. \A x : Consumes(x) = Token(x, cur)
  BY DEF Consumes, Token
<1>4. /\ g \in [0 .. n -> Opens] /\ g[0] = open
      /\ \A i \in 1 .. n : g[i] = Bracket(g[i - 1], Consumes(stack[i]))
  BY <1>2, <1>3 DEF Walk, n
<1>5. after = [i \in 0 .. n |-> IF i = 0 THEN open ELSE Bracket(after[i - 1], Consumes(stack[i]))]
  <2>1. g = [i \in 0 .. n |-> IF i = 0 THEN open ELSE Bracket(g[i - 1], Consumes(stack[i]))]
    <3>1. ASSUME NEW i \in 0 .. n
          PROVE  g[i] = IF i = 0 THEN open ELSE Bracket(g[i - 1], Consumes(stack[i]))
      BY <1>1, <1>4
    <3>2. g = [i \in 0 .. n |-> g[i]]
      BY <1>4
    <3> QED BY <3>1, <3>2
  <2>2. \E h : h = [i \in 0 .. n |-> IF i = 0 THEN open ELSE Bracket(h[i - 1], Consumes(stack[i]))]
    BY <2>1, Zenon
  <2> QED BY <2>2, Zenon
<1> HIDE DEF after
<1>6. \A i \in 0 .. n : after[i] = IF i = 0 THEN open ELSE Bracket(after[i - 1], Consumes(stack[i]))
  BY <1>5
<1> DEFINE T == {i \in Nat : i <= n => after[i] = g[i]}
<1>7. 0 \in T
  BY <1>1, <1>4, <1>6
<1>8. ASSUME NEW i \in Nat, i \in T PROVE i + 1 \in T
  <2> SUFFICES ASSUME i + 1 <= n PROVE after[i + 1] = g[i + 1]
    OBVIOUS
  <2>1. after[i] = g[i] /\ i + 1 \in 1 .. n /\ i + 1 \in 0 .. n /\ i + 1 - 1 = i /\ i + 1 # 0
    BY <1>1, <1>8
  <2>2. after[i + 1] = Bracket(after[i], Consumes(stack[i + 1]))
    BY <1>6, <2>1
  <2>3. g[i + 1] = Bracket(g[i], Consumes(stack[i + 1]))
    BY <1>4, <2>1
  <2> QED BY <2>1, <2>2, <2>3
<1> HIDE DEF T
<1>9. n \in T
  BY <1>1, <1>7, <1>8, Induction
<1> QED BY <1>1, <1>2, <1>9 DEF T, n

(* Until an error is reported, the brackets that the functions on the call *)
(* stack of the parser (parser.c, expect and parser_advance) are going to  *)
(* consume close exactly those open, each by its own kind and in order, for *)
(* sources of any length and nesting.                                      *)
THEOREM BracketsAreClosed == Spec => []BracketsClose
<1>1. BracketInv /\ [Next]_vars => BracketInv'
  BY NextBrackets
<1> QED BY <1>1, InitBrackets, BracketsWalked, PTL DEF Spec
=============================================================================
