------------------------------- MODULE Parser -------------------------------
(***************************************************************************)
(* The recursive-descent parser of src/frontend/parser.c as a pushdown     *)
(* automaton: which tokens it consumes, and when it reports an error.      *)
(*                                                                         *)
(* `stack` is what is left to do, the next item first: the rest of the     *)
(* body of the innermost function or loop, then of its caller, and so on.  *)
(* The tree that the parser builds is left out, and token kinds that the   *)
(* parser treats alike are one token here.                                 *)
(*                                                                         *)
(* The lexer is a choice of any token, until MaxTokens have been read and  *)
(* the source ends.  The code reads a token ahead into p->peek; here a     *)
(* token is chosen when the parser first looks at it.                      *)
(***************************************************************************)
EXTENDS Integers, Sequences

CONSTANT
    MaxTokens    \* bound: tokens of a source before its end

ASSUME ParserAssumption == MaxTokens \in Nat \ {0}

VARIABLES
    cur,         \* p->cur
    peek,        \* p->peek, or Unseen
    left,        \* how many more tokens the source has
    stack,       \* what the parser has left to do
    had_error,   \* p->had_error
    open         \* what closes the brackets consumed so far, the innermost first

vars == <<cur, peek, left, stack, had_error, open>>

Primary == {"ident", "int", "literal", "string", "[", "("}
BinaryOps == {"*", "&", "-", "operator"}
UnaryOps == {"*", "&", "-", "!", "++"}
AssignOps == {"=", "+="}
Closer == [p \in {"(", "[", "{"} |-> CASE p = "(" -> ")" [] p = "[" -> "]" [] OTHER -> "}"]
Closers == {")", "]", "}"}
Keywords == {"fn", "struct", "enum", "import", "let", "extern", "inline", "mut", "as", "sizeof",
             "return", "if", "else", "while", "for", "break", "defer", "primitive"}
Tokens == Primary \cup BinaryOps \cup UnaryOps \cup AssignOps \cup Closers \cup Keywords
          \cup {"{", ",", ";", ":", ".", "...", "->", "other", "eof"}
Unseen == "unseen"

-----------------------------------------------------------------------------
(* What there is to do *)

Expect(t) == [do |-> "expect", of |-> t]     \* expect: an error if it is not there
Match(t) == [do |-> "match", of |-> t]       \* match, whether it is there or not
Parse(f) == [do |-> "parse", of |-> f]       \* the body of a function or of a loop
Advance == [do |-> "advance", of |-> ""]
Error == [do |-> "error", of |-> ""]

Done == << >>
Is(t) == cur \in t

(* One more round of a loop, if a comma follows. *)
Comma(loop) == IF Is({","}) THEN <<Advance, Parse(loop)>> ELSE Done

(* Mutant of Until: the loop runs on at the end of the source. *)
UntilClosed(close, body) == IF Is({close}) THEN Done ELSE body

(* A loop runs until its closing bracket or the end of the source. *)
Until(close, body) == IF Is({close, "eof"}) THEN Done ELSE body

-----------------------------------------------------------------------------
(* What each function does next, given the tokens it looks at. *)

TypeBody ==
    CASE Is({"*"}) -> <<Advance, Match("mut"), Parse("type")>>
      [] Is({"["}) /\ peek = "]" -> <<Advance, Expect("]"), Parse("type")>>     \* it is there
      [] Is({"["}) /\ peek # "]" -> <<Advance, Expect("int"), Expect("]"), Parse("type")>>
      [] Is({"fn"}) -> <<Advance, Expect("("), Parse("fn types"), Expect(")"), Parse("-> type")>>
      [] Is({"primitive", "ident"}) -> <<Advance>>
      [] OTHER -> <<Error>>

UnaryBody ==
    CASE Is({"&"}) -> <<Advance, Match("mut"), Parse("unary")>>
      [] Is(UnaryOps \ {"&"}) -> <<Advance, Parse("unary")>>
      [] Is({"sizeof"}) -> <<Advance, Expect("("), Parse("type"), Expect(")")>>
      [] OTHER -> <<Parse("primary"), Parse("postfix")>>

(* Mutant of PostfixBody: an index does not wait for its bracket. *)
PostfixUnclosed ==
    CASE Is({"("}) -> <<Advance, Parse("arguments"), Expect(")"), Parse("postfix")>>
      [] Is({"["}) -> <<Advance, Parse("expr"), Parse("postfix")>>
      [] Is({"."}) -> <<Advance, Expect("ident"), Parse("postfix")>>
      [] Is({"++"}) -> <<Advance, Parse("postfix")>>
      [] Is({"as"}) -> <<Advance, Parse("type"), Parse("postfix")>>
      [] OTHER -> Done

PostfixBody ==
    CASE Is({"("}) -> <<Advance, Parse("arguments"), Expect(")"), Parse("postfix")>>
      [] Is({"["}) -> <<Advance, Parse("expr"), Expect("]"), Parse("postfix")>>
      [] Is({"."}) -> <<Advance, Expect("ident"), Parse("postfix")>>
      [] Is({"++"}) -> <<Advance, Parse("postfix")>>
      [] Is({"as"}) -> <<Advance, Parse("type"), Parse("postfix")>>
      [] OTHER -> Done

PrimaryBody ==
    CASE Is({"int", "literal", "string"}) -> <<Advance>>
      [] Is({"ident"}) -> <<Advance, Parse("struct init")>>
      [] Is({"["}) -> <<Advance, Parse("elements"), Expect("]")>>
      [] Is({"("}) -> <<Advance, Parse("expr"), Expect(")")>>
      [] OTHER -> <<Error, Advance>>

StmtBody ==
    CASE Is({"{"}) -> <<Parse("block")>>
      [] Is({"let"}) -> <<Advance, Match("mut"), Expect("ident"), Parse("let rest"), Expect(";")>>
      [] Is({"return"}) -> <<Advance, Parse("value"), Expect(";")>>
      [] Is({"if"}) -> <<Advance, Parse("expr"), Parse("block"), Parse("else")>>
      [] Is({"while"}) -> <<Advance, Parse("expr"), Parse("block")>>
      [] Is({"for"}) -> <<Advance, Parse("for init"), Parse("value"), Expect(";"), Parse("for post"), Parse("block")>>
      [] Is({"break"}) -> <<Advance, Expect(";")>>
      [] Is({"defer"}) -> <<Advance, Parse("stmt")>>
      [] OTHER -> <<Parse("expr"), Expect(";")>>

DeclBody ==
    CASE Is({"fn"}) -> <<Advance, Expect("ident"), Expect("("), Parse("params"), Expect(")"),
                         Parse("-> type"), Parse("fn body")>>
      [] Is({"struct"}) -> <<Advance, Expect("ident"), Expect("{"), Parse("fields"), Expect("}")>>
      [] Is({"enum"}) -> <<Advance, Expect("ident"), Parse(": type"), Expect("{"), Parse("variants"), Expect("}")>>
      [] Is({"import"}) -> <<Advance, Expect("string"), Expect(";")>>
      [] Is({"let"}) -> <<Advance, Expect("ident"), Parse(": type"), Parse("= expr"), Expect(";")>>
      [] OTHER -> <<Error, Advance>>

(* The loops inside these functions. *)
LoopBody(f) ==
    CASE f = "module" ->
             IF Is({"eof"}) THEN Done
             ELSE <<Parse("decl"), Parse("module")>>
      [] f = "params" -> IF Is({"..."}) THEN <<Advance>>
             ELSE Until(")", <<Expect("ident"), Expect(":"), Parse("type"), Parse("params,")>>)
      [] f = "fn types" -> IF Is({"..."}) THEN <<Advance>>
             ELSE Until(")", <<Parse("type"), Parse("fn types,")>>)
      [] f = "arguments" -> Until(")", <<Parse("expr"), Parse("arguments,")>>)
      [] f = "elements" -> Until("]", <<Parse("expr"), Parse("elements,")>>)
      [] f = "inits" ->
             Until("}", <<Expect("."), Expect("ident"), Expect("="), Parse("expr"), Parse("inits,")>>)
      [] f = "fields" -> Until("}", <<Expect("ident"), Expect(":"), Parse("type"),
                                      Match(","), Match(";"), Parse("fields")>>)
      [] f = "variants" ->
             Until("}", <<Expect("ident"), Parse("= int"), Match(","), Parse("variants")>>)
      [] f = "statements" -> Until("}", <<Parse("stmt"), Parse("statements")>>)
      [] f = "params," -> Comma("params")
      [] f = "fn types," -> Comma("fn types")
      [] f = "arguments," -> Comma("arguments")
      [] f = "elements," -> Comma("elements")
      [] f = "inits," -> Comma("inits")
Loops == {"module", "params", "fn types", "arguments", "elements", "inits", "fields", "variants",
          "statements", "params,", "fn types,", "arguments,", "elements,", "inits,"}

(* The conditions inside these functions. *)
Given(t, items) == IF Is(t) THEN <<Advance>> \o items ELSE Done

Branch(f) ==
    CASE f = "-> type" -> Given({"->"}, <<Parse("type")>>)
      [] f = ": type" -> Given({":"}, <<Parse("type")>>)
      [] f = "= expr" -> Given({"="}, <<Parse("expr")>>)
      [] f = "= int" -> Given({"="}, <<Expect("int")>>)
      [] f = "let rest" -> IF Is({":"}) THEN <<Advance, Parse("type"), Parse("= expr")>>
                           ELSE IF Is({"="}) THEN <<Parse("= expr")>> ELSE <<Error>>
      [] f = "value" -> IF Is({";"}) THEN Done ELSE <<Parse("expr")>>
      [] f = "else" -> Given({"else"}, <<Parse("else body")>>)
      [] f = "else body" -> <<Parse(IF Is({"if"}) THEN "stmt" ELSE "block")>>
      [] f = "for init" -> IF Is({";"}) THEN <<Advance>> ELSE <<Parse("stmt")>>
      [] f = "for post" -> IF Is({"{"}) THEN Done ELSE <<Parse("expr")>>
      [] f = "fn body" -> IF Is({"{"}) THEN <<Parse("block")>> ELSE <<Expect(";")>>
      [] f = "struct init" -> IF Is({"{"}) /\ peek = "."
                              THEN <<Advance, Parse("inits"), Expect("}")>> ELSE Done

Body(f) ==
    CASE f = "type" -> TypeBody
      [] f = "expr" -> <<Parse("binary"), Parse("assign rest")>>
      [] f = "assign rest" -> Given(AssignOps, <<Parse("expr")>>)
      [] f = "binary" -> <<Parse("unary"), Parse("binary rest")>>
      [] f = "binary rest" -> Given(BinaryOps, <<Parse("binary")>>)
      [] f = "unary" -> UnaryBody
      [] f = "postfix" -> PostfixBody
      [] f = "primary" -> PrimaryBody
      [] f = "stmt" -> StmtBody
      [] f = "block" -> <<Expect("{"), Parse("statements"), Expect("}")>>
      [] f = "decl" -> <<Match("extern"), Match("inline"), Parse("decl rest")>>
      [] f = "decl rest" -> DeclBody
      [] f \in Loops -> LoopBody(f)
      [] OTHER -> Branch(f)

-----------------------------------------------------------------------------

Init ==
    /\ cur \in Tokens /\ peek = Unseen
    /\ left = IF cur = "eof" THEN 0 ELSE MaxTokens - 1
    /\ stack = <<Parse("module")>>
    /\ had_error = FALSE /\ open = << >>

Todo(what) == stack # Done /\ Head(stack).do = what
Do(items) == stack' = items \o Tail(stack)

(* lexer_next; a source that has ended stays ended. *)
Read(next) ==
    IF left = 0 THEN next = "eof" /\ left' = 0
    ELSE next \in Tokens /\ left' = IF next = "eof" THEN 0 ELSE left - 1

(* The brackets still to be closed, once t is consumed. *)
Bracket(brackets, t) ==
    IF t \in DOMAIN Closer THEN <<Closer[t]>> \o brackets
    ELSE IF t \notin Closers THEN brackets
    ELSE IF brackets # << >> /\ Head(brackets) = t THEN Tail(brackets)
    ELSE <<t>> \o brackets

(* advance: brackets are followed until the first error *)
Consume ==
    /\ IF peek = Unseen THEN \E t \in Tokens : Read(t) /\ cur' = t
       ELSE cur' = peek /\ UNCHANGED left
    /\ peek' = Unseen
    /\ open' = IF had_error THEN << >> ELSE Bracket(open, cur)
    /\ UNCHANGED had_error

Report == had_error' = TRUE /\ open' = << >> /\ UNCHANGED <<cur, peek, left>>
Pass == UNCHANGED <<cur, peek, left, had_error, open>>

(* The token after the current one is looked at in two places. *)
LooksAhead == \/ Head(stack) = Parse("type") /\ cur = "["
              \/ Head(stack) = Parse("struct init") /\ cur = "{"

Step ==
    /\ stack # Done /\ Do(Done)
    /\ \/ Todo("expect") /\ IF cur = Head(stack).of THEN Consume ELSE Report
       \/ Todo("match") /\ IF cur = Head(stack).of THEN Consume ELSE Pass
       \/ Todo("advance") /\ Consume
       \/ Todo("error") /\ Report

Look ==
    /\ Todo("parse") /\ LooksAhead /\ peek = Unseen
    /\ \E t \in Tokens : Read(t) /\ peek' = t
    /\ UNCHANGED <<cur, stack, had_error, open>>

Call ==
    /\ Todo("parse") /\ (LooksAhead => peek # Unseen)
    /\ Do(Body(Head(stack).of))
    /\ Pass

Next == Step \/ Look \/ Call

Spec == Init /\ [][Next]_vars /\ WF_vars(Next)

-----------------------------------------------------------------------------

(* The loops that go round for ever: no item of the body consumes the      *)
(* current token, and none of it ends the loop. *)
Stuck ==
    /\ Todo("parse")
    /\ \/ /\ Head(stack).of = "fields"
          /\ ~Is({"ident", ":", "*", "[", "fn", "primitive", ",", ";", "}", "eof"})
       \/ /\ Head(stack).of = "variants"
          /\ ~Is({"ident", "=", ",", "}", "eof"})

(* The token an item of the stack is going to consume, if it is known. *)
Consumes(item) ==
    CASE item.do = "expect" -> item.of
      [] item.do = "advance" -> cur
      [] OTHER -> ""

(* Until an error is reported, the brackets that the functions on the call *)
(* stack are still going to consume close exactly the ones that are open,  *)
(* each by its own kind and in the right order: so a source that is        *)
(* accepted has its brackets balanced, although the function that consumes *)
(* a closing bracket is often not the one that consumed the opening one,   *)
(* and several loops end early.                                            *)
BracketsClose ==
    LET after[i \in 0 .. Len(stack)] ==    \* what is still open once i items are done
            IF i = 0 THEN open ELSE Bracket(after[i - 1], Consumes(stack[i]))
    IN  had_error \/ Todo("error") \/ after[Len(stack)] = << >>

(* The parser ends on every source, accepted or not, unless a loop over    *)
(* the fields of a struct or the variants of an enum meets a token it can  *)
(* do nothing with: every other loop and every recursion consumes a token  *)
(* on its way, or ends at the end of the source.                           *)
EndsUnlessStuck == <>(stack = Done \/ Stuck)

=============================================================================
