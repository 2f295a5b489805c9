--------------------------------- MODULE Reader ---------------------------------
(***************************************************************************)
(* Reading a source text (crates/nexl-reader): the lexer groups the text   *)
(* into tokens, the recursive descent of reader.rs turns the tokens into   *)
(* nodes and hangs the comments on them.                                   *)
(*                                                                         *)
(* A text is a sequence of lexemes: a delimiter, a prefix, a spelling, a   *)
(* space, a newline or a comment sign, which comments out the rest of its  *)
(* line; the back quote, which TLA+ cannot write, is the lexeme qq.  The   *)
(* stack stands for the calls that are under way: a frame of forms for     *)
(* read_all and the four bracketed forms, and above it what waits for the  *)
(* next form.                                                              *)
(***************************************************************************)
EXTENDS Integers, Sequences, SequencesExt

CONSTANTS
    Names,     \* spellings of symbols, which run on into one another
    Keys,      \* spellings of keywords and tags, which names run on
    Literals,  \* numbers, strings and signs, which end by themselves
    Comments   \* comment signs

VARIABLES
    text,    \* the source
    tokens,  \* its tokens
    pos,     \* the next token
    stack,   \* the frames of the calls under way
    forms,   \* the nodes of a text that was read
    error    \* the diagnostic of a text that was not

readerVars == <<text, tokens, pos, stack, forms, error>>

Space == {" ", "\n"}
Closer == [o \in {"(", "[", "{", "#{"} |->
              CASE o = "(" -> ")" [] o = "[" -> "]" [] o \in {"{", "#{"} -> "}"]
Closers == {Closer[o] : o \in DOMAIN Closer}
Bracketed == "(" :> "list" @@ "[" :> "vector" @@ "{" :> "map" @@ "#{" :> "set"
PrefixKind == [x \in {"'", "@", "#_", "qq", "~", "~@"} |->
                  CASE x = "'" -> "quote" [] x = "@" -> "deref" [] x = "#_" -> "discard"
                    [] x = "qq" -> "quasiquote" [] x = "~" -> "unquote" [] x = "~@" -> "splice"]
Question == <<"?">>

Lexeme == Names \cup Keys \cup Literals \cup Comments \cup Space
              \cup DOMAIN Closer \cup Closers \cup DOMAIN PrefixKind

-----------------------------------------------------------------------------
(* Tokens.                                                                  *)

(* The first place from p on that is not one of the places K in s.          *)
After(s, p, K) == CHOOSE q \in p .. Len(s) + 1 : q \notin K /\ p .. q - 1 \subseteq K

(* The token that starts at i: comments run to the end of the line, names   *)
(* as far as there are names, and `~' takes an `@' that follows it.         *)
lex_token(s, i) ==
    LET Run(S) == After(s, i + 1, {h \in DOMAIN s : s[h] \in S})
        Upto(e, kind) == [kind |-> kind, v |-> SubSeq(s, i, e - 1), at |-> i, end |-> e]
    IN  CASE s[i] \in Comments -> Upto(Run(Lexeme \ {"\n"}), "comment")
          [] s[i] \in Names \cup Keys -> Upto(Run(Names), "atom")
          [] s[i] \in Literals -> Upto(i + 1, "atom")
          [] s[i] \in DOMAIN Closer -> Upto(i + 1, "open")
          [] s[i] \in Closers -> Upto(i + 1, "close")
          [] s[i] = "~" /\ i < Len(s) /\ s[i + 1] = "@" ->
                 [Upto(i + 2, "prefix") EXCEPT !.v = <<"~@">>]
          [] OTHER -> Upto(i + 1, "prefix")

tokenize(s) ==
    LET Tokens[i \in 1 .. Len(s) + 1] ==
            IF i > Len(s) THEN <<>>
            ELSE IF s[i] \in Space THEN Tokens[i + 1]
            ELSE <<lex_token(s, i)>> \o Tokens[lex_token(s, i).end]
    IN  Tokens[1]

Token ==
    LET Of(kinds, vs) == [kind : kinds, v : vs, at : Nat, end : Nat]
    IN  Of({"comment", "atom"}, Seq(Lexeme))
            \cup Of({"open"}, {<<o>> : o \in DOMAIN Closer})
            \cup Of({"close"}, {<<c>> : c \in Closers})
            \cup Of({"prefix"}, {<<x>> : x \in DOMAIN PrefixKind})

CommentsAt == {i \in DOMAIN tokens : tokens[i].kind = "comment"}
MarksAt == {i \in DOMAIN tokens : tokens[i].kind = "prefix" /\ tokens[i].v = <<"#_">>}
QuestionsAt == {i \in DOMAIN tokens : tokens[i].kind = "atom" /\ tokens[i].v = Question}

(* The first token from p on that is no comment; one past the last if none. *)
PeekNoComment(p) == After(tokens, p, CommentsAt)

drain_comments(p) == [i \in 1 .. PeekNoComment(p) - p |-> tokens[p + i - 1].v]

-----------------------------------------------------------------------------
(* Nodes.                                                                   *)

Node(kind, v, items) == [kind |-> kind, v |-> v, items |-> items, lead |-> <<>>, trail |-> <<>>]
Atom(v) == Node("atom", v, <<>>)

IsSymbol(node, v) == node.kind = "atom" /\ node.v = v

(* Each `?' that follows wraps the form; the comments before the form go    *)
(* with the wrapper.                                                        *)
Wrapped(node) == Node("list", <<>>, <<Atom(Question), [node EXCEPT !.lead = <<>>]>>)

unled_postfix_question(node, p) ==
    LET q == After(tokens, p, QuestionsAt)
    IN  [node |-> FoldLeft(LAMBDA n, t : Wrapped(n), node, SubSeq(tokens, p, q - 1)), pos |-> q]

apply_postfix_question(node, p) ==
    LET q == After(tokens, p, QuestionsAt)
    IN  [node |-> FoldLeft(LAMBDA n, t : [Wrapped(n) EXCEPT !.lead = n.lead], node,
                           SubSeq(tokens, p, q - 1)),
         pos |-> q]

(* A comment on the line where the last token ended.                        *)
try_trailing(p) ==
    IF /\ p <= Len(tokens) /\ tokens[p].kind = "comment"
       /\ \A i \in tokens[p - 1].end .. tokens[p].at - 1 : text[i] # "\n"
    THEN [comment |-> <<tokens[p].v>>, pos |-> p + 1]
    ELSE [comment |-> <<>>, pos |-> p]

-----------------------------------------------------------------------------
(* Frames.                                                                  *)

Forms(open, at) == [frame |-> "forms", open |-> open, at |-> at, items |-> <<>>]
OneForm(lead) == [frame |-> "form", lead |-> lead]
Discards(marks, lead) == [frame |-> "discards", marks |-> marks, lead |-> lead]
Prefixed(kind, at) == [frame |-> "prefix", kind |-> kind, at |-> at]

Top == Last(stack)
Push(stk, item) == Append(Front(stk), [Last(stk) EXCEPT !.items = Append(@, item)])

(* The places of the `#_' that a frame still has to find a form for.        *)
First(marks) == CHOOSE i \in marks : \A j \in marks : i <= j

(* A node is complete with all tokens before p: the calls it returns        *)
(* through, up to the sequence of forms it becomes an item of.              *)
Return(node, stk, p) ==
    LET b == SelectLastInSeq(stk, LAMBDA frame : frame.frame # "prefix")
        frame == stk[b]
        below == SubSeq(stk, 1, b - 1)
        whole == FoldRight(LAMBDA prefix, n : Node(prefix.kind, <<>>, <<n>>),
                           SubSeq(stk, b + 1, Len(stk)), node)
        Trailing(item, at) == [item EXCEPT !.trail = try_trailing(at).comment]
    IN  IF frame.frame = "form"
        THEN LET q == apply_postfix_question([whole EXCEPT !.lead = frame.lead], p)
             IN [stack |-> Push(below, Trailing(q.node, q.pos)), pos |-> try_trailing(q.pos).pos]
        ELSE LET q == apply_postfix_question(whole, p)
                 item == [Node("discard", <<>>, <<q.node>>) EXCEPT !.lead = frame.lead]
                 rest == Push(below, Trailing(item, q.pos))
                 left == frame.marks \ {First(frame.marks)}
             IN [stack |-> IF left = {} THEN rest ELSE Append(rest, Discards(left, <<>>)),
                 pos |-> try_trailing(q.pos).pos]

Returned(node, stk, p) ==
    LET r == Return(node, stk, p)
    IN stack' = r.stack /\ pos' = r.pos /\ UNCHANGED <<text, tokens, forms, error>>

ContinuingFail(what, at) ==
    /\ error' = [what |-> what, at |-> at]
    /\ UNCHANGED <<text, tokens, pos, stack, forms>>

Fail(what, at) ==
    /\ error' = [what |-> what, at |-> at]
    /\ stack' = <<>>
    /\ UNCHANGED <<text, tokens, pos, forms>>

None == [what |-> "none", at |-> 0]
Reading == stack # <<>>

-----------------------------------------------------------------------------
(* The comments before the next form, and every `#_' that follows without   *)
(* a form between them, however many comments there are.                    *)
DiscardMarks(p) == MarksAt \cap p .. After(tokens, p, CommentsAt \cup MarksAt) - 1

read_forms_into ==
    /\ Reading /\ Top.frame = "forms"
    /\ LET p == PeekNoComment(pos)
           marks == DiscardMarks(pos)
       IN /\ p <= Len(tokens) /\ tokens[p].kind # "close"
          /\ stack' = Append(stack, IF marks = {} THEN OneForm(drain_comments(pos))
                                    ELSE Discards(marks, drain_comments(pos)))
          /\ pos' = After(tokens, pos, CommentsAt \cup MarksAt)
    /\ UNCHANGED <<text, tokens, forms, error>>

(* The token a form starts with, after comments that are dropped.           *)
dispatch ==
    /\ Reading /\ Top.frame # "forms"
    /\ LET p == PeekNoComment(pos)
       IN /\ p <= Len(tokens)
          /\ \/ tokens[p].kind = "atom" /\ Returned(Atom(tokens[p].v), stack, p + 1)
             \/ /\ tokens[p].kind = "open"
                /\ stack' = Append(stack, Forms(tokens[p].v[1], p))
                /\ pos' = p + 1
                /\ UNCHANGED <<text, tokens, forms, error>>
             \/ /\ tokens[p].kind = "prefix"
                /\ stack' = Append(stack, Prefixed(PrefixKind[tokens[p].v[1]], p))
                /\ pos' = p + 1
                /\ UNCHANGED <<text, tokens, forms, error>>

(* A prefix, or a `#_', that no form follows.                               *)
require_form ==
    /\ Reading /\ Top.frame # "forms"
    /\ LET p == PeekNoComment(pos)
       IN \/ /\ p > Len(tokens)
             /\ Fail("unclosed", IF Top.frame = "prefix" THEN Top.at ELSE First(Top.marks))
          \/ p <= Len(tokens) /\ tokens[p].kind = "close" /\ Fail("unmatched", p)

(* The closing bracket of read_list, read_vector, read_set and read_map;    *)
(* the comments before it are dropped.                                      *)
read_close ==
    /\ Reading /\ Top.frame = "forms"
    /\ LET p == PeekNoComment(pos)
       IN /\ p <= Len(tokens) /\ tokens[p].kind = "close"
          /\ IF Top.open = "top" \/ tokens[p].v # <<Closer[Top.open]>> THEN Fail("unmatched", p)
             ELSE IF Top.open = "{" /\ Len(Top.items) % 2 = 1 THEN Fail("odd map", Top.at)
             ELSE Returned(Node(Bracketed[Top.open], <<>>, Top.items), Front(stack), p + 1)

LenientRead_end ==
    /\ Reading /\ Top.frame = "forms"
    /\ PeekNoComment(pos) > Len(tokens)
    /\ forms' = Top.items
    /\ stack' = <<>>
    /\ pos' = Len(tokens) + 1
    /\ UNCHANGED <<text, tokens, error>>

read_end ==
    /\ Reading /\ Top.frame = "forms"
    /\ PeekNoComment(pos) > Len(tokens)
    /\ IF Top.open # "top" THEN Fail("unclosed", Top.at)
       ELSE /\ forms' = Top.items
            /\ stack' = <<>>
            /\ pos' = Len(tokens) + 1
            /\ UNCHANGED <<text, tokens, error>>

ReadStep == read_forms_into \/ dispatch \/ require_form \/ read_close \/ read_end

Unread ==
    /\ tokens = tokenize(text)
    /\ pos = 1
    /\ stack = <<Forms("top", 0)>>
    /\ forms = <<>>
    /\ error = None

ReaderSpec == text \in Seq(Lexeme) /\ Unread /\ [][ReadStep]_readerVars

-----------------------------------------------------------------------------
(* What the reader promises of every text.                                  *)

(* The frames nest as the calls do: only read_all's is at the bottom, a     *)
(* form is read for a sequence of forms, and a sequence of forms, which its *)
(* open bracket is kept with, or a prefix while a form is read.  What a     *)
(* frame waits for comes after the tokens it was entered with.              *)
ReaderTypeOK ==
    /\ text \in Seq(Lexeme)
    /\ tokens \in Seq(Token)
    /\ pos \in 1 .. Len(tokens) + 1
    /\ error.what \in {"none", "unclosed", "unmatched", "odd map"} /\ error.at \in 0 .. Len(tokens)
    /\ Reading => error = None /\ Top.frame \in {"forms", "form", "discards", "prefix"}
                  /\ stack[1].frame = "forms" /\ stack[1].open = "top"
    /\ \A i \in 2 .. Len(stack) :
           /\ stack[i].frame \in {"form", "discards"} <=> stack[i - 1].frame = "forms"
           /\ stack[i].frame = "forms" =>
                  tokens[stack[i].at].kind = "open" /\ tokens[stack[i].at].v = <<stack[i].open>>
           /\ stack[i].frame = "discards" =>
                  stack[i].marks # {} /\ stack[i].marks \subseteq MarksAt \cap 1 .. pos - 1
           /\ stack[i].frame \in {"forms", "prefix"} => stack[i].at \in 1 .. pos - 1

(* The open and close tokens among the first n that have no partner.        *)
Unpaired[n \in 0 .. Len(tokens)] ==
    IF n = 0 THEN <<>>
    ELSE LET r == Unpaired[n - 1]
         IN  IF /\ tokens[n].kind = "close" /\ r # <<>> /\ tokens[Last(r)].kind = "open"
                /\ tokens[n].v = <<Closer[tokens[Last(r)].v[1]]>>
             THEN Front(r)
             ELSE IF tokens[n].kind \in {"open", "close"} THEN Append(r, n) ELSE r

(* A close token among the first n has no partner.                          *)
Bad(n) == \E i \in Range(Unpaired[n]) : tokens[i].kind = "close"

Accepted == ~Reading /\ error = None

(* The reader stops at the first closing bracket that has no partner, or    *)
(* before it, at a bracket that a prefix is left without a form by; it      *)
(* blames the innermost bracket that is left open; and what it accepts is   *)
(* balanced.                                                                *)
BracketsAreMatched ==
    LET at == error.at
    IN  /\ ~Bad(pos - 1)
        /\ Accepted => Unpaired[Len(tokens)] = <<>>
        /\ error.what = "unclosed" /\ tokens[at].kind = "open" => at = Last(Unpaired[Len(tokens)])
        /\ error.what = "unmatched" =>
               \/ Bad(at)
               \/ LET open == Unpaired[at - 1]
                  IN \E p \in (IF open = <<>> THEN 1 ELSE Last(open)) .. at : tokens[p].kind = "prefix"

(* Every lexeme that is no space is in one token, and the tokens are in the *)
(* order of the text.                                                       *)
TokensCoverText ==
    /\ \A i \in DOMAIN tokens : tokens[i].at \in 1 .. tokens[i].end - 1
    /\ \A i, j \in DOMAIN tokens : i < j => tokens[i].end <= tokens[j].at
    /\ \A i \in DOMAIN tokens : tokens[i].end <= Len(text) + 1
    /\ \A h \in DOMAIN text :
           text[h] \in Space \/ \E i \in DOMAIN tokens : h \in tokens[i].at .. tokens[i].end - 1

(* A step of the reader takes tokens, or turns from a sequence of forms to  *)
(* the next form in it, or is the last: a text is read in finitely many     *)
(* steps.                                                                   *)
ReadingAdvances ==
    [][\/ ~Reading'
       \/ pos' > pos
       \/ pos' = pos /\ Top.frame = "forms" /\ Top'.frame # "forms"]_readerVars
================================================================================
