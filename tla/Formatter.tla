------------------------------- MODULE Formatter -------------------------------
(***************************************************************************)
(* `nexl fmt' (crates/nexl-cli/src/main.rs, command_fmt): read a source,   *)
(* print its nodes, and leave the text in the place of the source, where   *)
(* every later command reads it.  A node is laid out only when everything  *)
(* before it has been written.                                             *)
(***************************************************************************)
EXTENDS Printer

CONSTANT Sources  \* the texts that are formatted

ASSUME SourcesAreTexts == Sources \subseteq Seq(Lexeme)

VARIABLES
    phase,  \* "read", "print", "reread", "done", or "panicked"
    align,  \* whether columns are aligned, an option of the command
    tree,   \* the nodes that were read from the source
    todo    \* the layout that is still to be written; `text' is what was

vars == <<readerVars, phase, align, tree, todo>>

Init ==
    /\ text \in Sources
    /\ Unread
    /\ phase = "read"
    /\ align \in BOOLEAN
    /\ tree = <<>>
    /\ todo = <<>>

Read ==
    /\ phase \in {"read", "reread"}
    /\ ReadStep
    /\ UNCHANGED <<phase, align, tree, todo>>

(* A source that cannot be read is left as it is.                           *)
StartPrinting ==
    /\ phase = "read" /\ ~Reading /\ error = None
    /\ phase' = "print"
    /\ tree' = forms
    /\ todo' = print_file(forms)
    /\ text' = <<>>
    /\ UNCHANGED <<tokens, pos, stack, forms, error, align>>

Written(layout) == "lexeme" \in DOMAIN layout

PrintLexemes ==
    /\ phase = "print" /\ todo # <<>> /\ Written(Head(todo))
    /\ LET n == CHOOSE i \in DOMAIN todo :
                    /\ \A j \in 1..i : Written(todo[j])
                    /\ i < Len(todo) => ~Written(todo[i + 1])
       IN /\ text' = text \o [i \in 1..n |-> todo[i].lexeme]
          /\ todo' = From(todo, n + 1)
    /\ UNCHANGED <<tokens, pos, stack, forms, error, phase, align, tree>>

(* `items[2..]' of a deftype without a name, whenever it is measured, and   *)
(* of a match without a scrutinee, when it is broken into lines.            *)
Short(node, S) == node.kind = "list" /\ Len(node.items) = 1 /\ HeadIs(node.items, S)
Panics(node) == Short(node, {"deftype"})
MayPanic(node) == Short(node, {"deftype", "match"})

PrintNode ==
    /\ phase = "print" /\ todo # <<>> /\ ~Written(Head(todo))
    /\ ~Panics(Head(todo).node)
    /\ \E layout \in write_node_indented(Head(todo).node, align) : todo' = layout \o Tail(todo)
    /\ UNCHANGED <<text, tokens, pos, stack, forms, error, phase, align, tree>>

Panic ==
    /\ phase = "print" /\ todo # <<>> /\ ~Written(Head(todo))
    /\ MayPanic(Head(todo).node)
    /\ phase' = "panicked"
    /\ UNCHANGED <<text, tokens, pos, stack, forms, error, align, tree, todo>>

ReadAgain ==
    /\ phase = "print" /\ todo = <<>>
    /\ phase' = "reread"
    /\ tokens' = tokenize(text)
    /\ pos' = 1
    /\ stack' = <<Forms("top", 0)>>
    /\ forms' = <<>>
    /\ UNCHANGED <<text, error, align, tree, todo>>

Next == Read \/ StartPrinting \/ PrintLexemes \/ PrintNode \/ Panic \/ ReadAgain

Spec == Init /\ [][Next]_vars

-----------------------------------------------------------------------------
(* What is left of nodes without their comments, and their comments.        *)

RECURSIVE Bare(_), CommentsOf(_), Nodes(_)
Bare(nodes) ==
    [i \in DOMAIN nodes |-> [nodes[i] EXCEPT !.lead = <<>>, !.trail = <<>>, !.items = Bare(@)]]

CommentsOf(nodes) ==
    FlattenSeq([i \in DOMAIN nodes |-> nodes[i].lead \o CommentsOf(nodes[i].items) \o nodes[i].trail])

(* The nodes and everything in them.                                        *)
Nodes(nodes) == Range(nodes) \cup UNION {Nodes(nodes[i].items) : i \in DOMAIN nodes}

Formatted == phase = "reread" /\ ~Reading

(* The reader keeps its types, the printer has only nodes that were read    *)
(* left to print, and the two readings are complete.                        *)
TypeOK ==
    /\ phase \in {"read", "print", "reread", "panicked"}
    /\ align \in BOOLEAN
    /\ ReaderTypeOK
    /\ \A i \in DOMAIN todo : Written(todo[i]) \/ todo[i].node \in Nodes(tree)
    /\ phase = "print" => ~Reading /\ error = None

-----------------------------------------------------------------------------
(* The reader.                                                              *)

(* The nodes of the calls under way, with those that wait for a form.       *)
SoFar ==
    LET Waiting(n) == [i \in 1..n |-> Node("discard", <<>>, <<>>)]
    IN  forms \o FlattenSeq([i \in DOMAIN stack |->
            CASE stack[i].frame = "forms" -> stack[i].items
              [] stack[i].frame = "prefix" -> Waiting(IF stack[i].kind = "discard" THEN 1 ELSE 0)
              [] stack[i].frame = "form" -> <<[Atom(<<>>) EXCEPT !.lead = stack[i].lead]>>
              [] stack[i].frame = "discards" ->
                     <<[Atom(<<>>) EXCEPT !.lead = stack[i].lead]>> \o Waiting(Cardinality(stack[i].marks))])

(* The atoms and the #_ of nodes, as they are spelled.                      *)
RECURSIVE Spelled(_)
Spelled(nodes) ==
    FlattenSeq([i \in DOMAIN nodes |->
        (CASE nodes[i].kind = "atom" -> <<nodes[i].v>>
           [] nodes[i].kind = "discard" -> <<<<"#_">>>>
           [] OTHER -> <<>>) \o Spelled(nodes[i].items)])

Chained == \E p \in DOMAIN tokens : Cardinality(DiscardMarks(p)) > 1

(* A comment that is behind a form on its line, or before a form.           *)
Attached(i) ==
    \/ /\ i > 1 /\ tokens[i - 1].kind \in {"atom", "close"}
       /\ \A j \in tokens[i - 1].end .. tokens[i].at : text[j] # "\n"
    \/ /\ PeekNoComment(i) <= Len(tokens) /\ tokens[PeekNoComment(i)].kind # "close"
       /\ \A j \in 1 .. i - 1 : PeekNoComment(j + 1) > i => tokens[j].kind # "prefix"

(* Every atom that was read is in one place of the nodes, in its order (a   *)
(* `?' moves before its form); every `#_' discards one form of its own; and *)
(* every comment is kept that stands behind or before a form and not        *)
(* between a prefix and its form, where no `#_' follows another.            *)
NothingReadIsLost ==
    phase \in {"read", "reread"} /\ error = None =>
        LET read == SubSeq(tokens, 1, pos - 1)
            Vs(ts) == [i \in DOMAIN ts |-> ts[i].v]
            written == Vs(SelectSeq(read, LAMBDA t : t.kind = "atom" \/ t.v = <<"#_">>))
            Fixed(vs) == SelectSeq(vs, LAMBDA v : v \notin {<<>>, Question, <<"#_">>})
            Count(v, vs) == Cardinality({i \in DOMAIN vs : vs[i] = v})
        IN  /\ Fixed(Spelled(SoFar)) = Fixed(written)
            /\ \A v \in {Question, <<"#_">>} : Count(v, Spelled(SoFar)) = Count(v, written)
            /\ ~Chained => CommentsOf(SoFar) =
                   LET kept == SetToSortSeq({i \in DOMAIN read : read[i].kind = "comment" /\ Attached(i)}, <)
                   IN [i \in DOMAIN kept |-> tokens[kept[i]].v]

-----------------------------------------------------------------------------
(* What the printer cannot write down so that it is read again.             *)

(* A comment after a form, with more of a form to come on its line.         *)
CommentsInside(nodes) == \E n \in Nodes(nodes) : \E d \in Nodes(n.items) : d.trail # <<>>

(* A `?' that runs on from a name, as it does in (? x).                     *)
RECURSIVE EndsInName(_)
EndsInName(n) ==
    CASE n.kind = "atom" -> Last(n.v) \in Names \cup Keys
      [] as_postfix_question(n) -> TRUE
      [] OTHER -> IsMarked(n) /\ EndsInName(n.items[1])

QuestionsRunOn(nodes) ==
    \E n \in Nodes(nodes) : as_postfix_question(n) /\ EndsInName(n.items[2])

(* A prefix binds closer than `?', unless it is a #_ in a sequence of forms;*)
(* an @ makes a ~ before it another prefix, and #_#_ discards two forms.    *)
PrefixesRegroup(nodes) ==
    \E n \in Nodes(nodes) :
        \/ IsMarked(n) /\ n.kind # "discard" /\ as_postfix_question(n.items[1])
        \/ IsMarked(n) /\ n.items[1].kind = "discard" /\ as_postfix_question(n.items[1].items[1])
        \/ n.kind = "unquote" /\ n.items[1].kind = "deref"
        \/ n.kind = "discard" /\ write_node(n.items[1])[1] = "#_"
        \/ as_postfix_question(n) /\ n.items[2].kind = "discard"

(* A string that is not read again as it was: see Inside.                   *)
StringsRespelled(nodes) ==
    \E n \in Nodes(nodes) : IsString(n) /\
        LET parts == Inside[n.v[1]]
        IN IF "newline" \in parts THEN parts \cap {"markup", "indented", "blank", "brace"} # {}
           ELSE parts \cap {"hole", "brace"} # {}

(* Items that no layout writes: a mut or a last name of a let that has a    *)
(* fallback, the last test of an aligned cond or match of at least two      *)
(* clauses.                                                                 *)
ItemsLeftOut(nodes) ==
    \E n \in Nodes(nodes) : n.kind = "list" /\
        \/ HeadIs(n.items, {"let", "loop"}) /\ KindAt(n.items, 2, "vector") /\
               LET bs == n.items[2].items
                   groups == collect_let_binding_groups(bs, 1)
               IN /\ \E i \in DOMAIN bs : IsPipe(bs[i])
                  /\ bs # FlattenSeq([i \in DOMAIN groups |->
                               <<groups[i].pattern, groups[i].value>> \o
                               (IF groups[i].fallback = <<>> THEN <<>>
                                ELSE <<Atom(<<"|">>)>> \o groups[i].fallback)])
        \/ HeadIs(n.items, {"cond"}) /\ Len(n.items) >= 6 /\ Len(n.items) % 2 = 0
        \/ HeadIs(n.items, {"match"}) /\ Len(n.items) >= 7 /\ Len(n.items) % 2 = 1

(* The nodes whose comments no layout writes.                               *)
CommentsLeftOut(nodes) ==
    \E n \in Nodes(nodes) : \E i \in DOMAIN n.items :
        /\ n.items[i].lead # <<>>
        /\ \/ as_postfix_question(n) /\ i = 1
           \/ HeadIs(n.items, {"let", "loop"}) /\ n.items[i].kind = "vector"
           \/ HeadIs(n.items, {"deftype"}) /\ (IsPipe(n.items[i]) \/ n.items[i].kind = "map")

Printable(nodes) ==
    /\ ~CommentsInside(nodes)
    /\ ~QuestionsRunOn(nodes)
    /\ ~PrefixesRegroup(nodes)
    /\ ~StringsRespelled(nodes)
    /\ ~ItemsLeftOut(nodes)

-----------------------------------------------------------------------------
(* Formatting keeps the program: whatever fits on a line, the text that is  *)
(* written is read as the nodes it was written for, unless a comment stands *)
(* inside a form behind one of its items, or one of the five other cases    *)
(* above occurs; and only a deftype or match without operands makes it      *)
(* panic.                                                                   *)
ProgramKept ==
    /\ Formatted /\ Printable(tree) => error = None /\ Bare(forms) = Bare(tree)
    /\ phase = "panicked" => \E n \in Nodes(tree) : MayPanic(n)

(* And the comments: they may come to hang on another node, but all are     *)
(* there, in their order.                                                   *)
CommentsKept ==
    Formatted /\ Printable(tree) /\ ~CommentsLeftOut(tree) => CommentsOf(forms) = CommentsOf(tree)
================================================================================
