------------------------------ MODULE GeeTrie ------------------------------
(***************************************************************************)
(* Gee's routing trie (type Node, src/Geektutu/Gee/main.go lines 71-136).  *)
(*                                                                         *)
(* A trie is a function from node positions to nodes.  A node's position   *)
(* is the sequence of the parts on the path from the root to it, so the    *)
(* root is <<>> and n.part is Last(position).  A node is                   *)
(* [pattern, children]: pattern is "" (<<>>) unless a route ends here, and *)
(* children lists the children's parts in insertion order, which is the   *)
(* order matchChild and matchChildren scan.  isWild is a function of the   *)
(* part and is not stored.  insert appends a child only when matchChild   *)
(* finds none, so sibling parts are distinct and positions are unique.     *)
(***************************************************************************)
EXTENDS Naturals, Sequences, SequencesExt

\* &Node{}: no pattern, no children.
EmptyNode == [pattern |-> <<>>, children |-> <<>>]
EmptyTrie == <<>> :> EmptyNode

\* isWild: part[0] == ':' || part[0] == '*'.
IsWild(part) == part[1] \in {":", "*"}

\* matchChild: the first child whose part equals part or that is wild;
\* 0 when there is none (nil).
MatchChild(t, n, part) ==
    SelectInSeq(t[n].children, LAMBDA c : c = part \/ IsWild(c))

\* matchChildren: every such child, in order.
MatchChildren(t, n, part) ==
    SelectSeq(t[n].children, LAMBDA c : c = part \/ IsWild(c))

\* Mutant of insert: off by one, the pattern is stored one level above the
\* node its last part leads to.
RECURSIVE InsertEarly(_, _, _, _, _)
InsertEarly(t, n, pattern, parts, height) ==
    IF height + 1 >= Len(parts)
    THEN [t EXCEPT ![n].pattern = pattern]
    ELSE LET part == parts[height + 1]
             k    == MatchChild(t, n, part)
         IN IF k = 0
            THEN InsertEarly((Append(n, part) :> EmptyNode)
                                @@ [t EXCEPT ![n].children = Append(@, part)],
                             Append(n, part), pattern, parts, height + 1)
            ELSE InsertEarly(t, Append(n, t[n].children[k]), pattern, parts, height + 1)

\* insert(pattern, parts, height) at node n: at the end of the parts the
\* node takes the pattern (replacing any earlier one); otherwise descend
\* into matchChild, creating and appending a new child when it is nil.
RECURSIVE Insert(_, _, _, _, _)
Insert(t, n, pattern, parts, height) ==
    IF height = Len(parts)
    THEN [t EXCEPT ![n].pattern = pattern]
    ELSE LET part == parts[height + 1]
             k    == MatchChild(t, n, part)
         IN IF k = 0
            THEN Insert((Append(n, part) :> EmptyNode)
                            @@ [t EXCEPT ![n].children = Append(@, part)],
                        Append(n, part), pattern, parts, height + 1)
            ELSE Insert(t, Append(n, t[n].children[k]), pattern, parts, height + 1)

(***************************************************************************)
(* search(parts, height) at node n: at the end of the parts, or at a node *)
(* whose part starts with '*', return the node if it has a pattern, else   *)
(* nil; otherwise try the matching children in order and return the first *)
(* non-nil result.  The result is a set: {} for nil, {position} otherwise. *)
(***************************************************************************)
RECURSIVE Search(_, _, _, _), SearchChildren(_, _, _, _, _)
Search(t, n, parts, height) ==
    IF height = Len(parts) \/ (n # <<>> /\ Last(n)[1] = "*")
    THEN IF t[n].pattern = <<>> THEN {} ELSE {n}
    ELSE SearchChildren(t, n, MatchChildren(t, n, parts[height + 1]), parts, height)

SearchChildren(t, n, kids, parts, height) ==
    IF kids = <<>> THEN {}
    ELSE LET res == Search(t, Append(n, Head(kids)), parts, height + 1)
         IN IF res # {} THEN res ELSE SearchChildren(t, n, Tail(kids), parts, height)

\* The patterns stored in a trie.
Patterns(t) == {t[n].pattern : n \in DOMAIN t} \ {<<>>}

=============================================================================
