------------------------------- MODULE List -------------------------------
(***************************************************************************)
(* The linked list of libUseful/List.c, with its head that points to the   *)
(* last item, counts the items and may cache the item last found.  Maps    *)
(* and the timeouts of items are left out.                                 *)
(***************************************************************************)
EXTENDS Integers, Sequences, FiniteSets

CONSTANTS
  Nodes,    \* the memory for items
  Tags,     \* names, as numbers in the order of strcmp
  FlagSets  \* flags a list is created with

Root == "head"
NULL == "null"

ASSUME ListAssumption ==
  /\ IsFiniteSet(Nodes) /\ Root \notin Nodes /\ NULL \notin Nodes
  /\ Tags \subseteq Int
  /\ FlagSets \subseteq SUBSET {"CACHE", "ORDERED", "SELFORG"}

VARIABLES
  flags,      \* of the head
  next, prev, \* ->Next, ->Prev of the head and the items
  side,       \* Head->Side
  hits,       \* Head->Stats->Hits
  tag,        \* ->Tag
  found,      \* what the last ListFindNamedItem returned, NULL before
  sought      \* and what it was asked for

listVars == <<flags, next, prev, side, hits, tag, found, sought>>
links == <<next, prev>>

ListInit ==
  /\ flags \in FlagSets
  /\ next = [n \in Nodes \cup {Root} |-> NULL]
  /\ prev = [n \in Nodes \cup {Root} |-> IF n = Root THEN Root ELSE NULL]
  /\ side = NULL /\ hits = 0
  /\ tag \in [Nodes -> Tags]
  /\ found = NULL /\ sought = 0

-----------------------------------------------------------------------------
\* The items from the one behind n on.  One that is in no list has no Prev.
From(n) ==
  LET to[k \in Nat] == IF k = 0 THEN n ELSE IF to[k - 1] = NULL THEN NULL ELSE next[to[k - 1]]
      length == Cardinality({k \in 1..Cardinality(Nodes) : to[k] # NULL})
  IN  [k \in 1..length |-> to[k]]

Items == From(Root)
Threaded == {n \in Nodes : prev[n] # NULL}

Least(set) == CHOOSE k \in set : \A l \in set : k <= l

-----------------------------------------------------------------------------
-----------------------------------------------------------------------------
(* Threading                                                               *)

\* Prev and Head->Prev when n is put behind p.
Behind(p, n) ==
  [prev EXCEPT ![n] = p, ![IF next[p] = NULL THEN Root ELSE next[p]] = n]

\* ListInsertTypedItem and ListThreadNode.
InsertBehind(p) ==
  \E n \in Nodes \ Threaded :
    /\ next' = [next EXCEPT ![n] = next[p], ![p] = n]
    /\ prev' = Behind(p, n)
    /\ hits' = hits + 1

\* Head->Prev and Head->Side when n is taken out.
LastWithout(n) ==
  IF prev[Root] # n THEN prev[Root] ELSE IF prev[n] = Root THEN NULL ELSE prev[n]

SideWithout(n) == IF side = n THEN NULL ELSE side

\* "Never swap with a list head!"
MayMove(a) == a # Root

\* ListSwapItems, a before b: the head's pointer to the last item is not looked at
\* for b.
Swapped(a, b) == [next EXCEPT ![prev[a]] = b, ![b] = a, ![a] = next[b]]

Swap(a, b) ==
  IF ~MayMove(a) THEN UNCHANGED links
  ELSE /\ next' = Swapped(a, b)
       /\ prev' = [p \in DOMAIN prev |->
            CASE p = a -> b [] p = b -> prev[a] [] p = next[b] -> a
              [] p = Root /\ prev[Root] = a -> b [] OTHER -> prev[p]]

-----------------------------------------------------------------------------
(* ListFindNamedItemInsert                                                 *)

Is(flag) == flag \in flags

InList(n) == n \notin {NULL, Root}
Cached(name) == Is("CACHE") /\ side # NULL /\ tag[side] = name

\* In an ordered list the search may start from a cached item that is before.
SearchStart(name) ==
  IF Is("CACHE") /\ Is("ORDERED") /\ side # NULL /\ tag[side] < name THEN side ELSE next[Root]

\* "Check last item in list".
AtLast(name) ==
  InList(prev[Root]) /\
  (tag[prev[Root]] = name \/ (Is("ORDERED") /\ tag[prev[Root]] < name))

Path(name) == LET n == SearchStart(name) IN IF n = NULL THEN <<>> ELSE <<n>> \o From(n)

\* Where the search along the list stops: at the item, or before a greater one.
Stops(name) ==
  {k \in DOMAIN Path(name) :
     tag[Path(name)[k]] = name \/ (Is("ORDERED") /\ tag[Path(name)[k]] > name)}

\* The item, or the one behind which it would be put.
InsertPoint(name) ==
  LET path == Path(name)
      k == Least(Stops(name))
  IN  CASE next[Root] = NULL -> Root
        [] next[Root] # NULL /\ Cached(name) -> side
        [] next[Root] # NULL /\ ~Cached(name) /\ AtLast(name) -> prev[Root]
        [] OTHER -> IF Stops(name) = {} THEN path[Len(path)]
                    ELSE IF tag[path[k]] = name THEN path[k]
                    ELSE IF k = 1 THEN Root ELSE path[k - 1]

\* A self organising list moves up what is found on the way.
Moves(name) ==
  Is("SELFORG") /\ next[Root] # NULL /\ ~Cached(name) /\ ~AtLast(name) /\ Stops(name) # {}

-----------------------------------------------------------------------------
Forget == found' = NULL /\ sought' = 0

\* ListAddNamedItem: behind the last.
LastItem == IF prev[Root] = NULL THEN Root ELSE prev[Root]

Add ==
  /\ ~Is("ORDERED")
  /\ InsertBehind(LastItem) /\ Forget
  /\ UNCHANGED <<flags, side, tag>>

\* OrderedListAddNamedItem, which is for ordered lists.
OrderedAdd ==
  /\ Is("ORDERED")
  /\ \E n \in Nodes \ Threaded :
       /\ next' = [next EXCEPT ![n] = next[InsertPoint(tag[n])], ![InsertPoint(tag[n])] = n]
       /\ prev' = Behind(InsertPoint(tag[n]), n)
       /\ hits' = hits + 1
  /\ Forget
  /\ UNCHANGED <<flags, side, tag>>

\* ListFindNamedItem.
Find ==
  \E name \in Tags :
    LET n == InsertPoint(name)
        hit == InList(n) /\ tag[n] = name
    IN  /\ sought' = name /\ found' = (IF hit THEN n ELSE NULL)
        /\ side' = (IF hit /\ Is("CACHE") THEN n ELSE side)
        /\ IF Moves(name) THEN Swap(prev[n], n) ELSE UNCHANGED links
        /\ UNCHANGED <<flags, hits, tag>>

\* ListDeleteNode and ListUnThreadNode; the memory may come back with another tag.
Delete ==
  \E n \in Threaded :
    /\ next' = [next EXCEPT ![prev[n]] = next[n], ![n] = NULL]
    /\ prev' = [p \in DOMAIN prev |->
         CASE p = n -> NULL [] p = Root -> LastWithout(n)
           [] p = next[n] -> prev[n] [] OTHER -> prev[p]]
    /\ side' = SideWithout(n) /\ hits' = hits - 1
    /\ \E t \in Tags : tag' = [tag EXCEPT ![n] = t]
    /\ Forget
    /\ UNCHANGED flags

Clear ==
  /\ next' = [n \in DOMAIN next |-> NULL]
  /\ prev' = [n \in DOMAIN prev |-> IF n = Root THEN Root ELSE NULL]
  /\ side' = NULL /\ hits' = 0
  /\ Forget
  /\ UNCHANGED <<flags, tag>>

ListNext == Add \/ OrderedAdd \/ Find \/ Delete \/ Clear

ListSpec == ListInit /\ [][ListNext]_listVars

-----------------------------------------------------------------------------
(* Properties                                                              *)

ListTypeOK ==
  /\ flags \in FlagSets
  /\ next \in [Nodes \cup {Root} -> Nodes \cup {NULL}]
  /\ prev \in [Nodes \cup {Root} -> Nodes \cup {NULL, Root}]
  /\ side \in Nodes \cup {NULL} /\ found \in Nodes \cup {NULL}
  /\ hits \in Nat /\ tag \in [Nodes -> Tags] /\ sought \in Tags \cup {0}

\* The list read forwards has each item once, the head counts them, and the way
\* back from each is the way there, after any insertions, removals and swaps.
LinksAgree ==
  LET items == Items IN
  /\ {items[k] : k \in DOMAIN items} = Threaded
  /\ Len(items) = hits
  /\ \A k \in DOMAIN items : prev[items[k]] = IF k = 1 THEN Root ELSE items[k - 1]

\* Head->Prev, behind which ListAddNamedItem puts an item, is the last one, unless
\* the list reorganises itself.
LastIsLast ==
  ~Is("SELFORG") => LET items == Items IN
    IF items = <<>> THEN prev[Root] \in {NULL, Root} ELSE prev[Root] = items[Len(items)]

\* The cached item is in the list: it was not deleted since.
CachedIsIn == side # NULL => side \in Threaded

\* An ordered list is in order, also where the search for the place to insert
\* started from the cached item.
StaysOrdered ==
  Is("ORDERED") => LET items == Items IN
    \A k \in 2..Len(items) : tag[items[k - 1]] <= tag[items[k]]

\* A name is found exactly if an item has it, by whichever of the short cuts:
\* cached item, last item, order.
FindsWhatIsThere ==
  sought # 0 =>
    IF found = NULL THEN \A n \in Threaded : tag[n] # sought
                    ELSE found \in Threaded /\ tag[found] = sought

\* The links, the head's pointers and the order agree after any calls.
ListSound == LinksAgree /\ LastIsLast /\ CachedIsIn /\ StaysOrdered
=============================================================================
