------------------------------ MODULE FileTree -------------------------------
(***************************************************************************)
(* The files of the game in the browser: FS and MEMFS of                   *)
(* public/ioquake3.js, in the mount the game keeps its files in.           *)
(*                                                                         *)
(* There are two views of the tree.  A path is looked up in a hash table   *)
(* of nodes by parent and name (nameTable); a directory is listed from its *)
(* own contents, and what is saved to the browser's database (IDBFS) is    *)
(* what is listed.  Each operation updates both.  A rename over a node     *)
(* leaves the replaced one in the table, behind the new one: when the new  *)
(* one goes, the name is still found, and not listed.                      *)
(*                                                                         *)
(* JavaScript runs one task at a time, so a call is a step; a call that    *)
(* throws changes nothing here and is not a step.  Left out are the bytes, *)
(* the times and the open streams, symbolic links and devices (the game    *)
(* makes none in its mount) and permissions (ignorePermissions is set).    *)
(***************************************************************************)
EXTENDS Naturals, Sequences, Functions

CONSTANTS
    Name,           \* the names
    Hidden,         \* those that begin with a dot
    MaxNodes        \* bound on the nodes that are made, the root included

ASSUME FileTreeAssumption == MaxNodes \in Nat \ {0} /\ Hidden \subseteq Name

VARIABLES
    made,           \* number of nodes made; they are numbered from 1
    kind,           \* "dir", "file", or "none" before it is made
    parent, name,   \* where it is, or was when it was removed
    contents,       \* of a directory: the node it lists under a name
    table,          \* the chain of nameTable of a directory and a name
    replaced        \* nodes a rename replaced and none moved since

vars == <<made, kind, parent, name, contents, table, replaced>>

Node == 1..MaxNodes
Root == 1
None == 0
Slash == "/"        \* the name of the root

TypeOK ==
    /\ made \in Node
    /\ kind \in [Node -> {"none", "dir", "file"}]
    /\ parent \in [Node -> Node]
    /\ name \in [Node -> Name \cup {Slash}]
    /\ contents \in [Node -> [Name -> Node \cup {None}]]
    /\ table \in [Node -> [Name -> Seq(Node)]]
    /\ replaced \subseteq Node

Init ==
    /\ made = Root
    /\ kind = [k \in Node |-> IF k = Root THEN "dir" ELSE "none"]
    /\ parent = [k \in Node |-> Root]
    /\ name = [k \in Node |-> Slash]
    /\ contents = [k \in Node |-> [n \in Name |-> None]]
    /\ table = [k \in Node |-> [n \in Name |-> <<>>]]
    /\ replaced = {}

-----------------------------------------------------------------------------
(* Looking up *)

\* lookupNode: the first of the chain; MEMFS itself finds nothing more.
Lookup(d, n) == IF table[d][n] = <<>> THEN None ELSE Head(table[d][n])

\* lookupPath: the directories that a path leads to.
Dirs ==
    LET within[i \in 0..MaxNodes] ==
            IF i = 0 THEN {Root}
            ELSE within[i - 1] \cup
                     {Lookup(d, n) : d \in within[i - 1] \cap Node, n \in Name}
    IN  {d \in Node : kind[d] = "dir" /\ d \in within[MaxNodes]}

\* A directory and those above it, to the root or round a loop: the nodes in
\* every set that holds it and, with a node, its parent.
Above(d) ==
    {k \in Node : \A S \in SUBSET Node : d \in S /\ (\A j \in S : parent[j] \in S) => k \in S}

\* Variant: only the same directory is told.
Leads_OnlyItself(k, d) == k = d

\* PATH.relative(the path of k, the path of d) does not begin with a dot: d is
\* k, or below it and the first name on the way is not hidden.
Leads(k, d) ==
    \/ k = d
    \/ \E c \in Above(d) \ {k} : parent[c] = k /\ name[c] \notin Hidden

\* Variant: at the end of the chain.
HashAdd_AtEnd(t, d, n, k) == [t EXCEPT ![d][n] = Append(@, k)]

\* hashAddNode
HashAdd(t, d, n, k) == [t EXCEPT ![d][n] = <<k>> \o @]

\* hashRemoveNode
HashRemove(t, d, n, k) ==
    [t EXCEPT ![d][n] = IF Head(@) = k THEN Tail(@) ELSE SelectSeq(@, LAMBDA j : j # k)]

-----------------------------------------------------------------------------
(* The calls *)

\* mkdir, and open with O_CREAT, of a name that is not found.
Mknod(d, n, what) ==
    LET k == made + 1 IN
    /\ k \in Node
    /\ Lookup(d, n) = None
    /\ made' = k
    /\ kind' = [kind EXCEPT ![k] = what]
    /\ parent' = [parent EXCEPT ![k] = d]
    /\ name' = [name EXCEPT ![k] = n]
    /\ contents' = [contents EXCEPT ![d][n] = k]
    /\ table' = HashAdd(table, d, n, k)
    /\ UNCHANGED replaced

IsEmpty(k) == \A n \in Name : contents[k][n] = None

\* Variant: only out of the listing.
Remove_StaysInTable(d, n) ==
    /\ contents' = [contents EXCEPT ![d][n] = None]
    /\ replaced' = replaced \ {Lookup(d, n)}
    /\ UNCHANGED <<made, kind, parent, name, table>>

\* The node a name leads to is taken out of the listing and the table.
Remove(d, n) ==
    /\ contents' = [contents EXCEPT ![d][n] = None]
    /\ table' = HashRemove(table, d, n, Lookup(d, n))
    /\ replaced' = replaced \ {Lookup(d, n)}
    /\ UNCHANGED <<made, kind, parent, name>>

Unlink(d, n) ==
    /\ Lookup(d, n) # None /\ kind[Lookup(d, n)] = "file"
    /\ Remove(d, n)

Rmdir(d, n) ==
    /\ Lookup(d, n) # None /\ kind[Lookup(d, n)] = "dir"
    /\ IsEmpty(Lookup(d, n))
    /\ Remove(d, n)

\* The checks of rename: the old node is not above the new place, the new node
\* not above the old one, and it is of the same kind and, if a directory, empty.
MayRename(old, oldDir, new, newDir) ==
    /\ old # None /\ old # new
    /\ ~Leads(old, newDir)
    /\ new # None =>
           /\ ~Leads(new, oldDir)
           /\ kind[new] = kind[old]
           /\ kind[old] = "dir" => IsEmpty(new)

Rename(d, n, newDir, newName) ==
    LET old == Lookup(d, n)
        new == Lookup(newDir, newName)
    IN
    /\ MayRename(old, d, new, newDir)
    /\ contents' = [contents EXCEPT ![d][n] = None, ![newDir][newName] = old]
    /\ name' = [name EXCEPT ![old] = newName]
    /\ parent' = [parent EXCEPT ![old] = newDir]
    /\ table' = HashAdd(HashRemove(table, d, n, old), newDir, newName, old)
    /\ replaced' = (replaced \cup ({new} \ {None})) \ {old}
    /\ UNCHANGED <<made, kind>>

Next ==
    \E d \in Dirs, n \in Name :
        \/ \E what \in {"dir", "file"} : Mknod(d, n, what)
        \/ Unlink(d, n)
        \/ Rmdir(d, n)
        \/ \E newDir \in Dirs, newName \in Name : Rename(d, n, newDir, newName)

Spec == Init /\ [][Next]_vars

-----------------------------------------------------------------------------
(* Properties *)

\* What a directory lists under a name is what a path with this name leads to,
\* whatever was created, removed and renamed over what before: a file that is
\* saved is the one the game reads and writes under its path.
TreeIsFound ==
    \A d \in Node, n \in Name : contents[d][n] # None => Lookup(d, n) = contents[d][n]

\* A node that is found and not listed, so that nothing written to it is saved,
\* was replaced by a rename and not moved or removed since: no other sequence of
\* calls makes one.
OnlyReplacedLinger ==
    \A d \in Node, n \in Name :
        Lookup(d, n) # None => Lookup(d, n) \in {contents[d][n]} \cup replaced

\* A directory is moved below itself, and lost with all it holds, only on a way
\* that begins with a hidden name: the check of rename takes the dot of ".x" for
\* that of "..".
LoopsAreHidden ==
    \A k \in Node \ {Root} :
        kind[k] # "none" /\ k \in Above(parent[k]) =>
            \E c \in Above(k) : name[c] \in Hidden
==============================================================================
