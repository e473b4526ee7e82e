--------------------------- MODULE FileTreeProofs ----------------------------
(***************************************************************************)
(* The listing and the table of FileTree agree, and a directory is moved   *)
(* below itself only past a hidden name, for any names and any number of   *)
(* nodes.                                                                  *)
(*                                                                         *)
(* Every node of a chain has the parent and the name of the chain and is   *)
(* there once, so a call takes out of a chain only its first node, and a   *)
(* node that is moved leaves none behind.  The node a directory lists is   *)
(* the first of its chain; the others are nodes that were replaced.        *)
(***************************************************************************)
EXTENDS FileTree, TLAPS

\* A chain holds nodes of its place, each once.
Hashed ==
    \A d \in Node, n \in Name : \A i \in 1..Len(table[d][n]) :
        /\ table[d][n][i] <= made
        /\ parent[table[d][n][i]] = d /\ name[table[d][n][i]] = n
        /\ \A j \in 1..Len(table[d][n]) :
               table[d][n][i] = table[d][n][j] => i = j

\* What a chain holds and its directory does not list was replaced.
Others ==
    \A d \in Node, n \in Name : \A i \in 1..Len(table[d][n]) :
        table[d][n][i] # contents[d][n] => table[d][n][i] \in replaced

Inv == TypeOK /\ TreeIsFound /\ Hashed /\ Others

\* What Tail makes of a chain.
LEMMA ChainTail ==
    ASSUME NEW S, NEW s \in Seq(S), s # <<>>
    PROVE  /\ Tail(s) \in Seq(S) /\ Head(s) = s[1] /\ Head(s) \in S
           /\ Len(s) \in Nat /\ 1 \in 1..Len(s)
           /\ \A i \in 1..Len(Tail(s)) : i + 1 \in 1..Len(s) /\ Tail(s)[i] = s[i + 1]
  OBVIOUS

\* What hashAddNode makes of a chain.
LEMMA ChainPush ==
    ASSUME NEW S, NEW s \in Seq(S), NEW k \in S
    PROVE  /\ <<k>> \o s \in Seq(S) /\ <<k>> \o s # <<>>
           /\ Head(<<k>> \o s) = k /\ (<<k>> \o s)[1] = k
           /\ \A i \in 1..Len(<<k>> \o s) :
                  i = 1 \/ (i - 1 \in 1..Len(s) /\ (<<k>> \o s)[i] = s[i - 1])
  <1>1. <<k>> \o s \in Seq(S)
    OBVIOUS
  <1>2. Len(<<k>> \o s) = Len(s) + 1 /\ Len(s) \in Nat
    OBVIOUS
  <1>3. (<<k>> \o s)[1] = k
    OBVIOUS
  <1>4. \A i \in 2..(Len(s) + 1) : (<<k>> \o s)[i] = s[i - 1]
    OBVIOUS
  <1> QED
    BY <1>1, <1>2, <1>3, <1>4

\* A name that is found leads to the first of its chain.
LEMMA Found ==
    ASSUME TypeOK, Hashed, NEW d \in Node, NEW n \in Name
    PROVE  /\ Lookup(d, n) \in Node \cup {None}
           /\ Lookup(d, n) # None =>
                  /\ table[d][n] # <<>> /\ Lookup(d, n) = Head(table[d][n])
                  /\ Lookup(d, n) = table[d][n][1] /\ 1 \in 1..Len(table[d][n])
                  /\ parent[Lookup(d, n)] = d /\ name[Lookup(d, n)] = n
                  /\ Lookup(d, n) <= made
           /\ Lookup(d, n) = None => table[d][n] = <<>>
  <1>1. table[d][n] \in Seq(Node)
    BY DEF TypeOK
  <1>2. CASE table[d][n] = <<>>
    BY <1>2 DEF Lookup
  <1>3. CASE table[d][n] # <<>>
    <2>1. Lookup(d, n) = table[d][n][1] /\ 1 \in 1..Len(table[d][n]) /\ Lookup(d, n) \in Node
      BY <1>1, <1>3, ChainTail DEF Lookup
    <2> QED
      BY <1>3, <2>1 DEF Lookup, Hashed, None, Node
  <1> QED
    BY <1>2, <1>3

\* The initial tree satisfies the invariant.
LEMMA InitInv == Init => Inv
  <1> SUFFICES ASSUME Init PROVE Inv
    OBVIOUS
  <1>1. TypeOK
    BY FileTreeAssumption DEF Init, TypeOK, Node, Root, None, Slash
  <1>2. \A d \in Node, n \in Name : contents[d][n] = None /\ table[d][n] = <<>>
    BY DEF Init
  <1> QED
    BY <1>1, <1>2 DEF Inv, TreeIsFound, Hashed, Others

\* A new node is alone in its chain.
LEMMA MknodInv ==
    ASSUME Inv, NEW d \in Node, NEW n \in Name, NEW what \in {"dir", "file"},
           Mknod(d, n, what)
    PROVE  Inv'
  <1>1. PICK k : k = made + 1 /\ k \in Node /\ made \in Node
    BY DEF Mknod, Inv, TypeOK
  <1>2. table[d][n] = <<>>
    BY Found DEF Mknod, Inv
  <1>3. /\ made' = k
        /\ kind' = [kind EXCEPT ![k] = what]
        /\ parent' = [parent EXCEPT ![k] = d]
        /\ name' = [name EXCEPT ![k] = n]
        /\ contents' = [contents EXCEPT ![d][n] = k]
        /\ table' = [table EXCEPT ![d][n] = <<k>> \o @]
        /\ replaced' = replaced
    BY <1>1 DEF Mknod, HashAdd
  <1>4. TypeOK'
    <2>1. <<k>> \o table[d][n] \in Seq(Node)
      BY <1>1, <1>2
    <2>2. table' \in [Node -> [Name -> Seq(Node)]]
      BY <1>3, <2>1 DEF Inv, TypeOK
    <2> QED
      BY <1>1, <1>3, <2>2 DEF Inv, TypeOK
  <1>5. table'[d][n] = <<k>> /\ contents'[d][n] = k
    BY <1>2, <1>3 DEF Inv, TypeOK
  <1>6. \A e \in Node, m \in Name : ~(e = d /\ m = n) =>
            table'[e][m] = table[e][m] /\ contents'[e][m] = contents[e][m]
    BY <1>3 DEF Inv, TypeOK
  <1>7. TreeIsFound'
    BY <1>5, <1>6 DEF Inv, TreeIsFound, Lookup
  <1>8. Hashed'
    <2> SUFFICES ASSUME NEW e \in Node, NEW m \in Name, NEW i \in 1..Len(table'[e][m])
                 PROVE  /\ table'[e][m][i] <= made'
                        /\ parent'[table'[e][m][i]] = e /\ name'[table'[e][m][i]] = m
                        /\ \A j \in 1..Len(table'[e][m]) :
                               table'[e][m][i] = table'[e][m][j] => i = j
      BY DEF Hashed
    <2>1. CASE e = d /\ m = n
      <3>1. Len(table'[e][m]) = 1 /\ table'[e][m][1] = k
        <4>1. table'[e][m] = <<k>>
          BY <1>5, <2>1
        <4>2. Len(<<k>>) = 1 /\ <<k>>[1] = k
          OBVIOUS
        <4> QED
          BY <4>1, <4>2
      <3>2. i = 1 /\ \A j \in 1..Len(table'[e][m]) : j = 1
        BY <3>1
      <3>3. k <= made' /\ parent'[k] = e /\ name'[k] = m
        BY <1>1, <1>3, <2>1 DEF Inv, TypeOK, Node
      <3> QED
        BY <3>1, <3>2, <3>3
    <2>2. CASE ~(e = d /\ m = n)
      <3>1. table[e][m] \in Seq(Node) /\ table'[e][m] = table[e][m]
        BY <1>6, <2>2 DEF Inv, TypeOK
      <3>2. table[e][m][i] \in Node /\ i \in 1..Len(table[e][m])
        BY <3>1
      <3>3. table[e][m][i] <= made /\ table[e][m][i] # k
        BY <1>1, <3>2 DEF Inv, Hashed, Node
      <3>4. /\ parent[table[e][m][i]] = e /\ name[table[e][m][i]] = m
            /\ \A j \in 1..Len(table[e][m]) : table[e][m][i] = table[e][m][j] => i = j
        BY <3>2 DEF Inv, Hashed
      <3>5. \A l \in Node \ {k} : parent'[l] = parent[l] /\ name'[l] = name[l]
        BY <1>3 DEF Inv, TypeOK
      <3>6. table[e][m][i] <= made'
        BY <1>1, <1>3, <3>2, <3>3 DEF Node
      <3> QED
        BY <3>1, <3>2, <3>3, <3>4, <3>5, <3>6
    <2> QED
      BY <2>1, <2>2
  <1>9. Others'
    BY <1>3, <1>5, <1>6 DEF Inv, Others
  <1> QED
    BY <1>4, <1>7, <1>8, <1>9 DEF Inv

\* The first of a chain goes, and the chain is as good without it.
LEMMA RemoveInv ==
    ASSUME Inv, NEW d \in Node, NEW n \in Name, Lookup(d, n) # None, Remove(d, n)
    PROVE  Inv'
  <1>1. PICK k \in Node : k = Lookup(d, n)
    BY Found DEF Inv
  <1>2. PICK s \in Seq(Node) : s = table[d][n]
    BY DEF Inv, TypeOK
  <1>3. s # <<>> /\ k = s[1] /\ k = Head(s) /\ 1 \in 1..Len(s)
    BY <1>1, <1>2, Found DEF Inv
  <1>4. /\ contents' = [contents EXCEPT ![d][n] = None]
        /\ table' = [table EXCEPT ![d][n] = Tail(s)]
        /\ replaced' = replaced \ {k}
        /\ UNCHANGED <<made, kind, parent, name>>
    BY <1>1, <1>2, <1>3 DEF Remove, HashRemove
  <1>5. /\ Tail(s) \in Seq(Node)
        /\ \A i \in 1..Len(Tail(s)) : i + 1 \in 1..Len(s) /\ Tail(s)[i] = s[i + 1]
    BY <1>3, ChainTail
  <1>6. TypeOK'
    <2>1. table' \in [Node -> [Name -> Seq(Node)]]
      BY <1>4, <1>5 DEF Inv, TypeOK
    <2> QED
      BY <1>4, <2>1 DEF Inv, TypeOK
  <1>7. table'[d][n] = Tail(s) /\ contents'[d][n] = None
    BY <1>4 DEF Inv, TypeOK
  <1>8. \A e \in Node, m \in Name : ~(e = d /\ m = n) =>
            table'[e][m] = table[e][m] /\ contents'[e][m] = contents[e][m]
    BY <1>4 DEF Inv, TypeOK
  <1>9. TreeIsFound'
    BY <1>7, <1>8 DEF Inv, TreeIsFound, Lookup
  <1>10. \A e \in Node, m \in Name : \A i \in 1..Len(table[e][m]) :
             table[e][m][i] = k => e = d /\ m = n /\ i = 1
    BY <1>2, <1>3 DEF Inv, Hashed
  <1>11. Hashed'
    <2> SUFFICES ASSUME NEW e \in Node, NEW m \in Name, NEW i \in 1..Len(table'[e][m])
                 PROVE  /\ table'[e][m][i] <= made
                        /\ parent[table'[e][m][i]] = e /\ name[table'[e][m][i]] = m
                        /\ \A j \in 1..Len(table'[e][m]) :
                               table'[e][m][i] = table'[e][m][j] => i = j
      BY <1>4 DEF Hashed
    <2>1. CASE e = d /\ m = n
      <3>1. \A j \in 1..Len(Tail(s)) :
                j + 1 \in 1..Len(table[d][n]) /\ table'[d][n][j] = table[d][n][j + 1]
        BY <1>2, <1>5, <1>7
      <3>2. i \in 1..Len(Tail(s)) /\ table'[e][m] = Tail(s)
        BY <1>7, <2>1
      <3>3. /\ table[d][n][i + 1] <= made
            /\ parent[table[d][n][i + 1]] = d /\ name[table[d][n][i + 1]] = n
            /\ \A j \in 1..Len(Tail(s)) :
                   table[d][n][i + 1] = table[d][n][j + 1] => i + 1 = j + 1
        <4>1. i + 1 \in 1..Len(table[d][n])
          BY <3>1, <3>2
        <4>2. \A l \in 1..Len(table[d][n]) : table[d][n][i + 1] = table[d][n][l] => i + 1 = l
          BY <4>1 DEF Inv, Hashed
        <4>3. /\ table[d][n][i + 1] <= made
              /\ parent[table[d][n][i + 1]] = d /\ name[table[d][n][i + 1]] = n
          BY <4>1 DEF Inv, Hashed
        <4> QED
          BY <3>1, <4>2, <4>3
      <3>4. \A j \in 1..Len(Tail(s)) : i + 1 = j + 1 => i = j
        BY <3>2
      <3> QED
        BY <2>1, <3>1, <3>2, <3>3, <3>4
    <2>2. CASE ~(e = d /\ m = n)
      <3>1. table'[e][m] = table[e][m] /\ i \in 1..Len(table[e][m])
        BY <1>8, <2>2
      <3>2. /\ table[e][m][i] <= made
            /\ parent[table[e][m][i]] = e /\ name[table[e][m][i]] = m
            /\ \A j \in 1..Len(table[e][m]) : table[e][m][i] = table[e][m][j] => i = j
        BY <3>1 DEF Inv, Hashed
      <3> QED
        BY <3>1, <3>2
    <2> QED
      BY <2>1, <2>2
  <1>12. Others'
    <2> SUFFICES ASSUME NEW e \in Node, NEW m \in Name, NEW i \in 1..Len(table'[e][m]),
                        table'[e][m][i] # contents'[e][m]
                 PROVE  table'[e][m][i] \in replaced'
      BY DEF Others
    <2>0. replaced' = replaced \ {k}
      BY <1>4
    <2>1. CASE e = d /\ m = n
      <3>1. i \in 1..Len(Tail(s)) /\ table'[e][m] = Tail(s)
        BY <1>7, <2>1
      <3>2. i + 1 \in 1..Len(table[d][n]) /\ table'[e][m][i] = table[d][n][i + 1] /\ i + 1 # 1
        BY <1>2, <1>5, <3>1
      <3>3. table[d][n][i + 1] # k
        BY <1>10, <3>2
      <3>4. contents[d][n] \in {None, k}
        BY <1>1 DEF Inv, TreeIsFound
      <3>5. table[d][n][i + 1] \in Node /\ None \notin Node
        <4>1. s[i + 1] \in Node
          BY <1>2, <3>2
        <4> QED
          BY <1>2, <4>1 DEF None, Node
      <3> QED
        BY <2>0, <3>2, <3>3, <3>4, <3>5 DEF Inv, Others
    <2>2. CASE ~(e = d /\ m = n)
      <3>1. table'[e][m] = table[e][m] /\ i \in 1..Len(table[e][m])
        BY <1>8, <2>2
      <3>2. table[e][m][i] # k
        BY <1>10, <2>2, <3>1
      <3>3. table[e][m][i] # contents[e][m]
        BY <1>8, <2>2, <3>1
      <3> QED
        BY <2>0, <3>1, <3>2, <3>3 DEF Inv, Others
    <2> QED
      BY <2>1, <2>2
  <1> QED
    BY <1>6, <1>9, <1>11, <1>12 DEF Inv

\* The moved node leaves its chain and is the first of the other one; what it
\* replaces stays behind it.
LEMMA RenameInv ==
    ASSUME Inv, NEW d \in Node, NEW n \in Name, NEW f \in Node, NEW m \in Name,
           Rename(d, n, f, m)
    PROVE  Inv'
  <1>1. PICK k \in Node : k = Lookup(d, n)
    BY Found DEF Inv, Rename, MayRename
  <1>2. PICK new \in Node \cup {None} : new = Lookup(f, m) /\ k # new
    BY <1>1, Found DEF Inv, Rename, MayRename
  <1>3. PICK s \in Seq(Node), u \in Seq(Node) : s = table[d][n] /\ u = table[f][m]
    BY DEF Inv, TypeOK
  <1>4. /\ s # <<>> /\ k = s[1] /\ k = Head(s) /\ 1 \in 1..Len(s)
        /\ k # None /\ k <= made /\ parent[k] = d /\ name[k] = n
    BY <1>1, <1>3, Found DEF Inv, None, Node
  <1>5. ~(f = d /\ m = n)
    BY <1>1, <1>2
  <1>6. PICK t : t = [table EXCEPT ![d][n] = Tail(s)]
    OBVIOUS
  <1>7. /\ contents' = [contents EXCEPT ![d][n] = None, ![f][m] = k]
        /\ table' = [t EXCEPT ![f][m] = <<k>> \o @]
        /\ name' = [name EXCEPT ![k] = m]
        /\ parent' = [parent EXCEPT ![k] = f]
        /\ replaced' = (replaced \cup ({new} \ {None})) \ {k}
        /\ UNCHANGED <<made, kind>>
    BY <1>1, <1>2, <1>3, <1>4, <1>6 DEF Rename, HashAdd, HashRemove
  <1>8. /\ Tail(s) \in Seq(Node)
        /\ \A i \in 1..Len(Tail(s)) : i + 1 \in 1..Len(s) /\ Tail(s)[i] = s[i + 1]
    BY <1>4, ChainTail
  <1>9. PICK v \in Seq(Node) : v = <<k>> \o u
    BY ChainPush
  <1>10. /\ v # <<>> /\ Head(v) = k /\ v[1] = k
         /\ \A i \in 1..Len(v) : i = 1 \/ (i - 1 \in 1..Len(u) /\ v[i] = u[i - 1])
    BY <1>9, ChainPush
  <1>11. t \in [Node -> [Name -> Seq(Node)]] /\ t[f][m] = u
    BY <1>3, <1>5, <1>6, <1>8 DEF Inv, TypeOK
  <1>12. TypeOK'
    <2>1. table' \in [Node -> [Name -> Seq(Node)]]
      BY <1>7, <1>9, <1>11
    <2>2. contents' \in [Node -> [Name -> Node \cup {None}]]
      BY <1>7 DEF Inv, TypeOK
    <2>3. replaced' \subseteq Node
      BY <1>7 DEF Inv, TypeOK
    <2> QED
      BY <1>7, <2>1, <2>2, <2>3 DEF Inv, TypeOK
  <1>13. /\ table'[f][m] = v /\ contents'[f][m] = k
         /\ table'[d][n] = Tail(s) /\ contents'[d][n] = None
    <2>1. table'[f][m] = v
      BY <1>7, <1>9, <1>11
    <2>2. table'[d][n] = t[d][n] /\ t[d][n] = Tail(s)
      BY <1>5, <1>6, <1>7, <1>11 DEF Inv, TypeOK
    <2>3. contents'[f][m] = k /\ contents'[d][n] = None
      BY <1>5, <1>7 DEF Inv, TypeOK
    <2> QED
      BY <2>1, <2>2, <2>3
  <1>14. \A e \in Node, l \in Name : ~(e = d /\ l = n) /\ ~(e = f /\ l = m) =>
             table'[e][l] = table[e][l] /\ contents'[e][l] = contents[e][l]
    BY <1>6, <1>7, <1>11 DEF Inv, TypeOK
  <1>15. TreeIsFound'
    BY <1>10, <1>13, <1>14 DEF Inv, TreeIsFound, Lookup
  <1>16. \A e \in Node, l \in Name : \A i \in 1..Len(table[e][l]) :
             table[e][l][i] = k => e = d /\ l = n /\ i = 1
    BY <1>3, <1>4 DEF Inv, Hashed
  <1>17. \A j \in Node \ {k} : parent'[j] = parent[j] /\ name'[j] = name[j]
    BY <1>7 DEF Inv, TypeOK
  <1>18. parent'[k] = f /\ name'[k] = m /\ made' = made
    BY <1>7 DEF Inv, TypeOK
  <1>19. \A e \in Node, l \in Name : \A i \in 1..Len(table[e][l]) :
             table[e][l][i] \in Node
    <2> TAKE e \in Node, l \in Name
    <2>1. table[e][l] \in Seq(Node)
      BY DEF Inv, TypeOK
    <2> QED
      BY <2>1
  \* Where a node of a chain was before.
  <1>20. \A i \in 1..Len(Tail(s)) : i + 1 \in 1..Len(table[d][n]) /\ i + 1 # 1
                                    /\ Tail(s)[i] = table[d][n][i + 1]
    BY <1>3, <1>8
  <1>21. \A i \in 1..Len(v) : i = 1 \/ (i - 1 \in 1..Len(table[f][m])
                                        /\ v[i] = table[f][m][i - 1])
    BY <1>3, <1>10
  <1>22. Hashed'
    <2> SUFFICES ASSUME NEW e \in Node, NEW l \in Name, NEW i \in 1..Len(table'[e][l])
                 PROVE  /\ table'[e][l][i] <= made
                        /\ parent'[table'[e][l][i]] = e /\ name'[table'[e][l][i]] = l
                        /\ \A j \in 1..Len(table'[e][l]) :
                               table'[e][l][i] = table'[e][l][j] => i = j
      BY <1>18 DEF Hashed
    <2>1. CASE e = d /\ l = n
      <3>1. i \in 1..Len(Tail(s)) /\ table'[e][l] = Tail(s)
        BY <1>13, <2>1
      <3>2. i + 1 \in 1..Len(table[d][n])
        BY <1>20, <3>1
      <3>3. /\ table[d][n][i + 1] <= made /\ table[d][n][i + 1] \in Node \ {k}
            /\ parent[table[d][n][i + 1]] = d /\ name[table[d][n][i + 1]] = n
        BY <1>16, <1>19, <1>20, <3>1, <3>2 DEF Inv, Hashed
      <3>4. \A j \in 1..Len(table[d][n]) : table[d][n][i + 1] = table[d][n][j] => i + 1 = j
        BY <3>2 DEF Inv, Hashed
      <3>5. \A j \in 1..Len(Tail(s)) : table[d][n][i + 1] = table[d][n][j + 1] => i + 1 = j + 1
        BY <1>20, <3>4
      <3>6. \A j \in 1..Len(Tail(s)) : i + 1 = j + 1 => i = j
        BY <3>1
      <3> QED
        BY <1>17, <1>20, <2>1, <3>1, <3>3, <3>5, <3>6
    <2>2. CASE e = f /\ l = m
      <3>1. i \in 1..Len(v) /\ table'[e][l] = v
        BY <1>13, <2>2
      <3>2. CASE i = 1
        <4>1. \A j \in 1..Len(v) : v[j] = k => j = 1
          BY <1>5, <1>16, <1>21
        <4> QED
          BY <1>4, <1>10, <1>18, <2>2, <3>1, <3>2, <4>1
      <3>3. CASE i # 1
        <4>1. i - 1 \in 1..Len(table[f][m]) /\ v[i] = table[f][m][i - 1]
          BY <1>21, <3>1, <3>3
        <4>2. /\ v[i] <= made /\ v[i] \in Node \ {k}
              /\ parent[v[i]] = f /\ name[v[i]] = m
          BY <1>5, <1>16, <1>19, <4>1 DEF Inv, Hashed
        <4>3. \A j \in 1..Len(table[f][m]) : v[i] = table[f][m][j] => i - 1 = j
          <5>1. \A j \in 1..Len(table[f][m]) : table[f][m][i - 1] = table[f][m][j] => i - 1 = j
            BY <4>1 DEF Inv, Hashed
          <5> QED
            BY <4>1, <5>1
        <4>4. \A j \in 1..Len(v) : v[i] = v[j] => j # 1 /\ i - 1 = j - 1
          BY <1>10, <1>21, <4>2, <4>3
        <4>5. \A j \in 1..Len(v) : i - 1 = j - 1 => i = j
          BY <3>1
        <4> QED
          BY <1>17, <2>2, <3>1, <4>2, <4>4, <4>5
      <3> QED
        BY <3>2, <3>3
    <2>3. CASE ~(e = d /\ l = n) /\ ~(e = f /\ l = m)
      <3>1. table'[e][l] = table[e][l] /\ i \in 1..Len(table[e][l])
        BY <1>14, <2>3
      <3>2. /\ table[e][l][i] <= made /\ table[e][l][i] \in Node \ {k}
            /\ parent[table[e][l][i]] = e /\ name[table[e][l][i]] = l
            /\ \A j \in 1..Len(table[e][l]) : table[e][l][i] = table[e][l][j] => i = j
        BY <1>16, <1>19, <2>3, <3>1 DEF Inv, Hashed
      <3> QED
        BY <1>17, <3>1, <3>2
    <2> QED
      BY <2>1, <2>2, <2>3
  <1>23. Others'
    <2> SUFFICES ASSUME NEW e \in Node, NEW l \in Name, NEW i \in 1..Len(table'[e][l]),
                        table'[e][l][i] # contents'[e][l]
                 PROVE  table'[e][l][i] \in replaced'
      BY DEF Others
    <2>0. replaced' = (replaced \cup ({new} \ {None})) \ {k}
      BY <1>7
    <2>1. CASE e = d /\ l = n
      <3>1. i \in 1..Len(Tail(s)) /\ table'[e][l] = Tail(s)
        BY <1>13, <2>1
      <3>2. i + 1 \in 1..Len(table[d][n]) /\ table'[e][l][i] = table[d][n][i + 1]
        BY <1>20, <3>1
      <3>3. table[d][n][i + 1] \in Node \ {k}
        BY <1>16, <1>19, <1>20, <3>1, <3>2
      <3>4. contents[d][n] \in {None, k} /\ None \notin Node
        BY <1>1 DEF Inv, TreeIsFound, None, Node
      <3> QED
        BY <2>0, <3>2, <3>3, <3>4 DEF Inv, Others
    <2>2. CASE e = f /\ l = m
      <3>1. i \in 1..Len(v) /\ table'[e][l] = v /\ i # 1
        BY <1>10, <1>13, <2>2
      <3>2. i - 1 \in 1..Len(table[f][m]) /\ v[i] = table[f][m][i - 1]
        BY <1>21, <3>1
      <3>3. v[i] \in Node \ {k} /\ None \notin Node
        BY <1>5, <1>16, <1>19, <3>2 DEF None, Node
      <3>4. contents[f][m] \in {None, new}
        BY <1>2 DEF Inv, TreeIsFound
      <3>5. v[i] \in replaced \cup {new}
        BY <3>2, <3>3, <3>4 DEF Inv, Others
      <3> QED
        BY <2>0, <3>1, <3>3, <3>5
    <2>3. CASE ~(e = d /\ l = n) /\ ~(e = f /\ l = m)
      <3>1. table'[e][l] = table[e][l] /\ i \in 1..Len(table[e][l])
        BY <1>14, <2>3
      <3>2. table[e][l][i] # k
        BY <1>16, <2>3, <3>1
      <3>3. table[e][l][i] # contents[e][l]
        BY <1>14, <2>3, <3>1
      <3>4. table[e][l][i] \in replaced
        BY <3>1, <3>3 DEF Inv, Others
      <3> QED
        BY <2>0, <3>1, <3>2, <3>4
    <2> QED
      BY <2>1, <2>2, <2>3
  <1> QED
    BY <1>12, <1>15, <1>22, <1>23 DEF Inv

\* Every call keeps the invariant.
LEMMA NextInv == Inv /\ [Next]_vars => Inv'
  <1> SUFFICES ASSUME Inv, [Next]_vars PROVE Inv'
    OBVIOUS
  <1>1. CASE Next
    <2>1. PICK d \in Dirs, n \in Name :
              \/ \E what \in {"dir", "file"} : Mknod(d, n, what)
              \/ Unlink(d, n)
              \/ Rmdir(d, n)
              \/ \E f \in Dirs, m \in Name : Rename(d, n, f, m)
      BY <1>1 DEF Next
    <2>2. Dirs \subseteq Node
      BY DEF Dirs
    <2>3. CASE \E what \in {"dir", "file"} : Mknod(d, n, what)
      BY <2>2, <2>3, MknodInv
    <2>4. CASE Unlink(d, n) \/ Rmdir(d, n)
      BY <2>2, <2>4, RemoveInv DEF Unlink, Rmdir
    <2>5. CASE \E f \in Dirs, m \in Name : Rename(d, n, f, m)
      BY <2>2, <2>5, RenameInv
    <2> QED
      BY <2>1, <2>3, <2>4, <2>5
  <1>2. CASE UNCHANGED vars
    BY <1>2 DEF vars, Inv, TypeOK, TreeIsFound, Lookup, Hashed, Others
  <1> QED
    BY <1>1, <1>2

LEMMA SpecInv == Spec => []Inv
  BY InitInv, NextInv, PTL DEF Spec

\* The types of the tree's variables, for any names and any number of nodes.
THEOREM TypeCorrect == Spec => []TypeOK
  <1>1. Inv => TypeOK
    BY DEF Inv
  <1> QED
    BY SpecInv, <1>1, PTL

\* What is listed, and so saved, is what a path leads to.
THEOREM ListedIsFound == Spec => []TreeIsFound
  <1>1. Inv => TreeIsFound
    BY DEF Inv
  <1> QED
    BY SpecInv, <1>1, PTL

\* What is found and not listed was replaced by a rename.
THEOREM LingeringWasReplaced == Spec => []OnlyReplacedLinger
  <1>1. Inv => OnlyReplacedLinger
    <2> SUFFICES ASSUME Inv, NEW d \in Node, NEW n \in Name, Lookup(d, n) # None
                 PROVE  Lookup(d, n) \in {contents[d][n]} \cup replaced
      BY DEF OnlyReplacedLinger
    <2>1. Lookup(d, n) = table[d][n][1] /\ 1 \in 1..Len(table[d][n])
      BY Found DEF Inv
    <2> QED
      BY <2>1 DEF Inv, Others
  <1> QED
    BY SpecInv, <1>1, PTL

-----------------------------------------------------------------------------
(***************************************************************************)
(* Loops.  A move changes one parent, that of o to f.  A node above which  *)
(* o is not keeps the nodes above it.  Else a loop it is in goes through   *)
(* o and f, so o was above f, and the child of o on that way is on the     *)
(* loop: the check of rename let it pass for its hidden name.              *)
(***************************************************************************)

\* S holds with a node its parent.
Closed(p, S) == S \subseteq Node /\ \A j \in S : p[j] \in S

\* Above, of the parents p.
AboveIn(p, x) == {k \in Node : \A S \in SUBSET Node : x \in S /\ Closed(p, S) => k \in S}

\* From p to q only o moves.
OnlyMoves(p, q, o) == \A j \in Node \ {o} : q[j] = p[j]

LEMMA AboveIsAboveIn == \A x : Above(x) = AboveIn(parent, x) /\ Above(x)' = AboveIn(parent', x)
  BY DEF Above, AboveIn, Closed

LEMMA AboveSelf ==
    ASSUME NEW p, NEW x \in Node
    PROVE  x \in AboveIn(p, x)
  BY DEF AboveIn

\* AboveIn is the smallest closed set.
LEMMA AboveLeast ==
    ASSUME NEW p, NEW x, NEW S, x \in S, Closed(p, S)
    PROVE  AboveIn(p, x) \subseteq S
  BY DEF AboveIn, Closed

LEMMA AboveClosed ==
    ASSUME NEW p \in [Node -> Node], NEW x
    PROVE  Closed(p, AboveIn(p, x))
  BY DEF AboveIn, Closed

\* What is above a node above x is above x.
LEMMA AboveTransitive ==
    ASSUME NEW p \in [Node -> Node], NEW x, NEW y \in AboveIn(p, x)
    PROVE  AboveIn(p, y) \subseteq AboveIn(p, x)
  BY AboveClosed, AboveLeast

\* What is above x is x or above its parent.
LEMMA AboveParent ==
    ASSUME NEW p \in [Node -> Node], NEW x \in Node
    PROVE  /\ AboveIn(p, p[x]) \subseteq AboveIn(p, x)
           /\ AboveIn(p, x) \subseteq {x} \cup AboveIn(p, p[x])
  <1>1. p[x] \in AboveIn(p, x)
    BY AboveSelf, AboveClosed DEF Closed
  <1>2. AboveIn(p, p[x]) \subseteq AboveIn(p, x)
    BY <1>1, AboveTransitive
  <1>3. Closed(p, {x} \cup AboveIn(p, p[x]))
    BY AboveSelf, AboveClosed DEF Closed
  <1>4. AboveIn(p, x) \subseteq {x} \cup AboveIn(p, p[x])
    BY <1>3, AboveLeast
  <1> QED
    BY <1>2, <1>4

\* In a loop every node is above every other.
LEMMA LoopGoesRound ==
    ASSUME NEW p \in [Node -> Node], NEW k \in Node, k \in AboveIn(p, p[k]),
           NEW o \in AboveIn(p, k)
    PROVE  k \in AboveIn(p, o)
  <1> DEFINE S == {x \in AboveIn(p, k) : k \in AboveIn(p, x)}
  <1>1. k \in S
    BY AboveSelf
  <1>2. Closed(p, S)
    <2>1. S \subseteq Node
      BY AboveClosed DEF Closed
    <2>2. ASSUME NEW x \in S
          PROVE  p[x] \in S
      <3>1. x \in Node /\ p[x] \in AboveIn(p, k)
        BY <2>1, AboveClosed DEF Closed
      <3>2. k = x \/ k \in AboveIn(p, p[x])
        BY <3>1, AboveParent
      <3> QED
        BY <3>1, <3>2
    <2> QED
      BY <2>1, <2>2 DEF Closed
  <1>3. o \in S
    BY <1>1, <1>2, AboveLeast
  <1> QED
    BY <1>3

\* Nodes with a new parent of o that o is not above keep what is above them.
LEMMA MoveFarAway ==
    ASSUME NEW p \in [Node -> Node], NEW q \in [Node -> Node], NEW o \in Node,
           OnlyMoves(p, q, o),
           NEW x \in Node, o \notin AboveIn(q, x)
    PROVE  AboveIn(q, x) = AboveIn(p, x)
  <1>1. Closed(p, AboveIn(q, x))
    BY AboveClosed DEF Closed, OnlyMoves
  <1>2. AboveIn(p, x) \subseteq AboveIn(q, x)
    BY <1>1, AboveSelf, AboveLeast
  <1>3. Closed(q, AboveIn(p, x))
    <2>1. Closed(p, AboveIn(p, x)) /\ o \notin AboveIn(p, x)
      BY <1>2, AboveClosed
    <2> QED
      BY <2>1 DEF Closed, OnlyMoves
  <1>4. AboveIn(q, x) \subseteq AboveIn(p, x)
    BY <1>3, AboveSelf, AboveLeast
  <1> QED
    BY <1>2, <1>4

\* A loop that goes through the moved node was the way from its new place to it.
LEMMA MoveIntoLoop ==
    ASSUME NEW p \in [Node -> Node], NEW q \in [Node -> Node], NEW o \in Node,
           OnlyMoves(p, q, o),
           NEW k \in Node, k \in AboveIn(q, q[k]), o \in AboveIn(q, k)
    PROVE  /\ AboveIn(q, q[o]) \subseteq AboveIn(p, q[o])
           /\ o \in AboveIn(q, q[o]) /\ AboveIn(q, q[o]) \subseteq AboveIn(q, k)
  <1>1. Closed(q, AboveIn(p, q[o]))
    BY AboveSelf, AboveClosed DEF Closed, OnlyMoves
  <1>2. AboveIn(q, q[o]) \subseteq AboveIn(p, q[o])
    BY <1>1, AboveSelf, AboveLeast
  <1>3. AboveIn(q, q[o]) \subseteq AboveIn(q, o) /\ AboveIn(q, o) \subseteq {o} \cup AboveIn(q, q[o])
    BY AboveParent
  <1>4. AboveIn(q, o) \subseteq AboveIn(q, k)
    BY AboveTransitive
  <1>5. k \in AboveIn(q, o)
    BY LoopGoesRound
  <1>6. o \in AboveIn(q, q[o])
    <2>1. CASE k = o
      BY <2>1
    <2>2. CASE k # o
      <3>1. k \in AboveIn(q, q[o])
        BY <1>3, <1>5, <2>2
      <3>2. AboveIn(q, k) \subseteq AboveIn(q, q[o])
        BY <3>1, AboveTransitive
      <3> QED
        BY <3>2
    <2> QED
      BY <2>1, <2>2
  <1> QED
    BY <1>2, <1>3, <1>4, <1>6

\* The last node before o on a way of others that leads to it.
LEMMA ChildOnTheWay ==
    ASSUME NEW q \in [Node -> Node], NEW o \in Node, NEW f \in Node,
           f # o, o \in AboveIn(q, f)
    PROVE  \E c \in AboveIn(q, f) \ {o} : q[c] = o
  <1> SUFFICES ASSUME \A c \in AboveIn(q, f) \ {o} : q[c] # o
               PROVE  FALSE
    OBVIOUS
  <1>1. Closed(q, AboveIn(q, f) \ {o})
    BY AboveClosed DEF Closed
  <1>2. AboveIn(q, f) \subseteq AboveIn(q, f) \ {o}
    BY <1>1, AboveSelf, AboveLeast
  <1> QED
    BY <1>2

\* Only nodes that were made are somewhere, or are parents.
ParentsMade ==
    \A k \in Node : parent[k] <= made /\ (kind[k] # "none" => k <= made)

LoopInv == ParentsMade /\ LoopsAreHidden

LEMMA InitLoopInv == Init => LoopInv
  <1> SUFFICES ASSUME Init PROVE LoopInv
    OBVIOUS
  <1>1. \A k \in Node : parent[k] = Root /\ (kind[k] # "none" => k = Root)
    BY DEF Init
  <1>2. made = Root /\ Root <= Root
    BY DEF Init, Root
  <1> QED
    BY <1>1, <1>2 DEF LoopInv, ParentsMade, LoopsAreHidden

\* A move keeps the loops of nodes it does not take along, and makes one only by
\* a child with a hidden name.
LEMMA MoveKeepsLoops ==
    ASSUME TypeOK, LoopsAreHidden, NEW o \in Node, NEW f \in Node,
           parent' = [parent EXCEPT ![o] = f],
           \A j \in Node \ {o} : name'[j] = name[j] /\ kind'[j] = kind[j],
           o \in Above(f) => /\ kind'[o] = kind[o]
                             /\ f # o
                             /\ \A c \in Above(f) \ {o} : parent[c] = o => name[c] \in Hidden
    PROVE  LoopsAreHidden'
  <1>1. PICK p \in [Node -> Node], q \in [Node -> Node] :
            p = parent /\ q = parent' /\ q[o] = f /\ OnlyMoves(p, q, o)
    <2>1. parent \in [Node -> Node] /\ parent' \in [Node -> Node]
      BY DEF TypeOK
    <2>2. parent'[o] = f /\ OnlyMoves(parent, parent', o)
      BY <2>1 DEF OnlyMoves
    <2> QED
      BY <2>1, <2>2
  <1>m. q[o] = f /\ OnlyMoves(p, q, o)
    BY <1>1
  <1> SUFFICES ASSUME NEW k \in Node, k # Root, kind'[k] # "none", k \in AboveIn(q, q[k])
               PROVE  \E c \in AboveIn(q, k) : name'[c] \in Hidden
    BY <1>1, AboveIsAboveIn DEF LoopsAreHidden
  <1>2. CASE o \in AboveIn(q, k)
    <2>1. /\ AboveIn(q, f) \subseteq AboveIn(p, f)
          /\ o \in AboveIn(q, f) /\ AboveIn(q, f) \subseteq AboveIn(q, k)
      <3>1. /\ AboveIn(q, q[o]) \subseteq AboveIn(p, q[o])
            /\ o \in AboveIn(q, q[o]) /\ AboveIn(q, q[o]) \subseteq AboveIn(q, k)
        BY <1>m, <1>2, MoveIntoLoop
      <3> QED
        BY <1>m, <3>1
    <2>2. /\ f # o
          /\ \A c \in AboveIn(p, f) \ {o} : p[c] = o => name[c] \in Hidden
      BY <1>1, <2>1, AboveIsAboveIn
    <2>3. PICK c \in AboveIn(q, f) \ {o} : q[c] = o
      BY <2>1, <2>2, ChildOnTheWay
    <2>4. c \in Node
      BY <2>3, AboveClosed DEF Closed
    <2>5. p[c] = o /\ name'[c] = name[c]
      BY <1>1, <2>3, <2>4 DEF OnlyMoves
    <2> QED
      BY <2>1, <2>2, <2>3, <2>5
  <1>3. CASE o \notin AboveIn(q, k)
    <2>1. k # o /\ q[k] = p[k] /\ kind'[k] = kind[k]
      <3>1. k # o
        BY <1>3, AboveSelf
      <3> QED
        BY <1>1, <3>1 DEF OnlyMoves
    <2>2. AboveIn(q, k) = AboveIn(p, k)
      BY <1>m, <1>3, MoveFarAway
    <2>3. AboveIn(q, p[k]) = AboveIn(p, p[k])
      <3>1. o \notin AboveIn(q, p[k]) /\ p[k] \in Node
        BY <1>3, <2>1, AboveParent
      <3> QED
        BY <1>m, <3>1, MoveFarAway
    <2>4. PICK c \in AboveIn(p, k) : name[c] \in Hidden
      BY <1>1, <2>1, <2>3, AboveIsAboveIn DEF LoopsAreHidden
    <2>5. c \in Node \ {o}
      BY <1>3, <2>2, AboveClosed DEF Closed
    <2> QED
      BY <2>2, <2>4, <2>5
  <1> QED
    BY <1>2, <1>3

\* A new node is above none that was made.
LEMMA MknodLoops ==
    ASSUME Inv, LoopInv, NEW d \in Dirs, NEW n \in Name, NEW what \in {"dir", "file"},
           Mknod(d, n, what)
    PROVE  LoopInv'
  <1>1. PICK k : /\ k = made + 1 /\ k \in Node /\ made \in Node /\ made' = k
                 /\ kind' = [kind EXCEPT ![k] = what]
                 /\ parent' = [parent EXCEPT ![k] = d]
                 /\ name' = [name EXCEPT ![k] = n]
    BY DEF Mknod, Inv, TypeOK
  <1>2. d \in Node /\ d <= made
    BY DEF Dirs, LoopInv, ParentsMade
  <1>3. parent \in [Node -> Node] /\ kind \in [Node -> {"none", "dir", "file"}]
        /\ name \in [Node -> Name \cup {Slash}]
    BY DEF Inv, TypeOK
  <1>4. ParentsMade'
    <2> SUFFICES ASSUME NEW j \in Node
                 PROVE  parent'[j] <= made' /\ (kind'[j] # "none" => j <= made')
      BY DEF ParentsMade
    <2>1. CASE j = k
      BY <1>1, <1>2, <1>3, <2>1 DEF Node
    <2>2. CASE j # k
      BY <1>1, <1>3, <2>2 DEF LoopInv, ParentsMade, Node
    <2> QED
      BY <2>1, <2>2
  <1>5. k \notin Above(d)
    <2>1. Closed(parent, 1..made)
      <3>1. 1..made \subseteq Node
        BY <1>1, FileTreeAssumption DEF Node
      <3>2. \A j \in Node : parent[j] \in Node /\ parent[j] <= made
        BY <1>3 DEF LoopInv, ParentsMade
      <3>3. \A j \in Node : parent[j] \in 1..made
        BY <1>1, <3>2 DEF Node
      <3> QED
        BY <3>1, <3>3 DEF Closed
    <2>2. d \in 1..made /\ k \notin 1..made
      BY <1>1, <1>2 DEF Node
    <2> QED
      BY <2>1, <2>2, AboveLeast, AboveIsAboveIn
  <1>6. \A j \in Node \ {k} : name'[j] = name[j] /\ kind'[j] = kind[j]
    BY <1>1, <1>3
  <1>7. LoopsAreHidden'
    BY <1>1, <1>2, <1>5, <1>6, MoveKeepsLoops DEF Inv, LoopInv
  <1> QED
    BY <1>4, <1>7 DEF LoopInv

LEMMA RenameLoops ==
    ASSUME Inv, LoopInv, NEW d \in Dirs, NEW n \in Name, NEW f \in Dirs, NEW m \in Name,
           Rename(d, n, f, m)
    PROVE  LoopInv'
  <1>1. d \in Node /\ f \in Node /\ f <= made
    BY DEF Dirs, LoopInv, ParentsMade
  <1>2. PICK o \in Node : o = Lookup(d, n) /\ ~Leads(o, f)
    BY <1>1, Found DEF Inv, Rename, MayRename
  <1>3. /\ parent' = [parent EXCEPT ![o] = f] /\ name' = [name EXCEPT ![o] = m]
        /\ UNCHANGED <<made, kind>>
    BY <1>2 DEF Rename
  <1>4. parent \in [Node -> Node] /\ name \in [Node -> Name \cup {Slash}]
    BY DEF Inv, TypeOK
  <1>5. ParentsMade'
    BY <1>1, <1>3, <1>4 DEF LoopInv, ParentsMade
  <1>6. f # o /\ \A c \in Above(f) \ {o} : parent[c] = o => name[c] \in Hidden
    BY <1>2 DEF Leads
  <1>7. \A j \in Node \ {o} : name'[j] = name[j]
    BY <1>3, <1>4
  <1>8. LoopsAreHidden'
    BY <1>1, <1>3, <1>6, <1>7, MoveKeepsLoops DEF Inv, LoopInv
  <1> QED
    BY <1>5, <1>8 DEF LoopInv

LEMMA NextLoopInv == Inv /\ LoopInv /\ [Next]_vars => LoopInv'
  <1> SUFFICES ASSUME Inv, LoopInv, [Next]_vars PROVE LoopInv'
    OBVIOUS
  <1>1. CASE UNCHANGED <<made, kind, parent, name>>
    BY <1>1 DEF LoopInv, ParentsMade, LoopsAreHidden, Above
  <1>2. CASE Next
    <2>1. PICK d \in Dirs, n \in Name :
              \/ \E what \in {"dir", "file"} : Mknod(d, n, what)
              \/ Unlink(d, n)
              \/ Rmdir(d, n)
              \/ \E f \in Dirs, m \in Name : Rename(d, n, f, m)
      BY <1>2 DEF Next
    <2>2. CASE \E what \in {"dir", "file"} : Mknod(d, n, what)
      BY <2>2, MknodLoops
    <2>3. CASE Unlink(d, n) \/ Rmdir(d, n)
      BY <1>1, <2>3 DEF Unlink, Rmdir, Remove
    <2>4. CASE \E f \in Dirs, m \in Name : Rename(d, n, f, m)
      BY <2>4, RenameLoops
    <2> QED
      BY <2>1, <2>2, <2>3, <2>4
  <1> QED
    BY <1>1, <1>2 DEF vars

\* A directory is moved below itself only past a child with a hidden name.
THEOREM MovesBelowItselfAreHidden == Spec => []LoopsAreHidden
  <1>1. LoopInv => LoopsAreHidden
    BY DEF LoopInv
  <1> QED
    BY SpecInv, InitLoopInv, NextLoopInv, <1>1, PTL DEF Spec

==============================================================================
