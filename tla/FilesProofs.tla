------------------------------ MODULE FilesProofs ------------------------------
(***************************************************************************)
(* Proofs about what is read from files.  First about module Files, for    *)
(* every tree of names, content, chunk and limit, and whatever others do   *)
(* during a call; then about the configuration files (modules Settings,    *)
(* Endpoint, Devices and Allowlist), for files of any length.              *)
(***************************************************************************)
EXTENDS Files, TLAPS, FiniteSetTheorems, WellFoundedInduction

\* The bytes there are, and what a write behind the end of a file leaves in between.
Known == UNION {ToSet(c) : c \in Contents \cup {Data} \cup {d[n].data : d \in Disks, n \in Nodes}}

Bytes == Known \cup {"hole"}

Entries == {None, Dir} \cup {File(c) : c \in Seq(Bytes)}

\* What lies in a directory has a directory above it.
IsTree(d) ==
  /\ d \in [Nodes -> Entries]
  /\ \A n \in Nodes \ {Cwd} : d[n] # None => d[Up[n]] = Dir

\* The names form a tree, and so does what there is at first.
SetUp ==
  /\ IsFiniteSet(Nodes) /\ Cwd \in Nodes
  /\ Up \in [Nodes \ {Cwd} -> Nodes]
  /\ \E depth \in [Nodes -> Nat] : \A n \in Nodes \ {Cwd} : depth[n] = depth[Up[n]] + 1
  /\ Permitted \subseteq Nodes /\ Matching \subseteq Nodes
  /\ Data \in Seq(Bytes) /\ Contents \subseteq Seq(Bytes)
  /\ \A d \in Disks : IsTree(d)
  /\ Chunk \in Nat \ {0} /\ MaxFile \in Nat /\ MaxDepth \in Nat

TypeInv ==
  /\ at \in {"start", "open", "read", "write", "walk", "done"}
  /\ IsTree(disk)
  /\ size \in Nat
  /\ got \in Seq(Bytes)
  /\ file \in Seq(Bytes)
  /\ stack \in Seq([was : SUBSET Nodes, due : SUBSET Nodes])
  /\ linked \in BOOLEAN
  /\ DOMAIN seen = {"held", "same", "ever", "failed"}

\* Which tool is where, and what it can answer.
ToolInv ==
  /\ at # "done" => answer = "none"
  /\ at = "start" => got = <<>> /\ found = {}
  /\ at \in {"open", "read", "write", "walk"} => Path \in Permitted
  /\ at \in {"open", "read"} \/ answer = "content" => args.tool = "read"
  /\ at = "write" \/ answer = "written" => args.tool = "write"
  /\ at = "walk" => args.tool \in {"list", "search"} /\ stack # <<>>
  /\ answer = "entries" => args.tool = "list"
  /\ answer = "matches" => args.tool = "search"

\* got is the beginning of c.
Begins(g, c) == Len(g) <= Len(c) /\ \A i \in 1..Len(g) : g[i] = c[i]

\* file_read: what has been read was there, and a file nobody touches is read from its
\* beginning.
ReadInv ==
  /\ args.tool = "read" /\ Path \in Nodes => disk[Path].data \in seen.held
  /\ at = "open" =>
       /\ got = <<>> /\ size <= MaxFile
       /\ Path \in seen.same \ Pseudo => size = Len(disk[Path].data)
  /\ at = "read" =>
       /\ file \in seen.held /\ Len(got) <= size /\ size <= MaxFile
       /\ \A i \in 1..Len(got) : \E c \in seen.held : i \in DOMAIN c /\ got[i] = c[i]
       /\ Path \in seen.same => file = disk[Path].data
       /\ Path \in seen.same \ Pseudo => size = Len(file) /\ Begins(got, file)
  /\ answer = "content" =>
       /\ Len(got) <= size /\ size <= MaxFile
       /\ \A i \in 1..Len(got) : \E c \in seen.held : i \in DOMAIN c /\ got[i] = c[i]
       /\ Path \in seen.same \ Pseudo => got = file

\* file_write: a file nobody touches holds what has been written.
WriteInv ==
  /\ at = "write" =>
       /\ Path # Cwd /\ Path = args.path /\ Begins(got, Data)
       /\ linked => IsFile(disk[Path])
       /\ Path \in seen.same => linked /\ file = got /\ disk[Path] = File(got)
  /\ answer = "written" /\ Path \in seen.same /\ ~seen.failed => disk[Path] = File(Data)

\* The walks know only names that there have been.
WalkInv ==
  args.tool \in {"list", "search"} =>
    /\ {n \in Nodes : disk[n] # None} \subseteq seen.ever
    /\ \A i \in DOMAIN stack : stack[i].was \subseteq seen.ever
    /\ found \subseteq seen.ever

\* file_list: of the names that do not change those that are there are due or found.
ListInv ==
  args.tool = "list" =>
    /\ at = "walk" =>
         /\ Len(stack) = 1
         /\ \A n \in Children(Path) \cap seen.same :
              /\ n \in stack[1].was <=> disk[n] # None
              /\ n \in found => disk[n] # None
              /\ n \in found \/ n \in stack[1].due
    /\ answer = "entries" =>
         \A n \in Children(Path) \cap seen.same : n \in found <=> disk[n] # None

\* d names up from n is the path of the call.
Below(n, d) ==
  /\ n \in Nodes /\ d \in 1..Cardinality(Nodes)
  /\ Way(n)[d] = Path /\ \A k \in 0..(d - 1) : Way(n)[k] # Path

\* What file_search has to find, d directories down.
Sought(n, d) ==
  /\ n \in Matching /\ Below(n, d) /\ d - 1 <= MaxDepth
  /\ \A k \in 0..(d - 1) : Way(n)[k] \in seen.same \ Hidden
  /\ IsFile(disk[n])

\* file_search: it has been found, or one of the names above it is due in the directory
\* that is open there.
SearchInv ==
  args.tool = "search" =>
    \A n \in Nodes : \A d \in 1..Cardinality(Nodes) :
      Sought(n, d) =>
        /\ at = "walk" =>
             \/ n \in found
             \/ \E i \in 1..d : i \in DOMAIN stack /\ Way(n)[d - i] \in stack[i].due \cap stack[i].was
        /\ answer = "matches" => n \in found

IInv ==
  TypeInv /\ ToolInv /\ ReadInv /\ WriteInv /\ WalkInv /\ ListInv /\ SearchInv

-----------------------------------------------------------------------------
(* Numbers and sequences.                                                  *)

\* A set of numbers that is not empty has a least one.
LEMMA LeastNumber ==
  ASSUME NEW T, T \subseteq Nat, T # {}
  PROVE  Min(T) \in T /\ \A y \in T : Min(T) <= y
<1>1. \E x \in T : \A y \in T : ~(<<y, x>> \in OpToRel(<, Nat))
  BY NatLessThanWellFounded, WFMin, Zenon
<1>2. PICK x \in T : \A y \in T : ~(<<y, x>> \in OpToRel(<, Nat))
  BY <1>1
<1>3. \A y \in T : x <= y
  <2>1. TAKE y \in T
  <2>2. ~(<<y, x>> \in OpToRel(<, Nat))
    BY <1>2
  <2>3. x \in Nat /\ y \in Nat
    OBVIOUS
  <2> QED
    BY <2>2, <2>3 DEF OpToRel
<1> QED
  BY <1>3 DEF Min

\* The least of three numbers, of two, and the greatest of two.
LEMMA LeastOfThree ==
  ASSUME NEW a \in Nat, NEW b \in Nat, NEW c \in Nat
  PROVE  /\ Min({a, b, c}) \in Nat
         /\ Min({a, b, c}) <= a /\ Min({a, b, c}) <= b /\ Min({a, b, c}) <= c
         /\ Min({a, b, c}) \in {a, b, c}
<1>1. {a, b, c} \subseteq Nat /\ {a, b, c} # {}
  OBVIOUS
<1>2. Min({a, b, c}) \in {a, b, c} /\ \A y \in {a, b, c} : Min({a, b, c}) <= y
  BY <1>1, LeastNumber
<1> QED
  BY <1>2

LEMMA LeastOfTwo ==
  ASSUME NEW a \in Nat, NEW b \in Nat
  PROVE  /\ Min({a, b}) \in Nat
         /\ Min({a, b}) <= a /\ Min({a, b}) <= b
         /\ Min({a, b}) \in {a, b}
<1>1. {a, b} \subseteq Nat /\ {a, b} # {}
  OBVIOUS
<1>2. Min({a, b}) \in {a, b} /\ \A y \in {a, b} : Min({a, b}) <= y
  BY <1>1, LeastNumber
<1> QED
  BY <1>2

LEMMA GreatestOfTwo ==
  ASSUME NEW a \in Nat, NEW b \in Nat
  PROVE  Max({a, b}) = IF a <= b THEN b ELSE a
<1> DEFINE m == IF a <= b THEN b ELSE a
<1>1. m \in {a, b} /\ \A y \in {a, b} : m >= y
  OBVIOUS
<1>2. \A x \in {a, b} : (\A y \in {a, b} : x >= y) => x = m
  OBVIOUS
<1> HIDE DEF m
<1>3. Max({a, b}) = m
  BY <1>1, <1>2 DEF Max
<1> QED
  BY <1>3 DEF m

\* A piece that follows the beginning of c makes a longer beginning of c.
LEMMA PieceFollows ==
  ASSUME NEW V, NEW c \in Seq(V), NEW g \in Seq(V), NEW m \in Nat, m <= Len(c),
         NEW piece, piece = SubSeq(c, Len(g) + 1, m)
  PROVE  /\ piece \in Seq(V)
         /\ piece # <<>> =>
              /\ Len(g) < m /\ g \o piece \in Seq(V) /\ Len(g \o piece) = m
              /\ \A i \in 1..Len(g) : (g \o piece)[i] = g[i]
              /\ \A i \in 1..m : i > Len(g) => (g \o piece)[i] = c[i]
         /\ piece = <<>> => m <= Len(g)
<1> DEFINE k == Len(g)
<1>1. k \in Nat /\ k = Len(g)
  OBVIOUS
<1> HIDE DEF k
<1>2. CASE m <= k
  <2>1. SubSeq(c, k + 1, m) = <<>>
    BY <1>1, <1>2
  <2> QED
    BY <1>1, <1>2, <2>1
<1>3. CASE k < m
  <2>1. /\ piece \in Seq(V) /\ Len(piece) = m - k
        /\ \A i \in 1..(m - k) : piece[i] = c[k + i]
    <3>1. /\ SubSeq(c, k + 1, m) \in Seq(V)
          /\ Len(SubSeq(c, k + 1, m)) = m - k
      BY <1>1, <1>3
    <3>2. \A i \in 1..(m - k) : SubSeq(c, k + 1, m)[i] = c[k + i]
      BY <1>1, <1>3
    <3> QED
      BY <1>1, <3>1, <3>2
  <2>2. /\ g \o piece \in Seq(V) /\ Len(g \o piece) = m
        /\ \A i \in 1..k : (g \o piece)[i] = g[i]
        /\ \A i \in 1..(m - k) : (g \o piece)[k + i] = piece[i]
    BY <1>1, <1>3, <2>1
  <2>3. \A i \in 1..m : i > k => (g \o piece)[i] = c[i]
    <3> TAKE i \in 1..m
    <3> HAVE i > k
    <3>1. i - k \in 1..(m - k) /\ k + (i - k) = i
      BY <1>1
    <3> QED
      BY <2>1, <2>2, <3>1
  <2>4. piece # <<>>
    BY <1>1, <1>3, <2>1, SMTT(60)
  <2> QED
    BY <1>1, <1>3, <2>1, <2>2, <2>3, <2>4
<1> QED
  BY <1>1, <1>2, <1>3

\* A name that changes leaves a tree if its directory is there and it is none with
\* something in it.
LEMMA TreeChanges ==
  ASSUME SetUp, NEW d, IsTree(d), NEW n \in Nodes, NEW e \in Entries,
         n # Cwd /\ e # None => d[Up[n]] = Dir,
         d[n] # Dir \/ \A m \in Nodes \ {Cwd} : Up[m] = n => d[m] = None
  PROVE  IsTree([d EXCEPT ![n] = e])
<1>1. /\ d \in [Nodes -> Entries]
      /\ \A m \in Nodes \ {Cwd} : d[m] # None => d[Up[m]] = Dir
  BY DEF IsTree
<1>2. Up \in [Nodes \ {Cwd} -> Nodes]
  BY DEF SetUp
<1>3. n # Cwd => Up[n] # n
  <2>1. PICK depth \in [Nodes -> Nat] : \A m \in Nodes \ {Cwd} : depth[m] = depth[Up[m]] + 1
    BY DEF SetUp
  <2> SUFFICES ASSUME n # Cwd, Up[n] = n
               PROVE  FALSE
    OBVIOUS
  <2>2. depth[n] = depth[n] + 1 /\ depth[n] \in Nat
    BY <2>1
  <2> QED
    BY <2>2
<1> DEFINE t == [d EXCEPT ![n] = e]
<1>4. t \in [Nodes -> Entries] /\ t[n] = e /\ \A m \in Nodes : m # n => t[m] = d[m]
  BY <1>1
<1> HIDE DEF t
<1>5. ASSUME NEW m \in Nodes \ {Cwd}, t[m] # None
      PROVE  t[Up[m]] = Dir
  <2>1. Up[m] \in Nodes
    BY <1>2
  <2>2. CASE m = n
    BY <1>3, <1>4, <1>5, <2>1, <2>2
  <2>3. CASE m # n
    <3>1. d[m] # None /\ d[Up[m]] = Dir
      BY <1>1, <1>4, <1>5, <2>3
    <3>2. Up[m] # n
      BY <3>1
    <3> QED
      BY <1>4, <2>1, <3>1, <3>2
  <2> QED
    BY <2>2, <2>3
<1> QED
  BY <1>4, <1>5 DEF IsTree, t

-----------------------------------------------------------------------------
(* Types.                                                                  *)

\* What an entry of the tree is.
LEMMA EntryKinds ==
  /\ \A e \in Entries : e.data \in Seq(Bytes) /\ (IsFile(e) => e = File(e.data))
  /\ \A c \in Seq(Bytes) : File(c) \in Entries /\ IsFile(File(c)) /\ File(c) # None /\ File(c) # Dir
  /\ None \in Entries /\ Dir \in Entries /\ None # Dir /\ ~IsFile(None) /\ ~IsFile(Dir)
  /\ \A c, e : File(c) = File(e) => c = e
<1>1. <<>> \in Seq(Bytes)
  OBVIOUS
<1>2. /\ None.kind = "none" /\ None.data = <<>> /\ Dir.kind = "directory" /\ Dir.data = <<>>
      /\ \A c : File(c).kind = "file" /\ File(c).data = c
  BY DEF Entry, None, Dir, File
<1>3. \A c \in Seq(Bytes) : File(c) \in Entries
  BY DEF Entries
<1>4. None \in Entries /\ Dir \in Entries
  BY DEF Entries
<1>5. \A e \in Entries : e = None \/ e = Dir \/ \E c \in Seq(Bytes) : e = File(c)
  BY DEF Entries
<1>6. \A e : IsFile(e) <=> e.kind = "file"
  BY DEF IsFile
<1> HIDE DEF None, Dir, File
<1>7. \A e \in Entries : e.data \in Seq(Bytes) /\ (IsFile(e) => e = File(e.data))
  BY <1>1, <1>2, <1>5, <1>6
<1>8. None # Dir /\ \A c : File(c) # None /\ File(c) # Dir
  BY <1>2
<1> QED
  BY <1>2, <1>3, <1>4, <1>6, <1>7, <1>8

\* Everything stays what it is.
LEMMA NextType ==
  ASSUME SetUp, TypeInv, ToolInv, WriteInv, [Next]_files
  PROVE  TypeInv'
<1>1. CASE UNCHANGED files
  BY <1>1 DEF TypeInv, files, call, world
<1>2. CASE Refuse
  BY <1>2 DEF TypeInv, Refuse, Answer, world
<1>3. CASE Stat
  <2>1. CASE disk[Path] = None \/ SizeOf(Path) > MaxFile
    BY <1>3, <2>1 DEF TypeInv, Stat, Answer, world
  <2>2. CASE ~(disk[Path] = None \/ SizeOf(Path) > MaxFile)
    <3>1. Path \in Nodes /\ disk[Path] \in Entries
      BY <1>3 DEF Stat, Calls, SetUp, TypeInv, IsTree
    <3>2. disk[Path].data \in Seq(Bytes)
      BY <3>1, EntryKinds
    <3>3. SizeOf(Path) \in Nat
      BY <3>2 DEF SizeOf
    <3> QED
      BY <1>3, <2>2, <3>3 DEF TypeInv, Stat, Answer, world
  <2> QED
    BY <2>1, <2>2
<1>4. CASE OpenRead
  <2>1. Path \in Nodes /\ disk[Path].data \in Seq(Bytes)
    BY <1>4, EntryKinds DEF OpenRead, ToolInv, SetUp, TypeInv, IsTree
  <2> QED
    BY <1>4, <2>1 DEF TypeInv, OpenRead, Answer
<1>5. CASE Read
  <2> DEFINE m    == Min({size, Len(file), Len(got) + Chunk})
             more == SubSeq(file, Len(got) + 1, m)
  <2>1. /\ IF more = <<>> THEN Answer("content") /\ UNCHANGED got
                          ELSE got' = got \o more /\ UNCHANGED <<at, answer>>
        /\ UNCHANGED <<args, size, stack, found, world>> /\ at = "read"
    BY <1>5 DEF Read
  <2>2. m \in Nat /\ m <= Len(file)
    <3>1. size \in Nat /\ Len(file) \in Nat /\ Len(got) \in Nat /\ Chunk \in Nat
      BY DEF TypeInv, SetUp
    <3>2. Len(got) + Chunk \in Nat
      BY <3>1
    <3> QED
      BY <3>1, <3>2, LeastOfThree
  <2>3. more # <<>> => got \o more \in Seq(Bytes)
    <3> HIDE DEF m
    <3>1. file \in Seq(Bytes) /\ got \in Seq(Bytes)
      BY DEF TypeInv
    <3> QED
      BY <2>2, <3>1, PieceFollows
  <2> HIDE DEF more
  <2> QED
    BY <2>1, <2>3 DEF TypeInv, Answer, world
<1>6. CASE OpenWrite
  <2>1. CASE Answer("error") /\ UNCHANGED <<disk, file, linked>>
    BY <1>6, <2>1 DEF TypeInv, OpenWrite, Answer
  <2>2. CASE /\ Path # Cwd /\ disk[Path] # Dir /\ disk[Up[Path]] = Dir
             /\ at' = "write" /\ disk' = [disk EXCEPT ![Path] = File(<<>>)]
             /\ file' = <<>> /\ linked' = TRUE
    <3>0. <<>> \in Seq(Bytes)
      OBVIOUS
    <3>1. Path \in Nodes /\ <<>> \in Seq(Bytes) /\ File(<<>>) \in Entries
      BY <1>6, <3>0, EntryKinds DEF OpenWrite, Calls, SetUp
    <3>2. IsTree(disk')
      BY <2>2, <3>1, TreeChanges DEF TypeInv
    <3> QED
      BY <1>6, <2>2, <3>1, <3>2 DEF TypeInv, OpenWrite
  <2> QED
    BY <1>6, <2>1, <2>2 DEF OpenWrite
<1>7. CASE Write
  <2> DEFINE m     == Min({Len(Data), Len(got) + Chunk})
             piece == SubSeq(Data, Len(got) + 1, m)
  <2>1. /\ at = "write" /\ piece # <<>>
        /\ got' = got \o piece
        /\ file' = Overlaid(file, Len(got), piece)
        /\ disk' = IF linked THEN [disk EXCEPT ![Path] = File(file')] ELSE disk
        /\ UNCHANGED <<args, at, size, stack, found, answer, linked, moves, seen>>
    BY <1>7 DEF Write
  <2>2. Data \in Seq(Bytes) /\ got \in Seq(Bytes) /\ file \in Seq(Bytes) /\ "hole" \in Bytes
    <3>1. "hole" \in Bytes
      BY DEF Bytes
    <3> QED
      BY <3>1 DEF TypeInv, SetUp
  <2>3. m \in Nat /\ m <= Len(Data)
    <3>1. Len(Data) \in Nat /\ Len(got) \in Nat /\ Chunk \in Nat
      BY <2>2 DEF SetUp
    <3>2. Len(got) + Chunk \in Nat
      BY <3>1
    <3> QED
      BY <3>1, <3>2, LeastOfTwo
  <2>4. piece \in Seq(Bytes) /\ got \o piece \in Seq(Bytes)
    <3> HIDE DEF m
    <3> QED
      BY <2>1, <2>2, <2>3, PieceFollows, SMTT(60)
  <2> HIDE DEF piece
  <2>5. Overlaid(file, Len(got), piece) \in Seq(Bytes)
    <3> DEFINE k == Max({Len(file), Len(got) + Len(piece)})
    <3>1. k \in Nat
      <4>1. Len(file) \in Nat /\ Len(got) + Len(piece) \in Nat
        BY <2>2, <2>4
      <4> QED
        BY <4>1, GreatestOfTwo
    <3> HIDE DEF k
    <3>2. Overlaid(file, Len(got), piece) =
            [i \in 1..k |-> CASE i \in Len(got) + 1..Len(got) + Len(piece) -> piece[i - Len(got)]
                              [] i \in DOMAIN file -> file[i]
                              [] OTHER -> "hole"]
      BY DEF Overlaid, k
    <3>3. \A i \in 1..k : (CASE i \in Len(got) + 1..Len(got) + Len(piece) -> piece[i - Len(got)]
                              [] i \in DOMAIN file -> file[i]
                              [] OTHER -> "hole") \in Bytes
      <4> TAKE i \in 1..k
      <4>1. i \in Len(got) + 1..Len(got) + Len(piece) => piece[i - Len(got)] \in Bytes
        <5> HAVE i \in Len(got) + 1..Len(got) + Len(piece)
        <5>1. i - Len(got) \in 1..Len(piece)
          BY <2>2, <2>4
        <5> QED
          BY <2>4, <5>1
      <4>2. i \in DOMAIN file => file[i] \in Bytes
        BY <2>2
      <4> QED
        BY <2>2, <4>1, <4>2
    <3> QED
      BY <3>1, <3>2, <3>3
  <2>6. IsTree(disk')
    <3>1. CASE ~linked
      BY <2>1, <3>1 DEF TypeInv
    <3>2. CASE linked
      <4>1. Path \in Nodes /\ Path # Cwd /\ IsFile(disk[Path])
        BY <2>1, <3>2 DEF ToolInv, WriteInv, SetUp
      <4>2. disk[Path] # Dir /\ disk[Path] # None
        BY <4>1, EntryKinds
      <4>3. disk[Up[Path]] = Dir /\ File(file') \in Entries
        BY <2>1, <2>5, <4>1, <4>2, EntryKinds DEF TypeInv, IsTree
      <4>4. IsTree([disk EXCEPT ![Path] = File(file')])
        BY <4>1, <4>2, <4>3, TreeChanges DEF TypeInv
      <4> QED
        BY <2>1, <3>2, <4>4
    <3> QED
      BY <3>1, <3>2
  <2> QED
    BY <2>1, <2>4, <2>5, <2>6 DEF TypeInv
<1>8. CASE CloseWrite
  <2>1. /\ at' = "done" /\ seen' = [seen EXCEPT !.failed = got # Data]
        /\ UNCHANGED <<size, got, stack, disk, file, linked>>
    BY <1>8 DEF CloseWrite, Answer
  <2>2. DOMAIN seen' = DOMAIN seen
    BY <2>1
  <2> QED
    BY <2>1, <2>2 DEF TypeInv
<1>9. CASE Delete
  <2>1. CASE Answer("error") /\ UNCHANGED disk
    BY <1>9, <2>1 DEF TypeInv, Delete, Answer
  <2>2. CASE IsFile(disk[Path]) /\ Answer("deleted") /\ disk' = [disk EXCEPT ![Path] = None]
    <3>1. Path \in Nodes
      BY <1>9 DEF Delete, Calls, SetUp
    <3>2. disk[Path] # Dir /\ None \in Entries
      BY <2>2, EntryKinds
    <3>3. IsTree(disk')
      BY <2>2, <3>1, <3>2, TreeChanges DEF TypeInv
    <3> QED
      BY <1>9, <2>2, <3>3 DEF TypeInv, Delete, Answer
  <2> QED
    BY <1>9, <2>1, <2>2 DEF Delete
<1>10. \A d \in Nodes : Opened(d) \in [was : SUBSET Nodes, due : SUBSET Nodes]
  BY DEF Opened, There, Children
<1>11. CASE OpenDir
  <2>1. CASE disk[Path] = Dir
    <3>1. Path \in Nodes
      BY <1>11 DEF OpenDir, Calls, SetUp
    <3>2. <<Opened(Path)>> \in Seq([was : SUBSET Nodes, due : SUBSET Nodes])
      BY <1>10, <3>1
    <3> QED
      BY <1>11, <2>1, <3>2 DEF TypeInv, OpenDir, world
  <2>2. CASE disk[Path] # Dir
    BY <1>11, <2>2 DEF TypeInv, OpenDir, Answer, world
  <2> QED
    BY <2>1, <2>2
<1>12. CASE CloseDir
  <2>1. stack # <<>> /\ Len(stack) \in Nat /\ Len(stack) # 0
    BY <1>12 DEF CloseDir, ToolInv, TypeInv
  <2>2. stack' \in Seq([was : SUBSET Nodes, due : SUBSET Nodes])
    <3> DEFINE T == [was : SUBSET Nodes, due : SUBSET Nodes]
    <3>1. stack \in Seq(T) /\ stack' = SubSeq(stack, 1, Len(stack) - 1)
      BY <1>12 DEF CloseDir, TypeInv
    <3> HIDE DEF T
    <3>2. SubSeq(stack, 1, Len(stack) - 1) \in Seq(T)
      BY <2>1, <3>1
    <3> QED
      BY <3>1, <3>2 DEF T
  <2>3. at' \in {"walk", "done"} /\ UNCHANGED <<size, got, world>>
    BY <1>12 DEF CloseDir, Answer
  <2> QED
    BY <2>2, <2>3 DEF TypeInv, world
<1>13. ASSUME NEW n \in Nodes, Returned(n)
       PROVE  Passed(n) \in Seq([was : SUBSET Nodes, due : SUBSET Nodes])
  <2> DEFINE T == [was : SUBSET Nodes, due : SUBSET Nodes]
             k == Len(stack)
  <2>1. stack \in Seq(T) /\ k \in Nat \ {0} /\ k = Len(stack)
    BY <1>13 DEF Returned, TypeInv
  <2>2. stack[k] \in T
    <3> HIDE DEF T, k
    <3>1. k \in 1..Len(stack)
      BY <2>1
    <3> QED
      BY <2>1, <3>1
  <2>3. [stack[k] EXCEPT !.due = @ \ {n}] \in T
    BY <2>2
  <2> HIDE DEF T, k
  <2>4. Passed(n) = [stack EXCEPT ![k] = [stack[k] EXCEPT !.due = @ \ {n}]]
    BY <2>1 DEF Passed
  <2> QED
    BY <2>1, <2>3, <2>4, SMTT(60) DEF T
<1>14. ASSUME NEW n \in Nodes, ListEntry(n)
       PROVE  TypeInv'
  BY <1>13, <1>14 DEF ListEntry, TypeInv, world
<1>15. ASSUME NEW n \in Nodes, SearchEntry(n)
       PROVE  TypeInv'
  <2>1. Returned(n) /\ UNCHANGED <<args, at, size, got, answer, world>>
    BY <1>15 DEF SearchEntry
  <2>2. stack' = Passed(n) \/ stack' = Append(Passed(n), Opened(n))
    BY <1>15 DEF SearchEntry
  <2>3. Passed(n) \in Seq([was : SUBSET Nodes, due : SUBSET Nodes])
    BY <1>13, <2>1
  <2>4. stack' \in Seq([was : SUBSET Nodes, due : SUBSET Nodes])
    <3> DEFINE T == [was : SUBSET Nodes, due : SUBSET Nodes]
    <3>1. Passed(n) \in Seq(T) /\ Opened(n) \in T
      BY <1>10, <2>3
    <3> HIDE DEF T
    <3>2. stack' \in Seq(T)
      BY <2>2, <3>1
    <3> QED
      BY <3>2 DEF T
  <2> QED
    BY <2>1, <2>4 DEF TypeInv, world
<1>16. ASSUME NEW n \in Nodes \ {Cwd}, NEW e \in Entries, Becomes(n, e),
              disk[n] # Dir \/ There(n) = {}
       PROVE  TypeInv'
  <2>1. /\ disk[Up[n]] = Dir /\ disk' = [disk EXCEPT ![n] = e]
        /\ file' = (IF n = args.path /\ linked' THEN e.data ELSE file)
        /\ linked' \in BOOLEAN /\ UNCHANGED call
    BY <1>16 DEF Becomes
  <2>2. There(n) = {} => \A m \in Nodes \ {Cwd} : Up[m] = n => disk[m] = None
    BY DEF There, Children
  <2>3. IsTree(disk')
    BY <1>16, <2>1, <2>2, TreeChanges DEF TypeInv
  <2>4. e.data \in Seq(Bytes)
    BY EntryKinds
  <2>5. DOMAIN seen' = DOMAIN seen
    <3>1. seen' = [seen EXCEPT !.held = IF n = args.path THEN @ \cup {e.data} ELSE @,
                               !.same = @ \ {n},
                               !.ever = IF e # None THEN @ \cup {n} ELSE @]
      BY <1>16 DEF Becomes
    <3> QED
      BY <3>1
  <2> QED
    BY <2>1, <2>3, <2>4, <2>5 DEF TypeInv, call
<1>17. CASE Others
  <2>1. PICK n \in Nodes \ {Cwd} :
          \/ disk[n] # Dir /\ \E c \in Contents : Becomes(n, File(c))
          \/ There(n) = {} /\ Becomes(n, None)
          \/ disk[n] = None /\ Becomes(n, Dir)
    BY <1>17 DEF Others
  <2>2. \A c \in Contents : File(c) \in Entries
    BY EntryKinds DEF SetUp
  <2> QED
    BY <1>16, <2>1, <2>2, EntryKinds
<1> QED
  BY <1>1, <1>2, <1>3, <1>4, <1>5, <1>6, <1>7, <1>8, <1>9, <1>11, <1>12, <1>14, <1>15, <1>17
     DEF Next, Tool

-----------------------------------------------------------------------------
(* The calls.                                                              *)

\* The path of a call stays what it is.
LEMMA PathStays ==
  ASSUME [Next]_files
  PROVE  args' = args /\ Path' = Path
<1>1. args' = args
  <2>1. ASSUME NEW n, NEW e, Becomes(n, e)
        PROVE  args' = args
    BY <2>1 DEF Becomes, call
  <2> QED
    BY <2>1 DEF Next, files, call, Tool, Refuse, Stat, OpenRead, Read, OpenWrite, Write, CloseWrite,
                Delete, OpenDir, CloseDir, ListEntry, SearchEntry, Others
<1> QED
  BY <1>1 DEF Path

\* A tool is where its code can be and answers what its code can.
LEMMA NextTool ==
  ASSUME SetUp, TypeInv, ToolInv, [Next]_files
  PROVE  ToolInv'
<1>1. args' = args /\ Path' = Path
  BY PathStays
<1>2. CASE UNCHANGED call
  BY <1>1, <1>2 DEF ToolInv, call
<1>3. ASSUME NEW n, NEW e, Becomes(n, e)
      PROVE  UNCHANGED call
  BY <1>3 DEF Becomes
<1>4. CASE Refuse
  BY <1>1, <1>4 DEF ToolInv, Refuse, Answer
<1>5. CASE Stat
  BY <1>1, <1>5 DEF ToolInv, Stat, Calls, Answer
<1>6. CASE OpenRead
  BY <1>1, <1>6 DEF ToolInv, OpenRead, Answer
<1>7. CASE Read
  <2>1. at = "read" /\ \/ at' = at /\ answer' = answer
                       \/ at' = "done" /\ answer' = "content"
    BY <1>7 DEF Read, Answer
  <2> QED
    BY <1>1, <2>1 DEF ToolInv
<1>8. CASE OpenWrite
  BY <1>1, <1>8 DEF ToolInv, OpenWrite, Calls, Answer
<1>9. CASE Write
  <2>1. at = "write" /\ at' = at /\ answer' = answer
    BY <1>9 DEF Write
  <2> QED
    BY <1>1, <2>1 DEF ToolInv
<1>10. CASE CloseWrite
  BY <1>1, <1>10 DEF ToolInv, CloseWrite, Answer
<1>11. CASE Delete
  BY <1>1, <1>11 DEF ToolInv, Delete, Calls, Answer
<1>12. CASE OpenDir
  <2>1. stack' # <<>> \/ at' = "done"
    BY <1>12 DEF OpenDir, Answer
  <2>2. at' \in {"walk", "done"} /\ args.tool \in {"list", "search"} /\ Path \in Permitted
    BY <1>12 DEF OpenDir, Answer, Calls
  <2>3. at' = "walk" => answer' = answer /\ answer = "none"
    BY <1>12 DEF OpenDir, Answer, Calls, ToolInv
  <2>4. at' = "done" => answer' = IF args.tool = "list" THEN "error" ELSE "matches"
    BY <1>12 DEF OpenDir, Answer
  <2> QED
    BY <1>1, <2>1, <2>2, <2>3, <2>4 DEF ToolInv
<1>13. CASE CloseDir
  <2>1. at = "walk" /\ stack' = SubSeq(stack, 1, Len(stack) - 1)
        /\ IF Len(stack) > 1 THEN UNCHANGED <<at, answer>>
           ELSE at' = "done" /\ answer' = IF args.tool = "list" THEN "entries" ELSE "matches"
    BY <1>13 DEF CloseDir, Answer
  <2>2. args.tool \in {"list", "search"} /\ answer = "none" /\ Path \in Permitted
    BY <2>1 DEF ToolInv
  <2>3. Len(stack) > 1 => stack' # <<>>
    <3> DEFINE T == [was : SUBSET Nodes, due : SUBSET Nodes]
    <3>1. stack \in Seq(T)
      BY DEF TypeInv
    <3> HIDE DEF T
    <3> HAVE Len(stack) > 1
    <3>2. Len(SubSeq(stack, 1, Len(stack) - 1)) = Len(stack) - 1
      BY <3>1
    <3>3. Len(stack) \in Nat /\ Len(stack') = Len(stack) - 1 /\ Len(<<>>) = 0
      BY <2>1, <3>1, <3>2
    <3> QED
      BY <3>3
  <2> QED
    BY <1>1, <2>1, <2>2, <2>3 DEF ToolInv
<1>14. ASSUME NEW n, Returned(n), stack' = Passed(n) \/ stack' = Append(Passed(n), Opened(n)),
              UNCHANGED <<args, at, got, answer>>
       PROVE  ToolInv'
  <2>1. at = "walk" /\ Len(stack) \in Nat /\ DOMAIN stack = 1..Len(stack) /\ stack # <<>>
    BY <1>14 DEF Returned, TypeInv
  <2>2. Passed(n) # <<>> /\ Append(Passed(n), Opened(n)) # <<>>
    <3>1. DOMAIN Passed(n) = DOMAIN stack /\ 1 \in DOMAIN stack
      BY <2>1 DEF Passed, TypeInv
    <3>2. Passed(n) # <<>>
      BY <3>1
    <3>3. Append(Passed(n), Opened(n)) # <<>>
      <4>1. Append(Passed(n), Opened(n)) = Passed(n) \o <<Opened(n)>>
        BY DEF Append
      <4>2. Len(Passed(n)) = Len(stack)
        BY <2>1, <3>1
      <4>3. DOMAIN Append(Passed(n), Opened(n)) = 1..(Len(stack) + 1)
        BY <4>2 DEF Append
      <4>4. 1 \in DOMAIN Append(Passed(n), Opened(n))
        BY <2>1, <4>3
      <4> QED
        BY <4>4
    <3> QED
      BY <3>2, <3>3
  <2> QED
    BY <1>1, <1>14, <2>1, <2>2 DEF ToolInv
<1>15. ASSUME NEW n, ListEntry(n) \/ SearchEntry(n)
       PROVE  ToolInv'
  <2>1. Returned(n) /\ UNCHANGED <<args, at, got, answer>>
    BY <1>15 DEF ListEntry, SearchEntry
  <2>2. stack' = Passed(n) \/ stack' = Append(Passed(n), Opened(n))
    BY <1>15 DEF ListEntry, SearchEntry
  <2> QED
    BY <1>14, <2>1, <2>2
<1> QED
  BY <1>2, <1>3, <1>4, <1>5, <1>6, <1>7, <1>8, <1>9, <1>10, <1>11, <1>12, <1>13, <1>15
     DEF Next, Tool, Others, files

-----------------------------------------------------------------------------
(* file_read.                                                              *)

\* Each byte was at its place in something the path has held.
WasHeld(g, held) == \A i \in 1..Len(g) : \E c \in held : i \in DOMAIN c /\ g[i] = c[i]

\* A step by others while a file is read.
LEMMA OthersRead ==
  ASSUME SetUp, TypeInv, ToolInv, ReadInv, NEW n \in Nodes, NEW e \in Entries, Becomes(n, e)
  PROVE  ReadInv'
<1>1. /\ at # "done" /\ disk' = [disk EXCEPT ![n] = e]
      /\ file' = IF n = args.path /\ linked' THEN e.data ELSE file
      /\ seen'.held = IF n = args.path THEN seen.held \cup {e.data} ELSE seen.held
      /\ seen'.same = seen.same \ {n}
      /\ UNCHANGED <<args, at, size, got, answer>> /\ Path' = Path
  <2>1. seen' = [seen EXCEPT !.held = IF n = args.path THEN @ \cup {e.data} ELSE @,
                             !.same = @ \ {n},
                             !.ever = IF e # None THEN @ \cup {n} ELSE @]
    BY DEF Becomes
  <2> QED
    BY <2>1 DEF Becomes, call, Path
<1>2. /\ disk \in [Nodes -> Entries] /\ disk'[n] = e
      /\ \A m \in Nodes : m # n => disk'[m] = disk[m]
  BY <1>1 DEF TypeInv, IsTree
<1>3. answer # "content"
  BY <1>1 DEF ToolInv
<1>4. args.tool = "read" => Path = args.path
  BY DEF Path
<1>5. CASE args.tool # "read"
  BY <1>1, <1>3, <1>5 DEF ToolInv, ReadInv
<1>6. CASE args.tool = "read"
  <2>1. Path \in Nodes => disk'[Path].data \in seen'.held
    <3>1. CASE n = Path
      BY <1>1, <1>2, <1>4, <1>6, <3>1
    <3>2. CASE n # Path
      BY <1>1, <1>2, <1>4, <1>6, <3>2 DEF ReadInv
    <3> QED
      BY <3>1, <3>2
  <2>2. Path \in Nodes /\ Path \in seen'.same => disk'[Path] = disk[Path] /\ file' = file
    BY <1>1, <1>2, <1>4, <1>6
  <2>3. seen'.same \subseteq seen.same /\ seen.held \subseteq seen'.held
    BY <1>1
  <2>4. at = "open" => /\ got = <<>> /\ size <= MaxFile
                       /\ Path \in seen'.same \ Pseudo => size = Len(disk'[Path].data)
    <3> HAVE at = "open"
    <3>1. Path \in Nodes
      BY DEF ToolInv, SetUp
    <3> QED
      BY <2>2, <2>3, <3>1 DEF ReadInv
  <2>5. at = "read" =>
          /\ file' \in seen'.held /\ Len(got) <= size /\ size <= MaxFile
          /\ WasHeld(got, seen'.held)
          /\ Path \in seen'.same => file' = disk'[Path].data
          /\ Path \in seen'.same \ Pseudo => size = Len(file') /\ Begins(got, file')
    <3> HAVE at = "read"
    <3>1. Path \in Nodes
      BY DEF ToolInv, SetUp
    <3>2. file' \in seen'.held
      BY <1>1 DEF ReadInv
    <3>3. WasHeld(got, seen'.held)
      BY <2>3 DEF ReadInv, WasHeld
    <3>4. /\ Len(got) <= size /\ size <= MaxFile
          /\ Path \in seen.same => file = disk[Path].data
          /\ Path \in seen.same \ Pseudo => size = Len(file) /\ Begins(got, file)
      BY DEF ReadInv
    <3> QED
      BY <2>2, <2>3, <3>1, <3>2, <3>3, <3>4
  <2> QED
    BY <1>1, <1>3, <2>1, <2>4, <2>5 DEF ReadInv, WasHeld, Begins
<1> QED
  BY <1>5, <1>6

\* What has been read was there, and what nobody touches is read as it is.
LEMMA NextRead ==
  ASSUME SetUp, TypeInv, ToolInv, ReadInv, [Next]_files
  PROVE  ReadInv'
<1>1. args' = args /\ Path' = Path
  BY PathStays
<1>2. ASSUME at' \notin {"open", "read"}, answer' # "content",
             args.tool = "read" => UNCHANGED <<disk, seen>>
      PROVE  ReadInv'
  BY <1>1, <1>2 DEF ReadInv
<1>3. CASE UNCHANGED files
  BY <1>1, <1>3 DEF ReadInv, files, call, world, Begins
<1>4. CASE Refuse
  BY <1>2, <1>4 DEF Refuse, Answer, world
<1>5. CASE Stat
  <2>1. CASE at' = "done"
    BY <1>2, <1>5, <2>1 DEF Stat, Answer, world, Calls, ToolInv
  <2>2. CASE at' # "done"
    <3>1. /\ ~(SizeOf(Path) > MaxFile) /\ size' = SizeOf(Path) /\ at' = "open"
          /\ answer' = answer /\ UNCHANGED <<got, world>> /\ at = "start" /\ Path \in Permitted
      BY <1>5, <2>2 DEF Stat, Answer, Calls
    <3>2. Path \in Nodes /\ disk[Path].data \in Seq(Bytes)
      BY <3>1, EntryKinds DEF SetUp, TypeInv, IsTree
    <3>3. SizeOf(Path) \in Nat /\ (Path \notin Pseudo => SizeOf(Path) = Len(disk[Path].data))
      BY <3>2 DEF SizeOf
    <3>4. size' <= MaxFile
      BY <3>1, <3>3 DEF SetUp
    <3>5. got' = <<>> /\ answer' # "content"
      BY <3>1 DEF ToolInv
    <3> QED
      BY <1>1, <3>1, <3>3, <3>4, <3>5 DEF ReadInv, world
  <2> QED
    BY <2>1, <2>2
<1>6. CASE OpenRead
  <2>1. CASE at' = "done"
    BY <1>2, <1>6, <2>1 DEF OpenRead, Answer
  <2>2. CASE at' # "done"
    <3>1. /\ at = "open" /\ at' = "read" /\ answer' = answer
          /\ file' = disk[Path].data /\ linked' = TRUE
          /\ UNCHANGED <<size, got, disk, seen>>
      BY <1>6, <2>2 DEF OpenRead, Answer
    <3>2. args.tool = "read" /\ Path \in Nodes /\ answer # "content"
      BY <3>1 DEF ToolInv, SetUp
    <3>3. /\ got = <<>> /\ size <= MaxFile /\ size \in Nat /\ file' \in seen.held
          /\ Path \in seen.same \ Pseudo => size = Len(file')
      BY <3>1, <3>2 DEF ReadInv, TypeInv
    <3>4. disk[Path].data \in Seq(Bytes)
      BY <3>2, EntryKinds DEF TypeInv, IsTree
    <3>5. Len(got) = 0 /\ Len(got) <= size /\ Begins(got, file')
      BY <3>1, <3>3, <3>4 DEF Begins
    <3> QED
      BY <1>1, <3>1, <3>2, <3>3, <3>5 DEF ReadInv, Begins
  <2> QED
    BY <2>1, <2>2
<1>7. CASE Read
  <2> DEFINE m    == Min({size, Len(file), Len(got) + Chunk})
             more == SubSeq(file, Len(got) + 1, m)
  <2>1. /\ at = "read"
        /\ IF more = <<>> THEN Answer("content") /\ UNCHANGED got
                          ELSE got' = got \o more /\ UNCHANGED <<at, answer>>
        /\ UNCHANGED <<args, size, stack, found, world>>
    BY <1>7 DEF Read
  <2>2. /\ file \in Seq(Bytes) /\ got \in Seq(Bytes) /\ size \in Nat /\ Chunk \in Nat \ {0}
        /\ Len(file) \in Nat /\ Len(got) \in Nat
    BY DEF TypeInv, SetUp
  <2>3. /\ m \in Nat /\ m <= size /\ m <= Len(file)
        /\ m \in {size, Len(file), Len(got) + Chunk}
    <3>1. Len(got) + Chunk \in Nat
      BY <2>2
    <3> QED
      BY <2>2, <3>1, LeastOfThree
  <2>4. /\ file \in seen.held /\ Len(got) <= size /\ size <= MaxFile
        /\ WasHeld(got, seen.held)
        /\ Path \in seen.same => file = disk[Path].data
        /\ Path \in seen.same \ Pseudo => size = Len(file) /\ Begins(got, file)
        /\ args.tool = "read" /\ Path \in Nodes => disk[Path].data \in seen.held
    BY <2>1 DEF ReadInv, WasHeld
  <2>5. /\ UNCHANGED <<size, file, disk, seen>>
    BY <2>1 DEF world
  <2> HIDE DEF m
  <2>6. /\ more # <<>> =>
              /\ Len(got) < m /\ Len(got \o more) = m
              /\ \A i \in 1..Len(got) : (got \o more)[i] = got[i]
              /\ \A i \in 1..m : i > Len(got) => (got \o more)[i] = file[i]
        /\ more = <<>> => m <= Len(got)
    <3>1. more = SubSeq(file, Len(got) + 1, m)
      OBVIOUS
    <3> QED
      BY <2>2, <2>3, <3>1, PieceFollows, SMTT(40)
  <2> HIDE DEF more
  <2>7. CASE more = <<>>
    <3>1. answer' = "content" /\ at' = "done" /\ got' = got
      BY <2>1, <2>7 DEF Answer
    <3>2. ASSUME Path \in seen.same \ Pseudo
          PROVE  got = file
      <4>1. size = Len(file) /\ Len(got) <= Len(file) /\ \A i \in 1..Len(got) : got[i] = file[i]
        BY <2>4, <3>2 DEF Begins
      <4>2. Len(got) = Len(file)
        BY <2>2, <2>3, <2>6, <2>7, <4>1
      <4> QED
        BY <2>2, <4>1, <4>2
    <3> QED
      BY <1>1, <2>4, <2>5, <3>1, <3>2 DEF ReadInv, WasHeld
  <2>8. CASE more # <<>>
    <3>1. got' = got \o more /\ at' = at /\ answer' = answer /\ answer # "content"
      BY <2>1, <2>8 DEF ToolInv
    <3>2. /\ Len(got) < m /\ Len(got') = m
          /\ \A i \in 1..Len(got) : got'[i] = got[i]
          /\ \A i \in 1..m : i > Len(got) => got'[i] = file[i]
      BY <2>6, <2>8, <3>1
    <3>3. \A i \in 1..m : i > Len(got) \/ i \in 1..Len(got)
      BY <2>2, <2>3
    <3>4. DOMAIN file = 1..Len(file) /\ \A i \in 1..m : i \in DOMAIN file
      BY <2>2, <2>3
    <3>5. WasHeld(got', seen.held)
      <4>1. ASSUME NEW i \in 1..Len(got')
            PROVE  \E c \in seen.held : i \in DOMAIN c /\ got'[i] = c[i]
        <5>1. i \in 1..m
          BY <3>2
        <5>2. CASE i > Len(got)
          BY <2>4, <3>2, <3>4, <5>1, <5>2
        <5>3. CASE i \in 1..Len(got)
          BY <2>4, <3>2, <5>3 DEF WasHeld
        <5> QED
          BY <3>3, <5>1, <5>2, <5>3
      <4> QED
        BY <4>1 DEF WasHeld
    <3>6. Path \in seen.same \ Pseudo => Begins(got', file)
      <4> HAVE Path \in seen.same \ Pseudo
      <4>1. \A i \in 1..Len(got) : got[i] = file[i]
        BY <2>4 DEF Begins
      <4>2. \A i \in 1..m : got'[i] = file[i]
        BY <3>2, <3>3, <4>1
      <4> QED
        BY <2>3, <3>2, <4>2 DEF Begins
    <3>7. Len(got') <= size
      BY <2>3, <3>2
    <3> QED
      BY <1>1, <2>1, <2>4, <2>5, <3>1, <3>5, <3>6, <3>7 DEF ReadInv, WasHeld, Begins
  <2> QED
    BY <2>7, <2>8
<1>8. CASE OpenWrite
  BY <1>2, <1>8 DEF OpenWrite, Calls, Answer, ToolInv
<1>9. CASE Write
  BY <1>2, <1>9 DEF Write, ToolInv
<1>10. CASE CloseWrite
  BY <1>2, <1>10 DEF CloseWrite, Answer, ToolInv
<1>11. CASE Delete
  BY <1>2, <1>11 DEF Delete, Calls, Answer
<1>12. CASE OpenDir
  <2>1. at' \in {"walk", "done"} /\ answer' # "content" /\ UNCHANGED world
    BY <1>12 DEF OpenDir, Calls, Answer, ToolInv
  <2> QED
    BY <1>2, <2>1 DEF world
<1>13. CASE CloseDir
  <2>1. at' \in {"walk", "done"} /\ answer' # "content" /\ UNCHANGED world
    BY <1>13 DEF CloseDir, Answer, ToolInv
  <2> QED
    BY <1>2, <2>1 DEF world
<1>14. ASSUME NEW n, ListEntry(n) \/ SearchEntry(n)
       PROVE  ReadInv'
  <2>1. at' = "walk" /\ answer' # "content" /\ UNCHANGED world
    BY <1>14 DEF ListEntry, SearchEntry, Returned, ToolInv
  <2> QED
    BY <1>2, <2>1 DEF world
<1>15. CASE Others
  <2>1. \E n \in Nodes : \E e \in Entries : Becomes(n, e)
    <3>1. \A c \in Contents : File(c) \in Entries
      BY EntryKinds DEF SetUp
    <3> QED
      BY <1>15, <3>1, EntryKinds DEF Others
  <2> QED
    BY <2>1, OthersRead
<1> QED
  BY <1>3, <1>4, <1>5, <1>6, <1>7, <1>8, <1>9, <1>10, <1>11, <1>12, <1>13, <1>14, <1>15
     DEF Next, Tool

-----------------------------------------------------------------------------
(* file_write.                                                             *)

\* A step by others while a file is written.
LEMMA OthersWrite ==
  ASSUME SetUp, TypeInv, ToolInv, WriteInv, NEW n \in Nodes, NEW e \in Entries, Becomes(n, e)
  PROVE  WriteInv'
<1>1. /\ at # "done" /\ disk' = [disk EXCEPT ![n] = e]
      /\ linked' = (linked /\ (n = args.path => IsFile(e) /\ IsFile(disk[n])))
      /\ file' = IF n = args.path /\ linked' THEN e.data ELSE file
      /\ seen'.same = seen.same \ {n}
      /\ UNCHANGED <<args, at, size, got, answer>> /\ Path' = Path
  <2>1. seen' = [seen EXCEPT !.held = IF n = args.path THEN @ \cup {e.data} ELSE @,
                             !.same = @ \ {n},
                             !.ever = IF e # None THEN @ \cup {n} ELSE @]
    BY DEF Becomes
  <2> QED
    BY <2>1 DEF Becomes, call, Path
<1>2. /\ disk \in [Nodes -> Entries] /\ disk'[n] = e
      /\ \A m \in Nodes : m # n => disk'[m] = disk[m]
  BY <1>1 DEF TypeInv, IsTree
<1>3. answer # "written"
  BY <1>1 DEF ToolInv
<1>4. CASE at # "write"
  BY <1>1, <1>3, <1>4 DEF WriteInv
<1>5. CASE at = "write"
  <2>1. /\ Path \in Nodes /\ Path = args.path /\ Path # Cwd /\ Begins(got, Data)
        /\ linked => IsFile(disk[Path])
        /\ Path \in seen.same => linked /\ file = got /\ disk[Path] = File(got)
    BY <1>5 DEF WriteInv, ToolInv, SetUp
  <2>2. linked' => IsFile(disk'[Path])
    BY <1>1, <1>2, <2>1
  <2>3. ASSUME Path \in seen'.same
        PROVE  linked' /\ file' = got /\ disk'[Path] = File(got)
    BY <1>1, <1>2, <2>1, <2>3
  <2> QED
    BY <1>1, <1>3, <2>1, <2>2, <2>3 DEF WriteInv, Begins
<1> QED
  BY <1>4, <1>5

\* A piece put behind the end of what has been written.
LEMMA OverlaidEnd ==
  ASSUME NEW S, NEW g \in Seq(S), NEW piece \in Seq(S)
  PROVE  Overlaid(g, Len(g), piece) = g \o piece
<1> DEFINE k == Len(g)
           l == Len(piece)
<1>1. k \in Nat /\ l \in Nat /\ DOMAIN g = 1..k /\ k = Len(g) /\ l = Len(piece)
  OBVIOUS
<1> HIDE DEF k, l
<1>2. Max({k, k + l}) = k + l
  <2>1. k + l \in Nat /\ k <= k + l
    BY <1>1
  <2>2. Max({k, k + l}) = IF k <= k + l THEN k + l ELSE k
    BY <1>1, <2>1, GreatestOfTwo
  <2> QED
    BY <2>1, <2>2
<1>3. Overlaid(g, k, piece) =
        [i \in 1..(k + l) |-> CASE i \in (k + 1)..(k + l) -> piece[i - k]
                                [] i \in DOMAIN g -> g[i]
                                [] OTHER -> "hole"]
  BY <1>1, <1>2 DEF Overlaid
<1>4. /\ g \o piece \in Seq(S) /\ Len(g \o piece) = k + l
      /\ \A i \in 1..k : (g \o piece)[i] = g[i]
      /\ \A i \in 1..l : (g \o piece)[k + i] = piece[i]
  BY <1>1
<1>5. ASSUME NEW i \in 1..(k + l)
      PROVE  Overlaid(g, k, piece)[i] = (g \o piece)[i]
  <2>1. CASE i \in 1..k
    <3>1. i \notin (k + 1)..(k + l)
      BY <1>1, <2>1
    <3> QED
      BY <1>1, <1>3, <1>4, <1>5, <2>1, <3>1
  <2>2. CASE i \notin 1..k
    <3>1. i - k \in 1..l /\ k + (i - k) = i /\ i \in (k + 1)..(k + l)
      BY <1>1, <2>2
    <3>2. Overlaid(g, k, piece)[i] = piece[i - k]
      BY <1>1, <1>3, <1>5, <2>2, <3>1
    <3> QED
      BY <1>4, <3>1, <3>2
  <2> QED
    BY <2>1, <2>2
<1>6. Overlaid(g, k, piece) = [i \in 1..(k + l) |-> Overlaid(g, k, piece)[i]]
  <2> DEFINE F(i) == CASE i \in (k + 1)..(k + l) -> piece[i - k]
                       [] i \in DOMAIN g -> g[i]
                       [] OTHER -> "hole"
  <2>1. Overlaid(g, k, piece) = [i \in 1..(k + l) |-> F(i)]
    BY <1>3
  <2> HIDE DEF F
  <2> QED
    BY <2>1
<1>7. g \o piece = [i \in 1..(k + l) |-> (g \o piece)[i]]
  <2> DEFINE cat == g \o piece
  <2>1. cat \in Seq(S) /\ Len(cat) = k + l
    BY <1>4
  <2> HIDE DEF cat
  <2>2. cat = [i \in 1..(k + l) |-> cat[i]]
    BY <2>1
  <2> QED
    BY <2>2 DEF cat
<1>8. [i \in 1..(k + l) |-> Overlaid(g, k, piece)[i]] = [i \in 1..(k + l) |-> (g \o piece)[i]]
  BY <1>5, Zenon
<1>9. Overlaid(g, k, piece) = g \o piece
  BY <1>6, <1>7, <1>8, Zenon
<1> QED
  BY <1>1, <1>9

\* What has been written is in the file, unless others have touched it.
LEMMA NextWrite ==
  ASSUME SetUp, TypeInv, ToolInv, WriteInv, [Next]_files
  PROVE  WriteInv'
<1>1. args' = args /\ Path' = Path
  BY PathStays
<1>2. ASSUME at' # "write", answer' # "written"
      PROVE  WriteInv'
  BY <1>2 DEF WriteInv
<1>3. CASE UNCHANGED files
  BY <1>1, <1>3 DEF WriteInv, files, call, world, Begins
<1>4. CASE OpenWrite
  <2>1. CASE at' = "done"
    BY <1>2, <1>4, <2>1 DEF OpenWrite, Answer
  <2>2. CASE at' # "done"
    <3>1. /\ at = "start" /\ args.tool = "write" /\ Path \in Permitted
          /\ Path # Cwd /\ answer' = answer /\ got' = got
          /\ disk' = [disk EXCEPT ![Path] = File(<<>>)] /\ file' = <<>> /\ linked' = TRUE
      BY <1>4, <2>2 DEF OpenWrite, Calls, Answer
    <3>2. Path = args.path
      BY <3>1 DEF Path
    <3>3. got = <<>> /\ answer # "written" /\ Path \in Nodes
      BY <3>1 DEF ToolInv, SetUp
    <3>4. disk'[Path] = File(<<>>) /\ IsFile(disk'[Path])
      <4>1. disk'[Path] = File(<<>>)
        BY <3>1, <3>3 DEF TypeInv, IsTree
      <4> QED
        BY <4>1 DEF IsFile, File, Entry
    <3>5. Begins(got', Data)
      <4>1. Len(<<>>) = 0 /\ Len(Data) \in Nat
        BY DEF SetUp
      <4> QED
        BY <3>1, <3>3, <4>1 DEF Begins
    <3> QED
      BY <1>1, <3>1, <3>2, <3>3, <3>4, <3>5 DEF WriteInv, Begins
  <2> QED
    BY <2>1, <2>2
<1>5. CASE Write
  <2> DEFINE m     == Min({Len(Data), Len(got) + Chunk})
             piece == SubSeq(Data, Len(got) + 1, m)
  <2>1. /\ at = "write" /\ at' = at /\ piece # <<>>
        /\ got' = got \o piece
        /\ file' = Overlaid(file, Len(got), piece)
        /\ disk' = IF linked THEN [disk EXCEPT ![Path] = File(file')] ELSE disk
        /\ UNCHANGED <<answer, linked, seen>>
    BY <1>5 DEF Write
  <2>2. /\ Data \in Seq(Bytes) /\ got \in Seq(Bytes) /\ Chunk \in Nat
        /\ Len(Data) \in Nat /\ Len(got) \in Nat
    BY DEF TypeInv, SetUp
  <2>3. m \in Nat /\ m <= Len(Data)
    <3>1. Len(got) + Chunk \in Nat
      BY <2>2
    <3> QED
      BY <2>2, <3>1, LeastOfTwo
  <2> HIDE DEF m
  <2>4. /\ piece \in Seq(Bytes)
        /\ Len(got) < m /\ Len(got \o piece) = m
        /\ \A i \in 1..Len(got) : (got \o piece)[i] = got[i]
        /\ \A i \in 1..m : i > Len(got) => (got \o piece)[i] = Data[i]
    <3>1. piece = SubSeq(Data, Len(got) + 1, m)
      OBVIOUS
    <3> QED
      BY <2>1, <2>2, <2>3, <3>1, PieceFollows
  <2> HIDE DEF piece
  <2>5. /\ Path \in Nodes /\ Path = args.path /\ Path # Cwd /\ Begins(got, Data)
        /\ linked => IsFile(disk[Path])
        /\ Path \in seen.same => linked /\ file = got /\ disk[Path] = File(got)
        /\ answer # "written"
    BY <2>1 DEF WriteInv, ToolInv, SetUp
  <2>6. Begins(got', Data)
    <3>1. \A i \in 1..m : i > Len(got) \/ i \in 1..Len(got)
      BY <2>2, <2>3
    <3>2. \A i \in 1..Len(got) : got[i] = Data[i]
      BY <2>5 DEF Begins
    <3>3. \A i \in 1..m : got'[i] = Data[i]
      BY <2>1, <2>4, <3>1, <3>2
    <3> QED
      BY <2>1, <2>3, <2>4, <3>3 DEF Begins
  <2>7. linked => disk'[Path] = File(file')
    BY <2>1, <2>5 DEF TypeInv, IsTree
  <2>8. linked' => IsFile(disk'[Path])
    BY <2>1, <2>7 DEF IsFile, File, Entry
  <2>9. Path \in seen'.same => linked' /\ file' = got' /\ disk'[Path] = File(got')
    <3> HAVE Path \in seen'.same
    <3>1. Overlaid(got, Len(got), piece) = got \o piece
      BY <2>2, <2>4, OverlaidEnd
    <3>2. linked /\ file = got
      BY <2>1, <2>5
    <3>3. file' = got'
      BY <2>1, <3>1, <3>2
    <3>4. disk'[Path] = File(got')
      BY <2>7, <3>2, <3>3
    <3>5. linked'
      <4>1. linked' = linked
        BY <2>1
      <4> QED
        BY <3>2, <4>1, Zenon
    <3> QED
      BY <3>3, <3>4, <3>5
  <2> QED
    BY <1>1, <2>1, <2>5, <2>6, <2>8, <2>9 DEF WriteInv, Begins
<1>6. CASE CloseWrite
  <2>1. /\ at = "write" /\ at' = "done" /\ seen' = [seen EXCEPT !.failed = got # Data]
        /\ disk' = disk
    BY <1>6 DEF CloseWrite, Answer
  <2>2. Path \in seen.same => disk[Path] = File(got)
    BY <2>1 DEF WriteInv
  <2>3. /\ seen'.same = seen.same
        /\ seen'.failed <=> got # Data
    <3> DEFINE differs == got # Data
    <3>1. "failed" \in DOMAIN seen
      BY DEF TypeInv
    <3>2. seen' = [seen EXCEPT !.failed = differs]
      BY <2>1
    <3> HIDE DEF differs
    <3>3. seen'.same = seen.same /\ seen'.failed = differs
      BY <3>1, <3>2
    <3> QED
      BY <3>3 DEF differs
  <2> QED
    BY <1>1, <2>1, <2>2, <2>3 DEF WriteInv
<1>7. CASE Refuse
  BY <1>2, <1>7 DEF Refuse, Answer
<1>8. CASE Stat
  BY <1>2, <1>8 DEF Stat, Answer, Calls, ToolInv
<1>9. CASE OpenRead
  BY <1>2, <1>9 DEF OpenRead, Answer, ToolInv
<1>10. CASE Read
  <2>1. at = "read" /\ \/ at' = at /\ answer' = answer
                       \/ at' = "done" /\ answer' = "content"
    BY <1>10 DEF Read, Answer
  <2> QED
    BY <1>2, <2>1 DEF ToolInv
<1>11. CASE Delete
  BY <1>2, <1>11 DEF Delete, Calls, Answer
<1>12. CASE OpenDir
  <2>1. at' \in {"walk", "done"} /\ answer' # "written"
    BY <1>12 DEF OpenDir, Calls, Answer, ToolInv
  <2> QED
    BY <1>2, <2>1
<1>13. CASE CloseDir
  <2>1. at' \in {"walk", "done"} /\ answer' # "written"
    BY <1>13 DEF CloseDir, Answer, ToolInv
  <2> QED
    BY <1>2, <2>1
<1>14. ASSUME NEW n, ListEntry(n) \/ SearchEntry(n)
       PROVE  WriteInv'
  <2>1. at' = "walk" /\ answer' # "written"
    BY <1>14 DEF ListEntry, SearchEntry, Returned, ToolInv
  <2> QED
    BY <1>2, <2>1
<1>15. CASE Others
  <2>1. \E n \in Nodes : \E e \in Entries : Becomes(n, e)
    <3>1. \A c \in Contents : File(c) \in Entries
      BY EntryKinds DEF SetUp
    <3> QED
      BY <1>15, <3>1, EntryKinds DEF Others
  <2> QED
    BY <2>1, OthersWrite
<1> QED
  BY <1>3, <1>4, <1>5, <1>6, <1>7, <1>8, <1>9, <1>10, <1>11, <1>12, <1>13, <1>14, <1>15
     DEF Next, Tool

-----------------------------------------------------------------------------
(* The walks.                                                              *)

\* A directory that is open.
Walked == [was : SUBSET Nodes, due : SUBSET Nodes]

\* The directories that are open once an entry has been returned.
LEMMA EntryPasses ==
  ASSUME TypeInv, NEW n \in Nodes, Returned(n), NEW k, k = Len(stack)
  PROVE  /\ k \in Nat \ {0} /\ DOMAIN stack = 1..k
         /\ Passed(n) \in Seq(Walked) /\ Len(Passed(n)) = k
         /\ \A i \in 1..k : Passed(n)[i].was = stack[i].was
         /\ \A i \in 1..k : i # k => Passed(n)[i] = stack[i]
         /\ Passed(n)[k].due = stack[k].due \ {n}
         /\ n \in stack[k].due /\ (disk[n] # None \/ n \in stack[k].was)
<1>1. /\ stack \in Seq(Walked) /\ stack # <<>>
      /\ n \in stack[k].due /\ (disk[n] # None \/ n \in stack[k].was)
  BY DEF TypeInv, Walked, Returned, Top
<1>2. k \in Nat \ {0} /\ DOMAIN stack = 1..k
  <2> HIDE DEF Walked
  <2> QED
    BY <1>1
<1>3. \A i \in 1..k : stack[i] \in Walked
  BY <1>1, <1>2
<1> DEFINE e == [stack[k] EXCEPT !.due = @ \ {n}]
<1>4. e \in Walked /\ e.was = stack[k].was /\ e.due = stack[k].due \ {n}
  BY <1>2, <1>3 DEF Walked
<1> HIDE DEF e
<1>5. Passed(n) = [stack EXCEPT ![k] = e]
  BY DEF Passed, e
<1>6. Passed(n) \in Seq(Walked) /\ Len(Passed(n)) = k
  <2> HIDE DEF Walked
  <2> QED
    BY <1>1, <1>2, <1>4, <1>5
<1>7. Passed(n)[k] = e /\ \A i \in 1..k : i # k => Passed(n)[i] = stack[i]
  BY <1>2, <1>5
<1> QED
  BY <1>1, <1>2, <1>4, <1>6, <1>7

\* The directories that are open once another has been opened.
LEMMA DirOpens ==
  ASSUME NEW s \in Seq(Walked), NEW d \in Nodes
  PROVE  /\ Opened(d) \in Walked
         /\ Append(s, Opened(d)) \in Seq(Walked)
         /\ Len(Append(s, Opened(d))) = Len(s) + 1
         /\ Append(s, Opened(d))[Len(s) + 1] = Opened(d)
         /\ \A i \in 1..Len(s) : Append(s, Opened(d))[i] = s[i]
<1>1. Opened(d) \in Walked
  BY DEF Opened, There, Children, Walked
<1> HIDE DEF Walked
<1> QED
  BY <1>1

\* A walk finds only names that there have been.
LEMMA NextWalk ==
  ASSUME SetUp, TypeInv, ToolInv, WalkInv, [Next]_files
  PROVE  WalkInv'
<1>1. args' = args
  BY PathStays
<1>2. CASE args.tool \notin {"list", "search"}
  BY <1>1, <1>2 DEF WalkInv
<1>3. ASSUME UNCHANGED <<disk, seen, stack, found>>
      PROVE  WalkInv'
  BY <1>1, <1>3 DEF WalkInv
<1>4. CASE UNCHANGED files
  BY <1>3, <1>4 DEF files, call, world
<1>5. CASE Refuse
  BY <1>3, <1>5 DEF Refuse, world
<1>6. CASE Stat \/ OpenRead \/ Read \/ OpenWrite \/ Write \/ CloseWrite \/ Delete
  <2>1. args.tool \notin {"list", "search"}
    BY <1>6 DEF Stat, OpenRead, Read, OpenWrite, Write, CloseWrite, Delete, Calls, ToolInv
  <2> QED
    BY <1>2, <2>1
<1> SUFFICES ASSUME args.tool \in {"list", "search"}
             PROVE  WalkInv'
  BY <1>2
<1>7. /\ {n \in Nodes : disk[n] # None} \subseteq seen.ever
      /\ \A i \in DOMAIN stack : stack[i].was \subseteq seen.ever
      /\ found \subseteq seen.ever
  BY DEF WalkInv
<1>8. \A d : Opened(d).was \subseteq seen.ever
  BY <1>7 DEF Opened, There, Children
<1>9. CASE OpenDir
  <2>1. stack' = stack \/ stack' = <<Opened(Path)>>
    BY <1>9 DEF OpenDir
  <2>2. UNCHANGED <<disk, seen, found>>
    BY <1>9 DEF OpenDir, world
  <2>3. CASE stack' = stack
    BY <1>3, <2>2, <2>3
  <2>4. CASE stack' = <<Opened(Path)>>
    <3> DEFINE o == Opened(Path)
    <3>1. o.was \subseteq seen.ever /\ stack' = <<o>>
      BY <1>8, <2>4
    <3> HIDE DEF o
    <3>2. \A i \in DOMAIN stack' : stack'[i].was \subseteq seen.ever
      BY <3>1
    <3> QED
      BY <1>1, <1>7, <2>2, <3>2 DEF WalkInv
  <2> QED
    BY <2>1, <2>3, <2>4
<1>10. CASE CloseDir
  <2>1. stack' = SubSeq(stack, 1, Len(stack) - 1) /\ UNCHANGED <<disk, seen, found>>
    BY <1>10 DEF CloseDir, world
  <2>2. stack \in Seq(Walked) /\ stack # <<>>
    BY <1>10 DEF TypeInv, Walked, CloseDir, ToolInv
  <2>3. \A i \in DOMAIN stack' : i \in DOMAIN stack /\ stack'[i] = stack[i]
    <3> HIDE DEF Walked
    <3>1. Len(stack) \in Nat /\ Len(stack) # 0 /\ DOMAIN stack = 1..Len(stack)
      BY <2>2
    <3> QED
      BY <2>1, <2>2, <3>1
  <2> QED
    BY <1>1, <1>7, <2>1, <2>3 DEF WalkInv
<1>11. ASSUME NEW n \in Nodes, Returned(n), UNCHANGED <<disk, seen>>,
              stack' = Passed(n) \/ stack' = Append(Passed(n), Opened(n)),
              found' = found \/ found' = found \cup {n}
       PROVE  WalkInv'
  <2> DEFINE k == Len(stack)
  <2>1. /\ k \in Nat \ {0} /\ DOMAIN stack = 1..k
        /\ Passed(n) \in Seq(Walked) /\ Len(Passed(n)) = k
        /\ \A i \in 1..k : Passed(n)[i].was = stack[i].was
        /\ disk[n] # None \/ n \in stack[k].was
    BY <1>11, EntryPasses
  <2> HIDE DEF k, Walked
  <2>2. n \in seen.ever
    BY <1>7, <2>1
  <2>3. \A i \in DOMAIN stack' : stack'[i].was \subseteq seen.ever
    <3>1. CASE stack' = Passed(n)
      BY <1>7, <2>1, <3>1
    <3>2. CASE stack' = Append(Passed(n), Opened(n))
      <4>1. /\ Append(Passed(n), Opened(n)) \in Seq(Walked)
            /\ Len(Append(Passed(n), Opened(n))) = k + 1
            /\ Append(Passed(n), Opened(n))[k + 1] = Opened(n)
            /\ \A i \in 1..k : Append(Passed(n), Opened(n))[i] = Passed(n)[i]
        BY <2>1, DirOpens
      <4>2. DOMAIN stack' = 1..(k + 1) /\ stack'[k + 1].was \subseteq seen.ever
        BY <1>8, <2>1, <3>2, <4>1
      <4>3. \A i \in 1..k : stack'[i].was \subseteq seen.ever
        BY <1>7, <2>1, <3>2, <4>1
      <4>4. \A i \in 1..(k + 1) : i = k + 1 \/ i \in 1..k
        BY <2>1
      <4> QED
        BY <4>2, <4>3, <4>4
    <3> QED
      BY <1>11, <3>1, <3>2
  <2> QED
    BY <1>1, <1>7, <1>11, <2>2, <2>3 DEF WalkInv
<1>12. ASSUME NEW n \in Nodes, ListEntry(n)
       PROVE  WalkInv'
  BY <1>11, <1>12 DEF ListEntry, world
<1>13. ASSUME NEW n \in Nodes, SearchEntry(n)
       PROVE  WalkInv'
  <2>1. Returned(n) /\ UNCHANGED <<disk, seen>>
    BY <1>13 DEF SearchEntry, world
  <2>2. stack' = Passed(n) \/ stack' = Append(Passed(n), Opened(n))
    BY <1>13 DEF SearchEntry
  <2>3. found' = found \/ found' = found \cup {n}
    BY <1>13 DEF SearchEntry
  <2> QED
    BY <1>11, <2>1, <2>2, <2>3
<1>14. ASSUME NEW n \in Nodes, NEW e \in Entries, Becomes(n, e)
       PROVE  WalkInv'
  <2>1. /\ disk' = [disk EXCEPT ![n] = e] /\ UNCHANGED <<stack, found>>
        /\ seen'.ever = IF e # None THEN seen.ever \cup {n} ELSE seen.ever
    <3>1. seen' = [seen EXCEPT !.held = IF n = args.path THEN @ \cup {e.data} ELSE @,
                               !.same = @ \ {n},
                               !.ever = IF e # None THEN @ \cup {n} ELSE @]
      BY <1>14 DEF Becomes
    <3>2. "ever" \in DOMAIN seen
      BY DEF TypeInv
    <3> QED
      BY <1>14, <3>1, <3>2 DEF Becomes, call
  <2>2. {m \in Nodes : disk'[m] # None} \subseteq seen'.ever
    <3>1. disk'[n] = e /\ \A m \in Nodes : m # n => disk'[m] = disk[m]
      BY <2>1 DEF TypeInv, IsTree
    <3> QED
      BY <1>7, <2>1, <3>1
  <2> QED
    BY <1>1, <1>7, <2>1, <2>2 DEF WalkInv
<1>15. CASE Others
  <2>1. \E n \in Nodes : \E e \in Entries : Becomes(n, e)
    <3>1. \A c \in Contents : File(c) \in Entries
      BY EntryKinds DEF SetUp
    <3> QED
      BY <1>15, <3>1, EntryKinds DEF Others
  <2> QED
    BY <1>14, <2>1
<1> QED
  BY <1>4, <1>5, <1>6, <1>9, <1>10, <1>12, <1>13, <1>15 DEF Next, Tool

\* file_list: a name that does not change is found if it is there.
LEMMA NextList ==
  ASSUME SetUp, TypeInv, ToolInv, ListInv, [Next]_files
  PROVE  ListInv'
<1>1. args' = args /\ Path' = Path
  BY PathStays
<1>2. CASE args.tool # "list"
  BY <1>1, <1>2 DEF ListInv
<1>3. CASE UNCHANGED files
  BY <1>1, <1>3 DEF ListInv, files, call, world
<1>4. CASE Stat \/ OpenRead \/ Read \/ OpenWrite \/ Write \/ CloseWrite \/ Delete
  <2>1. args.tool # "list"
    BY <1>4 DEF Stat, OpenRead, Read, OpenWrite, Write, CloseWrite, Delete, Calls, ToolInv
  <2> QED
    BY <1>2, <2>1
<1> SUFFICES ASSUME args.tool = "list"
             PROVE  ListInv'
  BY <1>2
<1>5. CASE Refuse
  BY <1>1, <1>5 DEF ListInv, Refuse, Answer
<1>6. CASE OpenDir
  <2>1. CASE disk[Path] # Dir
    BY <1>1, <1>6, <2>1 DEF ListInv, OpenDir, Answer
  <2>2. CASE disk[Path] = Dir
    <3>1. /\ stack' = <<Opened(Path)>> /\ answer' = answer /\ at = "start"
          /\ found' = found /\ disk' = disk /\ seen' = seen
      BY <1>6, <2>2 DEF OpenDir, world, Calls
    <3>2. answer = "none" /\ found = {}
      BY <3>1 DEF ToolInv
    <3> DEFINE o == Opened(Path)
    <3>3. o.was = There(Path) /\ o.due = Children(Path)
      BY DEF Opened
    <3>4. Len(stack') = 1 /\ stack'[1] = o
      BY <3>1
    <3> HIDE DEF o
    <3>5. \A n \in Children(Path) \cap seen.same :
            /\ n \in o.was <=> disk[n] # None
            /\ n \in o.due
      BY <3>3 DEF There
    <3> QED
      BY <1>1, <3>1, <3>2, <3>4, <3>5 DEF ListInv, Children
  <2> QED
    BY <2>1, <2>2
<1>7. CASE CloseDir
  <2>1. /\ at = "walk" /\ \A n \in Top.due \cap Top.was : disk[n] = None
        /\ IF Len(stack) > 1 THEN UNCHANGED <<at, answer>>
           ELSE at' = "done" /\ answer' = "entries"
        /\ UNCHANGED <<found, disk, seen>>
    BY <1>7 DEF CloseDir, Answer, world
  <2>2. /\ Len(stack) = 1
        /\ \A n \in Children(Path) \cap seen.same :
             /\ n \in stack[1].was <=> disk[n] # None
             /\ n \in found => disk[n] # None
             /\ n \in found \/ n \in stack[1].due
    BY <2>1 DEF ListInv
  <2>3. Top = stack[1] /\ at' = "done"
    BY <2>1, <2>2 DEF Top
  <2>4. \A n \in Children(Path) \cap seen.same : n \in found <=> disk[n] # None
    BY <2>1, <2>2, <2>3
  <2> QED
    BY <1>1, <2>1, <2>3, <2>4 DEF ListInv, Children
<1>8. ASSUME NEW n \in Nodes, ListEntry(n)
      PROVE  ListInv'
  <2>1. /\ Returned(n) /\ at = "walk" /\ stack' = Passed(n) /\ found' = found \cup {n}
        /\ UNCHANGED <<at, answer, disk, seen>>
    BY <1>8 DEF ListEntry, Returned, world
  <2>2. /\ answer = "none" /\ Len(stack) = 1
        /\ \A m \in Children(Path) \cap seen.same :
             /\ m \in stack[1].was <=> disk[m] # None
             /\ m \in found => disk[m] # None
             /\ m \in found \/ m \in stack[1].due
    BY <2>1 DEF ListInv, ToolInv
  <2>3. /\ Len(Passed(n)) = 1 /\ Passed(n)[1].was = stack[1].was
        /\ Passed(n)[1].due = stack[1].due \ {n}
        /\ disk[n] # None \/ n \in stack[1].was
    <3> DEFINE k == Len(stack)
    <3>1. /\ Len(Passed(n)) = k /\ Passed(n)[k].due = stack[k].due \ {n}
          /\ \A i \in 1..k : Passed(n)[i].was = stack[i].was
          /\ disk[n] # None \/ n \in stack[k].was
      BY <2>1, EntryPasses
    <3>2. k = 1
      BY <2>2
    <3> HIDE DEF k
    <3> QED
      BY <3>1, <3>2
  <2>4. \A m \in Children(Path) \cap seen.same :
          /\ m \in Passed(n)[1].was <=> disk[m] # None
          /\ m \in found \cup {n} => disk[m] # None
          /\ m \in found \cup {n} \/ m \in Passed(n)[1].due
    BY <2>2, <2>3
  <2> QED
    BY <1>1, <2>1, <2>2, <2>3, <2>4 DEF ListInv, Children
<1>9. ASSUME NEW n, SearchEntry(n)
      PROVE  FALSE
  BY <1>9 DEF SearchEntry
<1>10. ASSUME NEW n \in Nodes, NEW e \in Entries, Becomes(n, e)
       PROVE  ListInv'
  <2>1. /\ disk' = [disk EXCEPT ![n] = e] /\ UNCHANGED <<stack, found, at, answer>>
        /\ seen'.same = seen.same \ {n} /\ at # "done"
    <3>1. seen' = [seen EXCEPT !.held = IF n = args.path THEN @ \cup {e.data} ELSE @,
                               !.same = @ \ {n},
                               !.ever = IF e # None THEN @ \cup {n} ELSE @]
      BY <1>10 DEF Becomes
    <3>2. "same" \in DOMAIN seen
      BY DEF TypeInv
    <3> QED
      BY <1>10, <3>1, <3>2 DEF Becomes, call
  <2>2. answer # "entries"
    BY <2>1 DEF ToolInv
  <2>3. \A m \in Children(Path) \cap seen'.same : m \in seen.same /\ disk'[m] = disk[m]
    BY <2>1 DEF TypeInv, IsTree, Children
  <2>4. at = "walk" =>
          /\ Len(stack) = 1
          /\ \A m \in Children(Path) \cap seen'.same :
               /\ m \in stack[1].was <=> disk'[m] # None
               /\ m \in found => disk'[m] # None
               /\ m \in found \/ m \in stack[1].due
    BY <2>3 DEF ListInv
  <2> QED
    BY <1>1, <2>1, <2>2, <2>4 DEF ListInv, Children
<1>11. CASE Others
  <2>1. \E n \in Nodes : \E e \in Entries : Becomes(n, e)
    <3>1. \A c \in Contents : File(c) \in Entries
      BY EntryKinds DEF SetUp
    <3> QED
      BY <1>11, <3>1, EntryKinds DEF Others
  <2> QED
    BY <1>10, <2>1
<1> QED
  BY <1>3, <1>4, <1>5, <1>6, <1>7, <1>8, <1>9, <1>11 DEF Next, Tool

-----------------------------------------------------------------------------
(* The way up from a name.                                                 *)

\* A function on the numbers up to N that starts at v and goes on from each value to the
\* next.
GoesOn(V, v, G, N) ==
  \E f \in [0..N -> V] : f[0] = v /\ \A k \in 1..N : f[k] = G[f[k - 1]]

\* There is one.
LEMMA StepsGoOn ==
  ASSUME NEW V, NEW v \in V, NEW G \in [V -> V], NEW N \in Nat
  PROVE  GoesOn(V, v, G, N)
<1> DEFINE Goes(n) == \E f \in [0..n -> V] : f[0] = v /\ \A k \in 1..n : f[k] = G[f[k - 1]]
           Bad     == {n \in Nat : ~Goes(n)}
<1>1. Goes(0)
  <2> DEFINE f == [k \in 0..0 |-> v]
  <2>1. f \in [0..0 -> V] /\ f[0] = v /\ \A k \in 1..0 : f[k] = G[f[k - 1]]
    OBVIOUS
  <2> HIDE DEF f
  <2> QED
    BY <2>1
<1>2. ASSUME NEW n \in Nat, Goes(n)
      PROVE  Goes(n + 1)
  <2>1. PICK f \in [0..n -> V] : f[0] = v /\ \A k \in 1..n : f[k] = G[f[k - 1]]
    BY <1>2
  <2> DEFINE g == [k \in 0..(n + 1) |-> IF k = n + 1 THEN G[f[n]] ELSE f[k]]
  <2>2. \A k \in 0..(n + 1) : k = n + 1 \/ k \in 0..n
    OBVIOUS
  <2>3. f[n] \in V /\ G[f[n]] \in V
    OBVIOUS
  <2>4. g \in [0..(n + 1) -> V]
    BY <2>2, <2>3
  <2>5. g[n + 1] = G[f[n]]
    OBVIOUS
  <2>6. \A k \in 0..n : g[k] = f[k]
    OBVIOUS
  <2> HIDE DEF g
  <2>7. g[0] = v
    BY <2>1, <2>6
  <2>8. \A k \in 1..(n + 1) : g[k] = G[g[k - 1]]
    <3>1. TAKE k \in 1..(n + 1)
    <3>2. CASE k = n + 1
      <4>1. k - 1 = n /\ n \in 0..n
        BY <3>2
      <4> QED
        BY <2>5, <2>6, <3>2, <4>1
    <3>3. CASE k \in 1..n
      <4>1. k \in 0..n /\ k - 1 \in 0..n
        BY <3>3
      <4> QED
        BY <2>1, <2>6, <3>3, <4>1
    <3> QED
      BY <3>2, <3>3
  <2> QED
    BY <2>4, <2>7, <2>8
<1> SUFFICES Goes(N)
  BY DEF GoesOn
<1> HIDE DEF Goes
<1>3. CASE Bad = {}
  BY <1>3
<1>4. CASE Bad # {}
  <2>1. Bad \subseteq Nat
    OBVIOUS
  <2>2. Min(Bad) \in Bad /\ \A y \in Bad : Min(Bad) <= y
    BY <1>4, <2>1, LeastNumber
  <2> DEFINE m == Min(Bad)
  <2>3. m \in Nat /\ ~Goes(m) /\ \A y \in Nat : ~Goes(y) => m <= y
    BY <2>2
  <2> HIDE DEF m
  <2>4. m # 0
    BY <1>1, <2>3
  <2>5. m - 1 \in Nat /\ (m - 1) + 1 = m /\ ~(m <= m - 1)
    BY <2>3, <2>4
  <2>6. Goes(m - 1)
    BY <2>3, <2>5
  <2>7. Goes(m)
    BY <1>2, <2>5, <2>6
  <2> QED
    BY <2>3, <2>7
<1> QED
  BY <1>3, <1>4

\* The way up goes from a name to the directory it is in, and stays at the path and ".".
LEMMA WayUp ==
  ASSUME SetUp, NEW n \in Nodes
  PROVE  /\ Cardinality(Nodes) \in Nat
         /\ Way(n) \in [0..Cardinality(Nodes) -> Nodes]
         /\ Way(n)[0] = n
         /\ \A k \in 1..Cardinality(Nodes) :
              Way(n)[k] = IF Way(n)[k - 1] \in {Cwd, Path} THEN Way(n)[k - 1] ELSE Up[Way(n)[k - 1]]
<1> DEFINE N == Cardinality(Nodes)
           G == [m \in Nodes |-> IF m \in {Cwd, Path} THEN m ELSE Up[m]]
           Steps(f) == f = [k \in 0..N |-> IF k = 0 THEN n
                              ELSE IF f[k - 1] \in {Cwd, Path} THEN f[k - 1] ELSE Up[f[k - 1]]]
<1>1. N \in Nat
  BY FS_CardinalityType DEF SetUp
<1>2. G \in [Nodes -> Nodes] /\ \A m \in Nodes : G[m] = IF m \in {Cwd, Path} THEN m ELSE Up[m]
  BY DEF SetUp
<1> HIDE DEF N, G
<1>3. PICK f \in [0..N -> Nodes] : f[0] = n /\ \A k \in 1..N : f[k] = G[f[k - 1]]
  <2>1. G \in [Nodes -> Nodes]
    BY <1>2
  <2>2. GoesOn(Nodes, n, G, N)
    BY <1>1, <2>1, StepsGoOn
  <2> QED
    BY <2>2 DEF GoesOn
<1>4. \A k \in 0..N : k # 0 => k \in 1..N /\ k - 1 \in 0..N
  BY <1>1
<1>5. \A k \in 0..N : f[k] = IF k = 0 THEN n
                             ELSE IF f[k - 1] \in {Cwd, Path} THEN f[k - 1] ELSE Up[f[k - 1]]
  <2> TAKE k \in 0..N
  <2>1. CASE k = 0
    BY <1>3, <2>1
  <2>2. CASE k # 0
    <3>1. k \in 1..N /\ k - 1 \in 0..N
      BY <1>4, <2>2
    <3>2. f[k - 1] \in Nodes /\ f[k] = G[f[k - 1]]
      BY <1>3, <3>1
    <3> QED
      BY <1>2, <2>2, <3>2
  <2> QED
    BY <2>1, <2>2
<1>6. Steps(f)
  <2>1. f = [k \in 0..N |-> f[k]]
    OBVIOUS
  <2>2. [k \in 0..N |-> f[k]] = [k \in 0..N |-> IF k = 0 THEN n
                              ELSE IF f[k - 1] \in {Cwd, Path} THEN f[k - 1] ELSE Up[f[k - 1]]]
    BY <1>5, Zenon
  <2> QED
    BY <2>1, <2>2, Zenon
<1>7. Way(n) = CHOOSE g : Steps(g)
  BY DEF Way, N
<1> DEFINE w == Way(n)
<1>8. Steps(w)
  <2> HIDE DEF Steps
  <2> QED
    BY <1>6, <1>7
<1>9. /\ DOMAIN w = 0..N
      /\ \A k \in 0..N : w[k] = IF k = 0 THEN n
                                ELSE IF w[k - 1] \in {Cwd, Path} THEN w[k - 1] ELSE Up[w[k - 1]]
  <2> HIDE DEF w
  <2> QED
    BY <1>8
<1> HIDE DEF w, Steps
<1>10. w[0] = n /\ \A k \in 1..N : w[k] = IF w[k - 1] \in {Cwd, Path} THEN w[k - 1] ELSE Up[w[k - 1]]
  BY <1>1, <1>9
<1>11. \A k \in 0..N : w[k] = f[k]
  <2> DEFINE Bad == {k \in 0..N : w[k] # f[k]}
  <2> SUFFICES ASSUME Bad # {}
               PROVE  FALSE
    OBVIOUS
  <2>1. Bad \subseteq Nat
    BY <1>1
  <2>2. Min(Bad) \in Bad /\ \A y \in Bad : Min(Bad) <= y
    BY <2>1, LeastNumber
  <2> DEFINE m == Min(Bad)
  <2>3. m \in 0..N /\ w[m] # f[m] /\ \A y \in 0..N : w[y] # f[y] => m <= y
    BY <2>2
  <2> HIDE DEF m
  <2>4. m # 0
    BY <1>3, <1>10, <2>3
  <2>5. m \in 1..N /\ m - 1 \in 0..N /\ ~(m <= m - 1)
    BY <1>1, <2>3, <2>4
  <2>6. w[m - 1] = f[m - 1]
    BY <2>3, <2>5
  <2> QED
    BY <1>5, <1>10, <2>3, <2>5, <2>6
<1>12. w \in [0..N -> Nodes]
  <2>1. w = [k \in 0..N |-> w[k]]
    BY <1>8 DEF Steps
  <2>2. \A k \in 0..N : w[k] \in Nodes
    BY <1>11
  <2> QED
    BY <2>1, <2>2
<1> QED
  BY <1>1, <1>10, <1>12 DEF N, w

\* The way up from a file below the path: each name on it is there, a directory but for
\* the file, and lies in the next.
LEMMA BelowIsThere ==
  ASSUME SetUp, TypeInv, NEW n, NEW d, Below(n, d), disk[n] # None
  PROVE  /\ d \in Nat \ {0} /\ Path \in Nodes
         /\ \A k \in 0..d : Way(n)[k] \in Nodes
         /\ \A k \in 0..d : disk[Way(n)[k]] # None
         /\ \A k \in 1..d : /\ disk[Way(n)[k]] = Dir
                            /\ Way(n)[k - 1] \in Opened(Way(n)[k]).due \cap Opened(Way(n)[k]).was
                            /\ Way(n)[k - 1] # Cwd /\ Way(n)[k] = Up[Way(n)[k - 1]]
<1> DEFINE N == Cardinality(Nodes)
           w == Way(n)
<1>1. n \in Nodes /\ d \in 1..N /\ w[d] = Path /\ \A k \in 0..(d - 1) : w[k] # Path
  BY DEF Below
<1>2. /\ N \in Nat /\ w \in [0..N -> Nodes] /\ w[0] = n
      /\ \A k \in 1..N : w[k] = IF w[k - 1] \in {Cwd, Path} THEN w[k - 1] ELSE Up[w[k - 1]]
  BY <1>1, WayUp
<1> HIDE DEF N, w
<1>3. d \in Nat \ {0} /\ \A k \in 0..d : k \in 0..N
  BY <1>1, <1>2
<1>4. \A k \in 0..d : w[k] \in Nodes
  BY <1>2, <1>3
<1>5. \A k \in 1..d : k \in 1..N /\ k - 1 \in 0..(d - 1) /\ k - 1 \in 0..d
  BY <1>1, <1>2
\* "." would be the end of the way.
<1>6. \A k \in 0..(d - 1) : w[k] # Cwd
  <2> SUFFICES ASSUME NEW j \in 0..(d - 1), w[j] = Cwd
               PROVE  FALSE
    OBVIOUS
  <2> DEFINE Bad == {k \in 0..d : k > j /\ w[k] # Cwd}
  <2>1. d \in Bad
    <3>1. d > j /\ d \in 0..d
      BY <1>3
    <3>2. w[d] # Cwd
      BY <1>1
    <3> QED
      BY <3>1, <3>2
  <2>2. Bad \subseteq Nat
    BY <1>3
  <2>3. Min(Bad) \in Bad /\ \A y \in Bad : Min(Bad) <= y
    BY <2>1, <2>2, LeastNumber
  <2> DEFINE m == Min(Bad)
  <2>4. m \in 0..d /\ m > j /\ w[m] # Cwd /\ \A y \in 0..d : y > j /\ w[y] # Cwd => m <= y
    BY <2>3
  <2> HIDE DEF m, Bad
  <2>5. m \in 1..d /\ m - 1 \in 0..d /\ ~(m <= m - 1) /\ (m - 1 > j \/ m - 1 = j)
    BY <1>3, <2>4
  <2>6. w[m - 1] = Cwd
    BY <2>4, <2>5
  <2>7. w[m] = w[m - 1]
    BY <1>2, <1>5, <2>5, <2>6
  <2> QED
    BY <2>4, <2>6, <2>7
<1>7. \A k \in 1..d : w[k - 1] \in Nodes \ {Cwd} /\ w[k] = Up[w[k - 1]]
  <2> TAKE k \in 1..d
  <2>1. w[k - 1] # Path /\ w[k - 1] # Cwd /\ w[k - 1] \in Nodes
    BY <1>1, <1>4, <1>5, <1>6
  <2> QED
    BY <1>2, <1>5, <2>1
<1>8. \A k \in 0..d : disk[w[k]] # None
  <2> DEFINE Bad == {k \in 0..d : disk[w[k]] = None}
  <2> SUFFICES ASSUME Bad # {}
               PROVE  FALSE
    OBVIOUS
  <2>1. Bad \subseteq Nat
    BY <1>3
  <2>2. Min(Bad) \in Bad /\ \A y \in Bad : Min(Bad) <= y
    BY <2>1, LeastNumber
  <2> DEFINE m == Min(Bad)
  <2>3. m \in 0..d /\ disk[w[m]] = None /\ \A y \in 0..d : disk[w[y]] = None => m <= y
    BY <2>2
  <2> HIDE DEF m, Bad
  <2>4. m # 0
    BY <1>2, <2>3
  <2>5. m \in 1..d /\ m - 1 \in 0..d /\ ~(m <= m - 1)
    BY <1>3, <2>3, <2>4
  <2>6. disk[w[m - 1]] # None
    BY <2>3, <2>5
  <2>7. disk[w[m]] = Dir
    BY <1>7, <2>5, <2>6 DEF TypeInv, IsTree
  <2> QED
    BY <2>3, <2>7, EntryKinds
<1>9. \A k \in 1..d : disk[w[k]] = Dir
  <2> TAKE k \in 1..d
  <2>1. disk[w[k - 1]] # None
    BY <1>5, <1>8
  <2> QED
    BY <1>7, <2>1 DEF TypeInv, IsTree
<1>10. \A k \in 1..d : w[k - 1] \in Opened(w[k]).due \cap Opened(w[k]).was
  <2> TAKE k \in 1..d
  <2>1. w[k - 1] \in There(w[k]) /\ w[k - 1] \in Children(w[k])
    BY <1>5, <1>7, <1>8 DEF There, Children
  <2> QED
    BY <2>1 DEF Opened
<1>11. Path \in Nodes
  BY <1>1, <1>3, <1>4
<1> QED
  BY <1>3, <1>4, <1>7, <1>8, <1>9, <1>10, <1>11 DEF w

\* The names above one that is below the path are d + 1 at least.
LEMMA AboveAreMany ==
  ASSUME SetUp, TypeInv, NEW n, NEW d, Below(n, d), disk[n] # None
  PROVE  /\ d + 1 <= Cardinality(Above(n))
         /\ Cardinality(Above(n)) \in Nat
         /\ \A k \in 0..d : Way(n)[k] \in Above(n)
<1> DEFINE N == Cardinality(Nodes)
           w == Way(n)
           A == Above(n)
<1>1. n \in Nodes /\ d \in 1..N
  BY DEF Below
<1>2. N \in Nat /\ w \in [0..N -> Nodes]
  BY <1>1, WayUp
<1>3. A = {w[k] : k \in 0..N}
  BY DEF Above
<1>4. /\ d \in Nat \ {0}
      /\ \A k \in 1..d : w[k - 1] \in Nodes \ {Cwd} /\ w[k] = Up[w[k - 1]]
  <2>1. /\ d \in Nat \ {0} /\ \A k \in 0..d : w[k] \in Nodes
        /\ \A k \in 1..d : w[k - 1] # Cwd /\ w[k] = Up[w[k - 1]]
    BY BelowIsThere
  <2> HIDE DEF w
  <2>2. \A k \in 1..d : k - 1 \in 0..d
    BY <2>1
  <2> QED
    BY <2>1, <2>2
<1> HIDE DEF N, w, A
<1>5. IsFiniteSet(A) /\ Cardinality(A) \in Nat
  <2>1. A \in SUBSET Nodes
    BY <1>2, <1>3
  <2> QED
    BY <2>1, FS_Subset, FS_CardinalityType DEF SetUp
<1>6. \A k \in 0..d : k \in 0..N /\ w[k] \in A
  BY <1>1, <1>2, <1>3
<1>7. PICK depth \in [Nodes -> Nat] : \A m \in Nodes \ {Cwd} : depth[m] = depth[Up[m]] + 1
  BY DEF SetUp
\* Each name is as much deeper than the path as there are steps between them.
<1>8. \A k \in 0..d : depth[w[k]] + k = depth[w[0]]
  <2> DEFINE Bad == {k \in 0..d : depth[w[k]] + k # depth[w[0]]}
  <2> SUFFICES ASSUME Bad # {}
               PROVE  FALSE
    OBVIOUS
  <2>1. Bad \subseteq Nat
    BY <1>4
  <2>2. Min(Bad) \in Bad /\ \A y \in Bad : Min(Bad) <= y
    BY <2>1, LeastNumber
  <2> DEFINE m == Min(Bad)
  <2>3. /\ m \in 0..d /\ depth[w[m]] + m # depth[w[0]]
        /\ \A y \in 0..d : depth[w[y]] + y # depth[w[0]] => m <= y
    BY <2>2
  <2> HIDE DEF m, Bad
  <2>4. \A k \in 0..d : depth[w[k]] \in Nat
    BY <1>2, <1>6
  <2>5. m # 0
    <3>1. 0 \in 0..d
      BY <1>4
    <3> QED
      BY <2>3, <2>4, <3>1
  <2>6. m \in 1..d /\ m - 1 \in 0..d /\ ~(m <= m - 1)
    BY <1>4, <2>3, <2>5
  <2>7. depth[w[m - 1]] + (m - 1) = depth[w[0]]
    BY <2>3, <2>6
  <2>8. depth[w[m - 1]] = depth[w[m]] + 1
    BY <1>4, <1>7, <2>6
  <2> QED
    BY <2>3, <2>4, <2>6, <2>7, <2>8
<1>9. \A j, k \in 0..d : w[j] = w[k] => j = k
  <2> TAKE j, k \in 0..d
  <2> HAVE w[j] = w[k]
  <2>1. depth[w[k]] \in Nat /\ depth[w[k]] + j = depth[w[k]] + k
    BY <1>2, <1>6, <1>8
  <2> QED
    BY <2>1
<1> DEFINE f == [k \in 0..d |-> w[k]]
<1>10. f \in Injection(0..d, A)
  <2>1. f \in [0..d -> A]
    BY <1>6
  <2>2. \A j, k \in 0..d : f[j] = f[k] => j = k
    BY <1>9
  <2> HIDE DEF f
  <2> QED
    BY <2>1, <2>2 DEF Injection, IsInjective
<1>11. Cardinality(0..d) <= Cardinality(A)
  BY <1>5, <1>10, FS_Injection
<1>12. Cardinality(0..d) = d + 1
  <2>1. 0 \in Int /\ d \in Int /\ ~(0 > d)
    BY <1>4
  <2>2. Cardinality(0..d) = d - 0 + 1
    BY <2>1, FS_Interval
  <2> QED
    BY <2>1, <2>2
<1> QED
  BY <1>5, <1>6, <1>11, <1>12 DEF A, w

\* file_search: a file to be found stays found or due.
LEMMA NextSearch ==
  ASSUME SetUp, TypeInv, ToolInv, SearchInv, [Next]_files
  PROVE  SearchInv'
<1>1. args' = args /\ Path' = Path
  BY PathStays
<1>2. CASE args.tool # "search"
  BY <1>1, <1>2 DEF SearchInv
<1>3. Stat \/ OpenRead \/ Read \/ OpenWrite \/ Write \/ CloseWrite \/ Delete => args.tool # "search"
  BY DEF Stat, OpenRead, Read, OpenWrite, Write, CloseWrite, Delete, Calls, ToolInv
<1> SUFFICES ASSUME args.tool = "search", NEW n \in Nodes, NEW d \in 1..Cardinality(Nodes),
                    Sought(n, d)'
             PROVE  /\ at' = "walk" =>
                         \/ n \in found'
                         \/ \E i \in 1..d : /\ i \in DOMAIN stack'
                                            /\ Way(n)'[d - i] \in stack'[i].due \cap stack'[i].was
                    /\ answer' = "matches" => n \in found'
  BY <1>2 DEF SearchInv
<1> DEFINE w == Way(n)
<1>4. Way(n)' = w
  BY <1>1 DEF Way
<1>5. Below(n, d)
  BY <1>1, <1>4 DEF Sought, Below
<1>6. /\ n \in Matching /\ d - 1 <= MaxDepth /\ IsFile(disk'[n])
      /\ \A k \in 0..(d - 1) : w[k] \in seen'.same \ Hidden
  BY <1>4 DEF Sought
<1>7. w[0] = n
  BY WayUp
<1>8. d \in Nat \ {0} /\ d - 1 \in Nat /\ 0 \in 0..(d - 1)
  BY <1>5, FS_CardinalityType DEF SetUp
<1> HIDE DEF w
\* Nothing of the tool's own disturbs what is on the disk or seen.
<1>9. ASSUME UNCHANGED <<disk, seen>>
      PROVE  Sought(n, d)
  BY <1>5, <1>6, <1>9 DEF Sought, w
<1>10. ASSUME Sought(n, d)
       PROVE  /\ Path \in Nodes /\ disk[Path] = Dir
              /\ \A k \in 0..d : w[k] \in Nodes /\ disk[w[k]] # None
              /\ \A k \in 1..d : /\ disk[w[k]] = Dir
                                 /\ w[k - 1] \in Opened(w[k]).due \cap Opened(w[k]).was
              /\ \A k \in 0..(d - 1) : w[k] \notin Hidden
              /\ IsFile(disk[n]) /\ w[d] = Path
              /\ at = "walk" =>
                   \/ n \in found
                   \/ \E i \in 1..d : i \in DOMAIN stack /\ w[d - i] \in stack[i].due \cap stack[i].was
              /\ answer = "matches" => n \in found
  <2>1. IsFile(disk[n]) /\ w[d] = Path /\ \A k \in 0..(d - 1) : w[k] \notin Hidden
    BY <1>10 DEF Sought, Below, w
  <2>2. disk[n] # None
    BY <2>1, EntryKinds
  <2>3. /\ Path \in Nodes
        /\ \A k \in 0..d : w[k] \in Nodes
        /\ \A k \in 0..d : disk[w[k]] # None
        /\ \A k \in 1..d : /\ disk[w[k]] = Dir
                           /\ w[k - 1] \in Opened(w[k]).due \cap Opened(w[k]).was
    BY <1>5, <2>2, BelowIsThere DEF w
  <2>4. d \in 1..d
    BY <1>8
  <2>5. disk[Path] = Dir
    BY <2>1, <2>3, <2>4
  <2>6. /\ at = "walk" =>
             \/ n \in found
             \/ \E i \in 1..d : i \in DOMAIN stack /\ w[d - i] \in stack[i].due \cap stack[i].was
        /\ answer = "matches" => n \in found
    BY <1>10 DEF SearchInv, w
  <2> QED
    BY <2>1, <2>3, <2>5, <2>6
<1>11. CASE UNCHANGED files
  <2>1. Sought(n, d)
    BY <1>9, <1>11 DEF files, world
  <2> QED
    BY <1>4, <1>10, <1>11, <2>1 DEF files, call
<1>12. CASE Refuse
  BY <1>12 DEF Refuse, Answer
<1>13. CASE OpenDir
  <2>1. Sought(n, d)
    BY <1>9, <1>13 DEF OpenDir, world
  <2>2. stack' = <<Opened(Path)>> /\ answer' = answer /\ at = "start"
    BY <1>10, <1>13, <2>1 DEF OpenDir, Calls
  <2>3. answer = "none"
    BY <2>2 DEF ToolInv
  <2> DEFINE o == Opened(Path)
  <2>4. w[d - 1] \in o.due \cap o.was
    <3>1. d \in 1..d
      BY <1>8
    <3> QED
      BY <1>10, <2>1, <3>1
  <2> HIDE DEF o
  <2>5. 1 \in DOMAIN stack' /\ stack'[1] = o
    BY <2>2 DEF o
  <2>6. 1 \in 1..d
    BY <1>8
  <2> QED
    BY <1>4, <2>2, <2>3, <2>4, <2>5, <2>6
<1>14. CASE CloseDir
  <2>1. Sought(n, d)
    BY <1>9, <1>14 DEF CloseDir, world
  <2>2. /\ at = "walk" /\ \A m \in Top.due \cap Top.was : disk[m] = None
        /\ stack' = SubSeq(stack, 1, Len(stack) - 1)
        /\ IF Len(stack) > 1 THEN at' = at /\ answer' = answer ELSE at' = "done"
        /\ found' = found
    BY <1>14 DEF CloseDir, Answer
  <2>3. CASE n \in found
    BY <2>2, <2>3
  <2>4. CASE n \notin found
    <3>1. PICK i \in 1..d : i \in DOMAIN stack /\ w[d - i] \in stack[i].due \cap stack[i].was
      BY <1>10, <2>1, <2>2, <2>4
    <3>2. d - i \in 0..d
      BY <1>8
    <3>3. i # Len(stack)
      BY <1>10, <2>1, <2>2, <3>1, <3>2 DEF Top
    <3>4. stack \in Seq(Walked)
      BY DEF TypeInv, Walked
    <3> HIDE DEF Walked
    <3>5. Len(stack) \in Nat /\ i \in 1..(Len(stack) - 1) /\ Len(stack) > 1
      BY <3>1, <3>3, <3>4
    <3>6. i \in DOMAIN stack' /\ stack'[i] = stack[i]
      BY <2>2, <3>4, <3>5
    <3>7. answer' = "none"
      BY <2>2, <3>5 DEF ToolInv
    <3> QED
      BY <1>4, <3>1, <3>6, <3>7
  <2> QED
    BY <2>3, <2>4
<1>15. ASSUME NEW m, ListEntry(m)
       PROVE  FALSE
  BY <1>15 DEF ListEntry
<1>16. ASSUME NEW m \in Nodes, SearchEntry(m)
       PROVE  /\ at' = "walk" =>
                   \/ n \in found'
                   \/ \E i \in 1..d : i \in DOMAIN stack' /\ w[d - i] \in stack'[i].due \cap stack'[i].was
              /\ answer' = "matches" => n \in found'
  <2>1. Sought(n, d)
    BY <1>9, <1>16 DEF SearchEntry, world
  <2>2. Returned(m) /\ at = "walk" /\ answer' = answer
    BY <1>16 DEF SearchEntry, Returned
  <2>3. found' = IF m \notin Hidden /\ IsFile(disk[m]) /\ m \in Matching THEN found \cup {m} ELSE found
    BY <1>16 DEF SearchEntry
  <2>4. stack' = IF m \notin Hidden /\ disk[m] = Dir /\ Len(stack) <= MaxDepth
                 THEN Append(Passed(m), Opened(m)) ELSE Passed(m)
    BY <1>16 DEF SearchEntry
  <2>5. answer' = "none"
    BY <2>2 DEF ToolInv
  <2>6. CASE n \in found
    BY <2>3, <2>5, <2>6
  <2>7. CASE n \notin found
    <3>1. PICK i \in 1..d : i \in DOMAIN stack /\ w[d - i] \in stack[i].due \cap stack[i].was
      BY <1>10, <2>1, <2>2, <2>7
    <3> DEFINE k == Len(stack)
    <3>2. /\ k \in Nat \ {0} /\ DOMAIN stack = 1..k
          /\ Passed(m) \in Seq(Walked) /\ Len(Passed(m)) = k
          /\ \A j \in 1..k : Passed(m)[j].was = stack[j].was
          /\ \A j \in 1..k : j # k => Passed(m)[j] = stack[j]
          /\ Passed(m)[k].due = stack[k].due \ {m}
      BY <2>2, EntryPasses
    <3>3. k = Len(stack)
      OBVIOUS
    <3> HIDE DEF k, Walked
    <3>4. /\ DOMAIN Passed(m) = 1..k
          /\ Append(Passed(m), Opened(m)) \in Seq(Walked)
          /\ Len(Append(Passed(m), Opened(m))) = k + 1
          /\ Append(Passed(m), Opened(m))[k + 1] = Opened(m)
          /\ \A j \in 1..k : Append(Passed(m), Opened(m))[j] = Passed(m)[j]
      BY <3>2, DirOpens
    <3>5. DOMAIN Append(Passed(m), Opened(m)) = 1..(k + 1)
      BY <3>2, <3>4
    <3>6. \A j \in 1..k : j \in DOMAIN stack' /\ stack'[j] = Passed(m)[j]
      <4>1. CASE stack' = Passed(m)
        BY <3>4, <4>1
      <4>2. CASE stack' = Append(Passed(m), Opened(m))
        BY <3>2, <3>4, <3>5, <4>2
      <4> QED
        BY <2>4, <4>1, <4>2
    <3>7. CASE i # k \/ w[d - i] # m
      <4>1. w[d - i] \in Passed(m)[i].due \cap Passed(m)[i].was
        BY <3>1, <3>2, <3>7
      <4> QED
        BY <2>5, <3>1, <3>2, <3>6, <4>1
    <3>8. CASE i = k /\ w[d - i] = m /\ i = d
      <4>1. d - i = 0
        BY <1>8, <3>8
      <4>2. m = n /\ n \notin Hidden /\ IsFile(disk[n])
        BY <1>7, <1>8, <1>10, <2>1, <3>8, <4>1
      <4> QED
        BY <1>6, <2>3, <4>2
    <3>9. CASE i = k /\ w[d - i] = m /\ i # d
      <4>1. d - i \in 1..d /\ d - i \in 0..(d - 1) /\ i + 1 \in 1..d /\ d - (i + 1) = (d - i) - 1
        BY <1>8, <3>9
      <4>2. k <= MaxDepth
        <5>1. k <= d - 1 /\ MaxDepth \in Nat
          BY <1>8, <3>9 DEF SetUp
        <5> QED
          BY <1>6, <1>8, <3>2, <5>1
      <4>3. m \notin Hidden /\ disk[m] = Dir
        BY <1>10, <2>1, <3>9, <4>1
      <4>4. stack' = Append(Passed(m), Opened(m))
        BY <2>4, <3>3, <4>2, <4>3
      <4>5. i + 1 \in DOMAIN stack' /\ stack'[i + 1] = Opened(m)
        BY <3>2, <3>4, <3>5, <3>9, <4>4
      <4>6. w[d - (i + 1)] \in Opened(m).due \cap Opened(m).was
        BY <1>10, <2>1, <3>9, <4>1
      <4> QED
        BY <2>5, <4>1, <4>5, <4>6
    <3> QED
      BY <3>7, <3>8, <3>9
  <2> QED
    BY <2>6, <2>7
<1>17. ASSUME NEW m \in Nodes, NEW e \in Entries, Becomes(m, e)
       PROVE  /\ at' = "walk" =>
                   \/ n \in found'
                   \/ \E i \in 1..d : i \in DOMAIN stack' /\ w[d - i] \in stack'[i].due \cap stack'[i].was
              /\ answer' = "matches" => n \in found'
  <2>1. /\ disk' = [disk EXCEPT ![m] = e] /\ UNCHANGED <<stack, found, at, answer>>
        /\ seen'.same = seen.same \ {m}
    <3>1. seen' = [seen EXCEPT !.held = IF m = args.path THEN @ \cup {e.data} ELSE @,
                               !.same = @ \ {m},
                               !.ever = IF e # None THEN @ \cup {m} ELSE @]
      BY <1>17 DEF Becomes
    <3>2. "same" \in DOMAIN seen
      BY DEF TypeInv
    <3> QED
      BY <1>17, <3>1, <3>2 DEF Becomes, call
  <2>2. m # n
    BY <1>6, <1>7, <1>8, <2>1
  <2>3. disk'[n] = disk[n]
    BY <2>1, <2>2 DEF TypeInv, IsTree
  <2>4. Sought(n, d)
    BY <1>5, <1>6, <2>1, <2>3 DEF Sought, w
  <2> QED
    BY <1>10, <2>1, <2>4
<1>18. CASE Others
  <2>1. \E m \in Nodes : \E e \in Entries : Becomes(m, e)
    <3>1. \A c \in Contents : File(c) \in Entries
      BY EntryKinds DEF SetUp
    <3> QED
      BY <1>18, <3>1, EntryKinds DEF Others
  <2> QED
    BY <1>4, <1>17, <2>1
<1>19. ASSUME NEW m \in Nodes, SearchEntry(m)
       PROVE  /\ at' = "walk" =>
                   \/ n \in found'
                   \/ \E i \in 1..d : /\ i \in DOMAIN stack'
                                      /\ Way(n)'[d - i] \in stack'[i].due \cap stack'[i].was
              /\ answer' = "matches" => n \in found'
  BY <1>4, <1>16, <1>19
<1>20. \/ Refuse \/ OpenDir \/ CloseDir \/ Others \/ UNCHANGED files
       \/ Stat \/ OpenRead \/ Read \/ OpenWrite \/ Write \/ CloseWrite \/ Delete
       \/ \E m \in Nodes : SearchEntry(m)
  BY <1>15 DEF Next, Tool
<1> QED
  BY <1>3, <1>11, <1>12, <1>13, <1>14, <1>18, <1>19, <1>20, Zenon

-----------------------------------------------------------------------------
(* What is answered.                                                       *)

\* At the start of a call.
LEMMA InitInv ==
  ASSUME SetUp, Init
  PROVE  IInv
<1>1. /\ args \in [tool : Tools, path : Nodes \cup {NoPath}]
      /\ at = "start" /\ answer = "none"
      /\ size = 0 /\ got = <<>> /\ stack = <<>> /\ found = {}
      /\ disk \in Disks /\ file = <<>> /\ linked = FALSE
      /\ seen = [held |-> IF args.path \in Nodes THEN {disk[args.path].data} ELSE {},
                 same |-> Nodes, ever |-> {n \in Nodes : disk[n] # None}, failed |-> FALSE]
  BY DEF Init
<1>2. TypeInv
  <2>1. <<>> \in Seq(Bytes) /\ <<>> \in Seq([was : SUBSET Nodes, due : SUBSET Nodes])
    OBVIOUS
  <2>2. IsTree(disk)
    BY <1>1 DEF SetUp
  <2>3. DOMAIN seen = {"held", "same", "ever", "failed"}
    BY <1>1
  <2> QED
    BY <1>1, <2>1, <2>2, <2>3 DEF TypeInv
<1>3. ToolInv
  BY <1>1 DEF ToolInv
<1>4. ReadInv
  <2>1. args.tool = "read" /\ Path \in Nodes => disk[Path].data \in seen.held
    BY <1>1 DEF Path
  <2> QED
    BY <1>1, <2>1 DEF ReadInv
<1>5. WriteInv
  BY <1>1 DEF WriteInv
<1>6. WalkInv
  BY <1>1 DEF WalkInv
<1>7. ListInv
  BY <1>1 DEF ListInv
<1>8. SearchInv
  BY <1>1 DEF SearchInv
<1> QED
  BY <1>2, <1>3, <1>4, <1>5, <1>6, <1>7, <1>8 DEF IInv

\* The invariant says of each answer what it is.
LEMMA InvAnswers ==
  ASSUME SetUp, IInv
  PROVE  FileAnswers
<1> USE DEF IInv
<1>1. answer = "content" =>
        /\ Len(got) <= size /\ size <= MaxFile
        /\ \A i \in DOMAIN got : \E c \in seen.held : i \in DOMAIN c /\ got[i] = c[i]
        /\ Path \in seen.same \ Pseudo => Content = sanitize_output(file)
  <2>1. DOMAIN got = 1..Len(got)
    BY DEF TypeInv
  <2> QED
    BY <2>1 DEF ReadInv, Content
<1>2. answer = "written" /\ Path \in seen.same /\ ~seen.failed => disk[Path] = File(Data)
  BY DEF WriteInv
<1>3. answer \in {"entries", "matches"} => found \subseteq seen.ever
  BY DEF WalkInv, ToolInv
<1>4. answer = "entries" =>
        \A n \in Children(Path) \cap seen.same : n \in found <=> disk[n] # None
  BY DEF ListInv, ToolInv
<1>5. ASSUME answer = "matches", NEW n \in Matching \ (Hidden \cup {Path}),
             Path \in Above(n), Above(n) \subseteq seen.same,
             IsFile(disk[n]), Cardinality(Above(n)) - 2 <= MaxDepth,
             Above(n) \cap Hidden \subseteq {Path}
      PROVE  n \in found
  <2> DEFINE N == Cardinality(Nodes)
             w == Way(n)
             Ends == {k \in 0..N : w[k] = Path}
  <2>1. n \in Nodes /\ args.tool = "search" /\ TypeInv
    BY <1>5 DEF SetUp, ToolInv
  <2>2. N \in Nat /\ w[0] = n
    BY <2>1, WayUp
  <2>3. \E k \in 0..N : w[k] = Path
    BY <1>5 DEF Above
  <2> HIDE DEF N, w
  <2>4. Ends \subseteq Nat /\ Ends # {}
    BY <2>2, <2>3
  <2>5. Min(Ends) \in Ends /\ \A y \in Ends : Min(Ends) <= y
    BY <2>4, LeastNumber
  <2> DEFINE d == Min(Ends)
  <2>6. d \in 0..N /\ w[d] = Path /\ \A k \in 0..N : w[k] = Path => d <= k
    BY <2>5
  <2> HIDE DEF d, Ends
  <2>7. d # 0
    BY <1>5, <2>2, <2>6
  <2>8. d \in 1..N /\ \A k \in 0..(d - 1) : k \in 0..N /\ k \in 0..d /\ ~(d <= k)
    BY <2>2, <2>6, <2>7
  <2>9. Below(n, d)
    BY <2>1, <2>6, <2>8 DEF Below, N, w
  <2>10. disk[n] # None
    BY <1>5, EntryKinds
  <2>11. /\ d + 1 <= Cardinality(Above(n)) /\ Cardinality(Above(n)) \in Nat
         /\ \A k \in 0..d : w[k] \in Above(n)
    BY <2>1, <2>9, <2>10, AboveAreMany DEF w
  <2>12. d - 1 <= MaxDepth
    <3>1. MaxDepth \in Nat /\ d \in Nat
      BY <2>2, <2>8 DEF SetUp
    <3> QED
      BY <1>5, <2>11, <3>1
  <2>13. \A k \in 0..(d - 1) : w[k] \in seen.same \ Hidden
    <3> TAKE k \in 0..(d - 1)
    <3>1. w[k] \in Above(n) /\ w[k] # Path
      BY <2>6, <2>8, <2>11
    <3> QED
      BY <1>5, <3>1
  <2>14. Sought(n, d)
    BY <1>5, <2>9, <2>12, <2>13 DEF Sought, w
  <2> QED
    BY <1>5, <2>1, <2>8, <2>14 DEF SearchInv, N
<1> QED
  BY <1>1, <1>2, <1>3, <1>4, <1>5 DEF FileAnswers

\* Every step of a call and of the others keeps the invariant.
LEMMA NextInv ==
  ASSUME SetUp, IInv, [Next]_files
  PROVE  IInv'
BY NextType, NextTool, NextRead, NextWrite, NextWalk, NextList, NextSearch DEF IInv

\* Whatever others do during a call: a byte of a content was at its place at some time
\* during it, a file that nobody touches is answered and written whole, file_list and
\* file_search return every name that was there all the time, no deeper than
\* search_recursive goes, and none that was never there.
THEOREM FilesAnswer == SetUp => (Spec => []FileAnswers)
<1> SUFFICES ASSUME SetUp
             PROVE  Spec => []FileAnswers
  OBVIOUS
<1>1. Init => IInv
  BY InitInv
<1>2. IInv /\ [Next]_files => IInv'
  BY NextInv
<1>3. IInv => FileAnswers
  BY InvAnswers
<1> QED
  BY <1>1, <1>2, <1>3, PTL DEF Spec

-----------------------------------------------------------------------------
(* What is read from the configuration files, in files of any length.      *)

CONSTANTS MaxEntries, MaxRules, MaxDevices, MaxCommands

S == INSTANCE Settings

A == INSTANCE Allowlist

D == INSTANCE Devices

E == INSTANCE Endpoint

-----------------------------------------------------------------------------
(* Folds.                                                                  *)

\* The number of the positions up to m.
LEMMA CountUpTo == \A m \in Nat : Cardinality(1..m) = m
<1> TAKE m \in Nat
<1>1. 1 \in Int /\ m \in Int
  OBVIOUS
<1>2. Cardinality(1..m) = IF 1 > m THEN 0 ELSE m - 1 + 1
  BY <1>1, FS_Interval
<1> QED
  BY <1>2

\* What MapThenFoldSet recurs to over positions, from the last down.
Folding(f, base, G, n) ==
  f = [s \in SUBSET (1..n) |-> IF s = {} THEN base ELSE G[<<f[s \ {Max(s)}], Max(s)>>]]

\* The last of the positions up to n of which n is one.
LEMMA LastOfAll ==
  ASSUME NEW n \in Nat, NEW s, s \subseteq 1..n, n \in s
  PROVE  Max(s) = n
<1>1. n \in s /\ \A y \in s : n >= y
  OBVIOUS
<1>2. \A x \in s : (\A y \in s : x >= y) => x = n
  <2> TAKE x \in s
  <2> HAVE \A y \in s : x >= y
  <2>1. x >= n /\ x \in 1..n
    OBVIOUS
  <2> QED
    BY <2>1
<1> QED
  BY <1>1, <1>2 DEF Max

\* The positions up to k, without the last.
LEMMA PositionsUpTo ==
  ASSUME NEW n \in Nat, NEW k \in 1..n
  PROVE  /\ 1..k \in SUBSET (1..n) /\ 1..(k - 1) \in SUBSET (1..n)
         /\ 1..k # {} /\ Max(1..k) = k /\ (1..k) \ {k} = 1..(k - 1)
<1>1. k \in Nat /\ k \in 1..k /\ 1..k \subseteq 1..k
  OBVIOUS
<1>2. Max(1..k) = k
  BY <1>1, LastOfAll
<1>3. (1..k) \ {k} = 1..(k - 1)
  OBVIOUS
<1>4. 1..k \in SUBSET (1..n)
  OBVIOUS
<1>5. 1..(k - 1) \in SUBSET (1..n)
  OBVIOUS
<1>6. 1..k # {}
  BY <1>1
<1> QED
  BY <1>2, <1>3, <1>4, <1>5, <1>6

\* The last of some positions is one of them.
LEMMA GreatestPosition ==
  ASSUME NEW n \in Nat, NEW s \in SUBSET (1..n), s # {}
  PROVE  Max(s) \in 1..n /\ Max(s) \in s /\ (\A y \in s : y <= Max(s)) /\ s \ {Max(s)} \in SUBSET (1..n)
<1> DEFINE B == {n - x : x \in s}
<1>1. B \subseteq Nat /\ B # {}
  <2>1. \A x \in s : n - x \in Nat
    OBVIOUS
  <2> QED
    BY <2>1
<1>2. Min(B) \in B /\ \A y \in B : Min(B) <= y
  BY <1>1, LeastNumber
<1>3. PICK x \in s : Min(B) = n - x
  BY <1>2
<1>4. \A y \in s : n - x <= n - y
  BY <1>2, <1>3
<1>5. \A y \in s : x >= y
  <2> TAKE y \in s
  <2>1. x \in 1..n /\ y \in 1..n /\ n - x <= n - y
    BY <1>4
  <2> HIDE DEF B
  <2> QED
    BY <2>1
<1> HIDE DEF B
<1>6. Max(s) \in s /\ \A y \in s : Max(s) >= y
  BY <1>5 DEF Max
<1> QED
  BY <1>6

\* It can be done, one position after the other.
LEMMA FoldExists ==
  ASSUME NEW V, NEW base \in V, NEW n \in Nat, NEW G, G \in [V \X (1..n) -> V]
  PROVE  \E f \in [SUBSET (1..n) -> V] : Folding(f, base, G, n)
<1> DEFINE Folds(m) == \E f \in [SUBSET (1..m) -> V] : Folding(f, base, G, m)
           Bad      == {m \in 0..n : ~Folds(m)}
<1>1. Folds(0)
  <2> DEFINE f == [s \in SUBSET (1..0) |-> base]
  <2>1. 1..0 = {} /\ SUBSET (1..0) = {{}}
    OBVIOUS
  <2>2. f \in [SUBSET (1..0) -> V]
    OBVIOUS
  <2>3. f = [s \in SUBSET (1..0) |-> IF s = {} THEN base ELSE G[<<f[s \ {Max(s)}], Max(s)>>]]
    BY <2>1
  <2> HIDE DEF f
  <2> QED
    BY <2>2, <2>3 DEF Folding
<1>2. ASSUME NEW m \in Nat, m + 1 <= n, Folds(m)
      PROVE  Folds(m + 1)
  <2>1. PICK f \in [SUBSET (1..m) -> V] : Folding(f, base, G, m)
    BY <1>2
  <2> DEFINE k    == m + 1
             g(s) == IF k \in s THEN G[<<f[s \ {k}], k>>] ELSE f[s]
             h    == [s \in SUBSET (1..k) |-> g(s)]
  <2>2. k \in Nat /\ k \in 1..n /\ k \notin 1..m
    BY <1>2
  <2>3. \A s \in SUBSET (1..k) :
          IF k \in s THEN s \ {k} \in SUBSET (1..m) /\ Max(s) = k
                     ELSE s \in SUBSET (1..m)
    <3> TAKE s \in SUBSET (1..k)
    <3>1. \A i \in 1..k : i # k => i \in 1..m
      OBVIOUS
    <3>2. k \in s => Max(s) = k
      <4> HIDE DEF k
      <4> QED
        BY <2>2, LastOfAll
    <3> QED
      BY <3>1, <3>2
  <2>4. \A s \in SUBSET (1..m) : s \in SUBSET (1..k) /\ k \notin s
    OBVIOUS
  <2> HIDE DEF k
  <2>5. \A s \in SUBSET (1..k) : g(s) \in V
    <3> TAKE s \in SUBSET (1..k)
    <3>1. CASE k \in s
      <4>1. f[s \ {k}] \in V
        BY <2>3, <3>1
      <4>2. <<f[s \ {k}], k>> \in V \X (1..n)
        BY <2>2, <4>1
      <4> QED
        BY <3>1, <4>2
    <3>2. CASE k \notin s
      BY <2>3, <3>2
    <3> QED
      BY <3>1, <3>2
  <2>6. h \in [SUBSET (1..k) -> V] /\ \A s \in SUBSET (1..k) : h[s] = g(s)
    BY <2>5
  <2>7. \A s \in SUBSET (1..k) :
          h[s] = IF s = {} THEN base ELSE G[<<h[s \ {Max(s)}], Max(s)>>]
    <3> TAKE s \in SUBSET (1..k)
    <3>1. CASE k \in s
      <4>1. s \ {k} \in SUBSET (1..m) /\ Max(s) = k
        BY <2>3, <3>1
      <4>2. h[s \ {k}] = f[s \ {k}]
        BY <2>4, <2>6, <4>1
      <4> QED
        BY <2>6, <3>1, <4>1, <4>2
    <3>2. CASE k \notin s
      <4>1. s \in SUBSET (1..m) /\ s \ {Max(s)} \in SUBSET (1..m)
        BY <2>3, <3>2
      <4>2. h[s] = f[s] /\ h[s \ {Max(s)}] = f[s \ {Max(s)}]
        <5>1. \A t \in SUBSET (1..m) : h[t] = f[t]
          BY <2>4, <2>6
        <5> QED
          BY <4>1, <5>1
      <4>3. f[s] = IF s = {} THEN base ELSE G[<<f[s \ {Max(s)}], Max(s)>>]
        <5>1. f = [t \in SUBSET (1..m) |-> IF t = {} THEN base ELSE G[<<f[t \ {Max(t)}], Max(t)>>]]
          BY <2>1 DEF Folding
        <5> QED
          BY <4>1, <5>1
      <4> QED
        BY <4>2, <4>3
    <3> QED
      BY <3>1, <3>2
  <2>8. h = [s \in SUBSET (1..k) |-> h[s]]
    OBVIOUS
  <2> HIDE DEF h
  <2>9. h = [s \in SUBSET (1..k) |-> IF s = {} THEN base ELSE G[<<h[s \ {Max(s)}], Max(s)>>]]
    <3>1. [s \in SUBSET (1..k) |-> h[s]]
            = [s \in SUBSET (1..k) |-> IF s = {} THEN base ELSE G[<<h[s \ {Max(s)}], Max(s)>>]]
      BY <2>7, Zenon
    <3> QED
      BY <2>8, <3>1, Zenon
  <2> QED
    BY <2>6, <2>9 DEF Folding, k
<1> SUFFICES Folds(n)
  OBVIOUS
<1> HIDE DEF Folds
<1>3. CASE Bad = {}
  BY <1>3
<1>4. CASE Bad # {}
  <2>1. Bad \subseteq Nat
    OBVIOUS
  <2>2. Min(Bad) \in Bad /\ \A y \in Bad : Min(Bad) <= y
    BY <1>4, <2>1, LeastNumber
  <2> DEFINE m == Min(Bad)
  <2>3. m \in 0..n /\ ~Folds(m) /\ \A y \in 0..n : ~Folds(y) => m <= y
    BY <2>2
  <2> HIDE DEF m
  <2>4. m # 0
    BY <1>1, <2>3
  <2>5. m - 1 \in Nat /\ m - 1 \in 0..n /\ (m - 1) + 1 = m /\ (m - 1) + 1 <= n /\ ~(m <= m - 1)
    BY <2>3, <2>4
  <2>6. Folds(m - 1)
    BY <2>3, <2>5
  <2> QED
    BY <1>2, <2>3, <2>5, <2>6
<1> QED
  BY <1>3, <1>4

\* What holds at first, and after each position if it held before it, holds at the end.
LEMMA PositionByPosition ==
  ASSUME NEW n \in Nat, NEW Q, 0 \in Q, \A k \in 1..n : k - 1 \in Q => k \in Q
  PROVE  \A k \in 0..n : k \in Q
<1> DEFINE Bad == {k \in 0..n : k \notin Q}
<1> SUFFICES ASSUME Bad # {}
             PROVE  FALSE
  OBVIOUS
<1>1. Bad \subseteq Nat
  OBVIOUS
<1>2. Min(Bad) \in Bad /\ \A y \in Bad : Min(Bad) <= y
  BY <1>1, LeastNumber
<1> DEFINE m == Min(Bad)
<1>3. m \in 0..n /\ m \notin Q /\ \A y \in 0..n : y \notin Q => m <= y
  BY <1>2
<1> HIDE DEF m, Bad
<1>4. m # 0
  BY <1>3
<1>5. m \in 1..n /\ m - 1 \in 0..n /\ ~(m <= m - 1)
  BY <1>3, <1>4
<1>6. m - 1 \in Q
  BY <1>3, <1>5
<1> QED
  BY <1>3, <1>5, <1>6

\* c is made by folding, as far as it stays in V.
FoldsWith(c, V, base, G, n) ==
  /\ c[{}] = base
  /\ \A s \in SUBSET (1..n) :
       s # {} /\ c[s \ {Max(s)}] \in V => c[s] = G[<<c[s \ {Max(s)}], Max(s)>>]

\* h goes from base to the end, position by position.
Steps(h, V, base, G, n, end) ==
  /\ h[0] = base /\ h[n] = end
  /\ \A k \in 0..n : h[k] \in V
  /\ \A k \in 1..n : h[k] = G[<<h[k - 1], k>>]

StepsTo(V, base, G, n, end) == \E h : Steps(h, V, base, G, n, end)

\* What is folded is what the last step comes to.
LEMMA FoldSteps ==
  ASSUME NEW V, NEW base \in V, NEW n \in Nat, NEW G, G \in [V \X (1..n) -> V],
         NEW c, FoldsWith(c, V, base, G, n)
  PROVE  StepsTo(V, base, G, n, c[1..n])
<1> DEFINE h == [k \in 0..n |-> c[1..k]]
<1>0. /\ c[{}] = base
      /\ \A s \in SUBSET (1..n) :
           s # {} /\ c[s \ {Max(s)}] \in V => c[s] = G[<<c[s \ {Max(s)}], Max(s)>>]
  BY DEF FoldsWith
<1>7. h = [k \in 0..n |-> c[1..k]]
  OBVIOUS
<1> HIDE DEF h
<1>1. h[0] = base /\ h[n] = c[1..n]
  <2>1. 1..0 = {} /\ 0 \in 0..n /\ n \in 0..n
    OBVIOUS
  <2> QED
    BY <1>0, <1>7, <2>1
<1>2. ASSUME NEW k \in 1..n, h[k - 1] \in V
      PROVE  h[k] = G[<<h[k - 1], k>>] /\ h[k] \in V
  <2>1. /\ 1..k \in SUBSET (1..n) /\ 1..k # {}
        /\ Max(1..k) = k /\ (1..k) \ {k} = 1..(k - 1)
    BY PositionsUpTo
  <2>2. h[k] = c[1..k] /\ h[k - 1] = c[1..(k - 1)]
    <3>1. k \in 0..n /\ k - 1 \in 0..n
      OBVIOUS
    <3> QED
      BY <1>7, <3>1, Zenon
  <2>3. c[(1..k) \ {Max(1..k)}] \in V
    BY <1>2, <2>1, <2>2, Zenon
  <2>4. c[1..k] = G[<<c[(1..k) \ {Max(1..k)}], Max(1..k)>>]
    BY <1>0, <2>1, <2>3, Zenon
  <2>5. h[k] = G[<<h[k - 1], k>>]
    BY <2>1, <2>2, <2>4, Zenon
  <2>6. <<h[k - 1], k>> \in V \X (1..n)
    BY <1>2
  <2> QED
    BY <2>5, <2>6
<1> DEFINE Q == {k \in 0..n : h[k] \in V}
<1>3. 0 \in Q
  BY <1>1
<1>4. \A k \in 1..n : k - 1 \in Q => k \in Q
  <2> TAKE k \in 1..n
  <2>1. k \in 0..n /\ (k - 1 \in Q => h[k - 1] \in V)
    OBVIOUS
  <2> QED
    BY <1>2, <2>1
<1> HIDE DEF Q
<1>5. \A k \in 0..n : k \in Q
  BY <1>3, <1>4, PositionByPosition
<1>6. \A k \in 1..n : k - 1 \in 0..n
  OBVIOUS
<1> QED
  BY <1>1, <1>2, <1>5, <1>6 DEF StepsTo, Steps, Q

-----------------------------------------------------------------------------
(* Settings.                                                               *)

\* The table, position by position of the file.
ConfigSteps(h, T, conf, n) ==
  /\ h[0] = <<>> /\ h[n] = S!config_load(conf)
  /\ \A k \in 0..n : h[k] \in Seq(T)
  /\ \A k \in 1..n : h[k] = S!config_set(h[k - 1], conf[k])

\* How the table is made, written out.
LEMMA ConfigIsFolded ==
  ASSUME NEW conf
  PROVE  S!config_load(conf) =
           (CHOOSE f : f = [s \in SUBSET (DOMAIN conf) |->
                              IF s = {} THEN <<>>
                              ELSE S!config_set(f[s \ {Max(s)}], conf[Max(s)])])[DOMAIN conf]
BY Zenon DEF S!config_load, S!FoldLeft, S!MapThenFoldSet, S!Max, Max

\* The least position of a key is one of its positions.
LEMMA LeastOfKey ==
  ASSUME NEW T, NEW t \in Seq(T), NEW key, S!Positions(t, key) # {}
  PROVE  /\ S!Min(S!Positions(t, key)) \in S!Positions(t, key)
         /\ S!Min(S!Positions(t, key)) \in 1..Len(t)
         /\ S!Positions(t, key) \subseteq 1..Len(t)
<1> DEFINE own == S!Positions(t, key)
<1>1. own \subseteq 1..Len(t) /\ own \subseteq Nat
  BY DEF S!Positions
<1> HIDE DEF own
<1>2. S!Min(own) = Min(own)
  BY DEF S!Min, Min
<1>3. own # {}
  BY DEF own
<1>4. Min(own) \in own
  BY <1>1, <1>3, LeastNumber
<1> QED
  BY <1>1, <1>2, <1>4 DEF own

\* Setting keeps the table a table.
LEMMA SettingKeeps ==
  ASSUME NEW T, NEW t \in Seq(T), NEW line \in T
  PROVE  S!config_set(t, line) \in Seq(T)
<1> DEFINE own == S!Positions(t, line.key)
<1>1. CASE own # {}
  <2>1. S!Min(own) \in 1..Len(t)
    BY <1>1, LeastOfKey
  <2>2. [t EXCEPT ![S!Min(own)] = line] \in Seq(T)
    BY <2>1
  <2> QED
    BY <1>1, <2>2 DEF S!config_set
<1>2. CASE own = {}
  <2>1. Append(t, line) \in Seq(T)
    OBVIOUS
  <2> QED
    BY <1>2, <2>1 DEF S!config_set
<1> QED
  BY <1>1, <1>2

\* The table is made line by line.
LEMMA ConfigByLines ==
  ASSUME NEW n \in Nat, NEW T, NEW conf \in [1..n -> T]
  PROVE  \E h : ConfigSteps(h, T, conf, n)
<1> DEFINE V       == Seq(T)
           G       == [p \in V \X (1..n) |-> S!config_set(p[1], conf[p[2]])]
           made(f) == f = [s \in SUBSET (1..n) |->
                             IF s = {} THEN <<>>
                             ELSE S!config_set(f[s \ {Max(s)}], conf[Max(s)])]
           c       == CHOOSE f : made(f)
<1>1. DOMAIN conf = 1..n
  OBVIOUS
<1>2. S!config_load(conf) = c[1..n]
  BY <1>1, ConfigIsFolded
<1>3. <<>> \in V
  OBVIOUS
<1>4. G \in [V \X (1..n) -> V] /\ \A v \in V : \A k \in 1..n : G[<<v, k>>] = S!config_set(v, conf[k])
  <2>1. \A v \in V : \A k \in 1..n : S!config_set(v, conf[k]) \in V
    BY SettingKeeps
  <2> HIDE DEF V
  <2> QED
    BY <2>1
<1> HIDE DEF G, V
<1>5. \E f \in [SUBSET (1..n) -> V] : Folding(f, <<>>, G, n)
  BY <1>3, <1>4, FoldExists
<1>6. PICK f0 \in [SUBSET (1..n) -> V] : Folding(f0, <<>>, G, n)
  BY <1>5
<1>7. \A s \in SUBSET (1..n) : s # {} =>
        Max(s) \in 1..n /\ s \ {Max(s)} \in SUBSET (1..n)
  BY GreatestPosition
<1>8. made(f0)
  <2>1. \A s \in SUBSET (1..n) : s # {} =>
          G[<<f0[s \ {Max(s)}], Max(s)>>] = S!config_set(f0[s \ {Max(s)}], conf[Max(s)])
    <3> HIDE DEF made
    <3> TAKE s \in SUBSET (1..n)
    <3> HAVE s # {}
    <3>1. Max(s) \in 1..n /\ f0[s \ {Max(s)}] \in V
      BY <1>7
    <3> QED
      BY <1>4, <3>1, Zenon
  <2>2. f0 = [s \in SUBSET (1..n) |-> IF s = {} THEN <<>> ELSE G[<<f0[s \ {Max(s)}], Max(s)>>]]
    BY <1>6 DEF Folding
  <2>3. [s \in SUBSET (1..n) |-> IF s = {} THEN <<>> ELSE G[<<f0[s \ {Max(s)}], Max(s)>>]]
          = [s \in SUBSET (1..n) |->
               IF s = {} THEN <<>> ELSE S!config_set(f0[s \ {Max(s)}], conf[Max(s)])]
    BY <2>1, Zenon
  <2> QED
    BY <2>2, <2>3, Zenon
<1>9. made(c)
  BY <1>8
<1> HIDE DEF c
<1>10. \A s \in SUBSET (1..n) :
         c[s] = IF s = {} THEN <<>> ELSE S!config_set(c[s \ {Max(s)}], conf[Max(s)])
  BY <1>9, Zenon
<1> HIDE DEF made
<1>11. FoldsWith(c, V, <<>>, G, n)
  <2>1. c[{}] = <<>>
    <3>1. {} \in SUBSET (1..n)
      OBVIOUS
    <3> QED
      BY <1>10, <3>1, Zenon
  <2>2. ASSUME NEW s \in SUBSET (1..n), s # {}, c[s \ {Max(s)}] \in V
        PROVE  c[s] = G[<<c[s \ {Max(s)}], Max(s)>>]
    <3>1. Max(s) \in 1..n
      BY <1>7, <2>2
    <3>2. G[<<c[s \ {Max(s)}], Max(s)>>] = S!config_set(c[s \ {Max(s)}], conf[Max(s)])
      BY <1>4, <2>2, <3>1, Zenon
    <3> QED
      BY <1>10, <2>2, <3>2, Zenon
  <2> QED
    BY <2>1, <2>2 DEF FoldsWith
<1>12. StepsTo(V, <<>>, G, n, c[1..n])
  BY <1>3, <1>4, <1>11, FoldSteps
<1>13. PICK h : Steps(h, V, <<>>, G, n, c[1..n])
  BY <1>12 DEF StepsTo
<1>14. /\ h[0] = <<>> /\ h[n] = S!config_load(conf)
       /\ \A k \in 0..n : h[k] \in V
       /\ \A k \in 1..n : h[k] = G[<<h[k - 1], k>>]
  BY <1>2, <1>13 DEF Steps
<1>15. \A k \in 1..n : h[k] = S!config_set(h[k - 1], conf[k])
  <2> TAKE k \in 1..n
  <2>1. k - 1 \in 0..n
    OBVIOUS
  <2> QED
    BY <1>4, <1>14, <2>1, Zenon
<1> QED
  BY <1>14, <1>15 DEF ConfigSteps, V

\* The keys of a file are finitely many.
LEMMA KeysFinite ==
  ASSUME NEW n \in Nat, NEW T, NEW conf \in [1..n -> T]
  PROVE  IsFiniteSet({conf[i].key : i \in 1..n})
<1> DEFINE keys == {conf[i].key : i \in 1..n}
           f    == [i \in 1..n |-> conf[i].key]
<1>1. f \in Surjection(1..n, keys)
  BY DEF Surjection
<1>2. IsFiniteSet(1..n)
  BY FS_Interval
<1> HIDE DEF f, keys
<1>3. IsFiniteSet(keys)
  BY <1>1, <1>2, FS_Surjection
<1> QED
  BY <1>3 DEF keys

\* After k lines, the table has each key once, with its last line.
LastOfEach(t, conf, k) ==
  /\ \A i, j \in 1..Len(t) : t[i].key = t[j].key => i = j
  /\ \A i \in 1..Len(t) : \E j \in 1..k :
       t[i] = conf[j] /\ \A l \in 1..k : conf[l].key = conf[j].key => l <= j
  /\ \A j \in 1..k : \E i \in 1..Len(t) : t[i].key = conf[j].key

\* A table that has only keys of the file is not full.
LEMMA TableHasRoom ==
  ASSUME NEW n \in Nat, NEW T, NEW conf \in [1..n -> T], MaxEntries \in Nat,
         Cardinality({conf[i].key : i \in 1..n}) < MaxEntries,
         NEW k \in 0..n, NEW t \in Seq(T), LastOfEach(t, conf, k)
  PROVE  Len(t) < MaxEntries
<1> DEFINE keys == {conf[i].key : i \in 1..n}
           f    == [i \in 1..Len(t) |-> t[i].key]
<1>1. \A i \in 1..Len(t) : t[i].key \in keys
  <2> TAKE i \in 1..Len(t)
  <2>1. PICK j \in 1..k : t[i] = conf[j]
    BY DEF LastOfEach
  <2>2. j \in 1..n
    OBVIOUS
  <2> QED
    BY <2>1, <2>2
<1> HIDE DEF keys
<1>2. f \in Injection(1..Len(t), keys)
  <2>1. f \in [1..Len(t) -> keys]
    BY <1>1
  <2>2. \A i, j \in 1..Len(t) : f[i] = f[j] => i = j
    BY DEF LastOfEach
  <2> HIDE DEF f
  <2> QED
    BY <2>1, <2>2 DEF Injection, IsInjective
<1>3. IsFiniteSet(keys)
  BY KeysFinite DEF keys
<1> HIDE DEF f
<1>4. Cardinality(1..Len(t)) <= Cardinality(keys)
  BY <1>2, <1>3, FS_Injection
<1>7. Len(t) \in Nat
  OBVIOUS
<1>5. Cardinality(1..Len(t)) = Len(t)
  BY <1>7, CountUpTo
<1>6. Cardinality(keys) \in Nat /\ Cardinality(keys) < MaxEntries
  BY <1>3, FS_CardinalityType DEF keys
<1> QED
  BY <1>4, <1>5, <1>6, <1>7

\* The next line takes the place of the one with its key, or goes to the end.
LEMMA NextLine ==
  ASSUME NEW n \in Nat, NEW T, NEW conf \in [1..n -> T], NEW k \in 1..n,
         NEW t \in Seq(T), Len(t) < MaxEntries, MaxEntries \in Nat, LastOfEach(t, conf, k - 1)
  PROVE  LastOfEach(S!config_set(t, conf[k]), conf, k)
<1> DEFINE line == conf[k]
           own  == S!Positions(t, line.key)
           u    == S!config_set(t, line)
<1>0. /\ \A i, j \in 1..Len(t) : t[i].key = t[j].key => i = j
      /\ \A i \in 1..Len(t) : \E j \in 1..(k - 1) :
           t[i] = conf[j] /\ \A l \in 1..(k - 1) : conf[l].key = conf[j].key => l <= j
      /\ \A j \in 1..(k - 1) : \E i \in 1..Len(t) : t[i].key = conf[j].key
  BY DEF LastOfEach
<1>1. Len(t) \in Nat /\ ~(Len(t) >= MaxEntries) /\ line \in T
  OBVIOUS
<1>2. \A j \in 1..k : j = k \/ j \in 1..(k - 1)
  OBVIOUS
<1>3. \A j \in 1..(k - 1) : j \in 1..k /\ j <= k /\ j # k
  OBVIOUS
<1>4. k \in 1..k /\ k <= k
  OBVIOUS
<1>5. ASSUME NEW w \in Seq(T), NEW p \in 1..Len(w), w[p] = line,
             1..Len(t) \subseteq 1..Len(w), 1..Len(w) \subseteq 1..Len(t) \cup {p},
             \A i \in 1..Len(t) : i # p => w[i] = t[i] /\ t[i].key # line.key,
             p \in 1..Len(t) => t[p].key = line.key
      PROVE  LastOfEach(w, conf, k)
  <2>1. \A i \in 1..Len(w) : i # p => i \in 1..Len(t) /\ w[i] = t[i] /\ t[i].key # line.key
    BY <1>5
  <2>2. \A i, j \in 1..Len(w) : w[i].key = w[j].key => i = j
    <3> TAKE i, j \in 1..Len(w)
    <3> HAVE w[i].key = w[j].key
    <3> QED
      BY <1>0, <1>5, <2>1, ZenonT(60)
  <2>3. \A i \in 1..Len(w) : \E j \in 1..k :
          w[i] = conf[j] /\ \A l \in 1..k : conf[l].key = conf[j].key => l <= j
    <3> TAKE i \in 1..Len(w)
    <3>1. CASE i = p
      <4>1. \A l \in 1..k : l <= k
        OBVIOUS
      <4> QED
        BY <1>4, <1>5, <3>1, <4>1
    <3>2. CASE i # p
      <4>1. PICK j \in 1..(k - 1) :
              t[i] = conf[j] /\ \A l \in 1..(k - 1) : conf[l].key = conf[j].key => l <= j
        BY <1>0, <2>1, <3>2
      <4>2. w[i] = conf[j] /\ conf[k].key # conf[j].key /\ j \in 1..k
        BY <1>3, <2>1, <3>2, <4>1
      <4>3. \A l \in 1..k : conf[l].key = conf[j].key => l <= j
        BY <1>2, <4>1, <4>2
      <4> QED
        BY <4>2, <4>3
    <3> QED
      BY <3>1, <3>2
  <2>4. \A j \in 1..k : \E i \in 1..Len(w) : w[i].key = conf[j].key
    <3> TAKE j \in 1..k
    <3>1. CASE j = k
      BY <1>5, <3>1
    <3>2. CASE j \in 1..(k - 1)
      <4>1. PICK i \in 1..Len(t) : t[i].key = conf[j].key
        BY <1>0, <3>2
      <4>2. CASE i = p
        <5>1. t[p].key = conf[j].key /\ p \in 1..Len(t)
          BY <4>1, <4>2
        <5> QED
          BY <1>5, <4>1, <4>2, <5>1
      <4>3. CASE i # p
        BY <1>5, <4>1, <4>3
      <4> QED
        BY <4>2, <4>3
    <3> QED
      BY <1>2, <3>1, <3>2
  <2> QED
    BY <2>2, <2>3, <2>4 DEF LastOfEach
<1>6. CASE own # {}
  <2> DEFINE p == S!Min(own)
             w == [t EXCEPT ![p] = line]
  <2>1. p \in own /\ p \in 1..Len(t) /\ own \subseteq 1..Len(t)
    BY <1>6, LeastOfKey
  <2>2. u = w
    BY <1>1, <1>6 DEF S!config_set
  <2> HIDE DEF p
  <2>3. w \in Seq(T) /\ Len(w) = Len(t) /\ w[p] = line /\ \A i \in 1..Len(t) : i # p => w[i] = t[i]
    BY <1>1, <2>1
  <2>4. t[p].key = line.key
    BY <2>1 DEF S!Positions
  <2>5. \A i \in 1..Len(t) : i # p => t[i].key # line.key
    BY <1>0, <2>1, <2>4
  <2> HIDE DEF w, line, own, u
  <2>6. LastOfEach(w, conf, k)
    BY <1>5, <2>1, <2>3, <2>4, <2>5
  <2> QED
    BY <2>2, <2>6 DEF u, line
<1>7. CASE own = {}
  <2> DEFINE p == Len(t) + 1
             w == Append(t, line)
  <2>1. u = w
    BY <1>1, <1>7 DEF S!config_set
  <2>2. w \in Seq(T) /\ Len(w) = Len(t) + 1 /\ w[p] = line /\ \A i \in 1..Len(t) : w[i] = t[i]
    BY <1>1
  <2>3. p \in 1..Len(w) /\ 1..Len(t) \subseteq 1..Len(w) /\ p \notin 1..Len(t)
    BY <1>1, <2>2
  <2>4. 1..Len(w) \subseteq 1..Len(t) \cup {p}
    BY <1>1, <2>2
  <2>5. \A i \in 1..Len(t) : t[i].key # line.key
    BY <1>7 DEF S!Positions
  <2> HIDE DEF w, line, own, u, p
  <2>6. LastOfEach(w, conf, k)
    BY <1>5, <2>2, <2>3, <2>4, <2>5
  <2> QED
    BY <2>1, <2>6 DEF u, line
<1> QED
  BY <1>6, <1>7

\* In the end the table has, for each key of the file, its last line.
LEMMA ConfigHasLast ==
  ASSUME NEW n \in Nat, NEW T, NEW conf \in [1..n -> T], MaxEntries \in Nat,
         Cardinality({conf[i].key : i \in 1..n}) < MaxEntries
  PROVE  S!config_load(conf) \in Seq(T) /\ LastOfEach(S!config_load(conf), conf, n)
<1>1. PICK h : ConfigSteps(h, T, conf, n)
  BY ConfigByLines
<1>2. /\ h[0] = <<>> /\ h[n] = S!config_load(conf)
      /\ \A k \in 0..n : h[k] \in Seq(T)
      /\ \A k \in 1..n : h[k] = S!config_set(h[k - 1], conf[k])
  BY <1>1 DEF ConfigSteps
<1> DEFINE Q == {k \in 0..n : LastOfEach(h[k], conf, k)}
<1>3. 0 \in Q
  <2>1. 1..0 = {} /\ Len(h[0]) = 0
    BY <1>2
  <2>2. LastOfEach(h[0], conf, 0)
    BY <2>1 DEF LastOfEach
  <2> QED
    BY <2>2
<1>4. \A k \in 1..n : k - 1 \in Q => k \in Q
  <2> SUFFICES ASSUME NEW k \in 1..n, LastOfEach(h[k - 1], conf, k - 1)
               PROVE  LastOfEach(h[k], conf, k)
    OBVIOUS
  <2>1. k - 1 \in 0..n
    OBVIOUS
  <2>2. h[k - 1] \in Seq(T) /\ h[k] = S!config_set(h[k - 1], conf[k])
    BY <1>2, <2>1
  <2>3. Len(h[k - 1]) < MaxEntries
    BY <2>1, <2>2, TableHasRoom
  <2>4. LastOfEach(S!config_set(h[k - 1], conf[k]), conf, k)
    BY <2>2, <2>3, NextLine
  <2> QED
    BY <2>2, <2>4
<1> HIDE DEF Q
<1>5. n \in Q /\ n \in 0..n
  <2>1. n \in 0..n
    OBVIOUS
  <2> QED
    BY <1>3, <1>4, <2>1, PositionByPosition
<1> QED
  BY <1>2, <1>5 DEF Q

\* A setting is looked up where its last line is.
LEMMA ConfigGets ==
  ASSUME NEW n \in Nat, NEW T, NEW conf \in [1..n -> T], MaxEntries \in Nat,
         Cardinality({conf[i].key : i \in 1..n}) < MaxEntries, NEW key
  PROVE  S!config_get(S!config_load(conf), key) =
           IF S!Positions(conf, key) = {} THEN S!Default
           ELSE conf[S!Max(S!Positions(conf, key))].val
<1> DEFINE t      == S!config_load(conf)
           own    == S!Positions(conf, key)
           places == S!Positions(t, key)
<1>1. t \in Seq(T) /\ LastOfEach(t, conf, n)
  BY ConfigHasLast
<1> HIDE DEF t
<1>2. /\ \A i \in 1..Len(t) : \E j \in 1..n :
           t[i] = conf[j] /\ \A l \in 1..n : conf[l].key = conf[j].key => l <= j
      /\ \A j \in 1..n : \E i \in 1..Len(t) : t[i].key = conf[j].key
  BY <1>1 DEF LastOfEach
<1>3. DOMAIN t = 1..Len(t) /\ DOMAIN conf = 1..n
  BY <1>1
<1>4. CASE own = {}
  <2>1. \A j \in 1..n : conf[j].key # key
    BY <1>3, <1>4 DEF S!Positions
  <2>2. \A i \in 1..Len(t) : t[i].key # key
    BY <1>2, <2>1
  <2>3. places = {}
    BY <1>3, <2>2 DEF S!Positions
  <2> QED
    BY <1>4, <2>3 DEF S!config_get, t
<1>5. CASE own # {}
  <2>1. own \in SUBSET (1..n) /\ \A j \in 1..n : j \in own <=> conf[j].key = key
    BY <1>3 DEF S!Positions
  <2>2. places # {}
    <3>1. PICK j \in own : TRUE
      BY <1>5
    <3>2. PICK i \in 1..Len(t) : t[i].key = conf[j].key
      BY <1>2, <2>1, <3>1
    <3>3. t[i].key = key
      BY <2>1, <3>2
    <3> QED
      BY <1>3, <3>2, <3>3 DEF S!Positions
  <2> DEFINE p == S!Min(places)
  <2>3. p \in places /\ p \in 1..Len(t)
    BY <1>1, <2>2, LeastOfKey
  <2>4. t[p].key = key
    BY <2>3 DEF S!Positions
  <2> HIDE DEF p, own, places
  <2>5. PICK j \in 1..n : t[p] = conf[j] /\ \A l \in 1..n : conf[l].key = conf[j].key => l <= j
    BY <1>2, <2>3
  <2>6. j \in own /\ \A l \in own : l <= j
    BY <2>1, <2>4, <2>5
  <2>7. S!Max(own) = Max(own)
    BY DEF S!Max, Max
  <2>8. Max(own) \in own /\ \A l \in own : l <= Max(own)
    BY <1>5, <2>1, GreatestPosition
  <2>9. Max(own) = j
    <3>1. Max(own) \in 1..n /\ Max(own) <= j /\ j <= Max(own)
      BY <2>1, <2>6, <2>8
    <3> HIDE DEF own
    <3> QED
      BY <3>1
  <2>10. S!config_get(t, key) = t[p].val
    BY <2>2 DEF S!config_get, p, places
  <2> QED
    BY <1>5, <2>5, <2>7, <2>9, <2>10 DEF own, t
<1> QED
  BY <1>4, <1>5

\* A setting is what the shell, else .env, else config gives, in files of any length and
\* with whatever room in the table of config_load.
THEOREM SettingInPriority ==
  ASSUME NEW n \in Nat, NEW T, NEW conf \in [1..n -> T], MaxEntries \in Nat,
         NEW N, NEW env \in Seq(N), \A line \in N : line.val # S!Unset,
         NEW key, NEW shell
  PROVE  S!InPriority(key, shell, env, conf)
<1> DEFINE own   == S!Positions(conf, key)
           first == env[S!Min(S!Positions(env, key))].val
           value == S!env_load(shell, key, env)
           table == S!config_load(conf)
           exported == CASE shell # S!Unset -> shell
                         [] shell = S!Unset /\ S!Positions(env, key) # {} -> first
                         [] OTHER -> S!Empty
<1> SUFFICES ASSUME Cardinality({conf[i].key : i \in 1..n}) < MaxEntries
             PROVE  S!Setting(key, shell, env, conf) =
                      CASE exported # S!Empty -> exported
                        [] exported = S!Empty /\ own # {} -> conf[S!Max(own)].val
                        [] OTHER -> S!Default
  <2>1. S!Cardinality({conf[i].key : i \in DOMAIN conf}) = Cardinality({conf[i].key : i \in 1..n})
    BY DEF S!Cardinality, Cardinality
  <2> QED
    BY <2>1 DEF S!InPriority
<1>1. S!config_get(table, key) = IF own = {} THEN S!Default ELSE conf[S!Max(own)].val
  BY ConfigGets, ZenonT(60)
<1>2. S!Positions(env, key) # {} => first # S!Unset
  <2> SUFFICES ASSUME S!Positions(env, key) # {}
               PROVE  first # S!Unset
    OBVIOUS
  <2>1. S!Min(S!Positions(env, key)) \in 1..Len(env)
    BY LeastOfKey
  <2>2. env[S!Min(S!Positions(env, key))] \in N
    BY <2>1
  <2> QED
    BY <2>2
<1>3. S!Setting(key, shell, env, conf) =
        IF value \in {S!Unset, S!Empty} THEN S!config_get(table, key) ELSE value
  BY DEF S!Setting, S!env_or_cfg
<1>4. value = IF shell # S!Unset \/ S!Positions(env, key) = {} THEN shell ELSE first
  BY DEF S!env_load
<1>5. S!Unset # S!Empty
  BY DEF S!Unset, S!Empty
<1> HIDE DEF own, first, value, table
<1>6. CASE value \in {S!Unset, S!Empty}
  <2>1. exported = S!Empty
    BY <1>2, <1>4, <1>5, <1>6
  <2> QED
    BY <1>1, <1>3, <1>6, <2>1
<1>7. CASE value \notin {S!Unset, S!Empty}
  <2>1. exported = value
    BY <1>2, <1>4, <1>5, <1>7
  <2> QED
    BY <1>3, <1>7, <2>1
<1> QED
  BY <1>6, <1>7

\* The level of the log is what the environment or the command line gives, else what config
\* gives, in a file of any length.
THEOREM LevelFollows ==
  ASSUME NEW n \in Nat, NEW T, NEW conf \in [1..n -> T], MaxEntries \in Nat,
         NEW env, NEW flag
  PROVE  S!LevelFromGiven(env, flag, conf)
<1> DEFINE own    == S!Positions(conf, "level")
           none   == {S!Unset, S!Empty}
           given  == {env, flag} \ none
           levels == CASE given # {} -> given
                       [] given = {} /\ own # {} -> {conf[S!Max(own)].val}
                       [] OTHER -> {S!Empty}
           known  == {"debug", "info", "error"}
           table  == S!config_load(conf)
           src    == CASE env \notin none -> env
                       [] env \in none /\ flag \notin none -> flag
                       [] OTHER -> S!config_get(table, "level")
<1> SUFFICES ASSUME Cardinality({conf[i].key : i \in 1..n}) < MaxEntries
             PROVE  \E level \in levels :
                      S!resolve_log_level(env, flag, table) =
                        IF level \in known THEN level ELSE "warn"
  <2>1. S!Cardinality({conf[i].key : i \in DOMAIN conf}) = Cardinality({conf[i].key : i \in 1..n})
    BY DEF S!Cardinality, Cardinality
  <2> QED
    BY <2>1 DEF S!LevelFromGiven
<1>1. S!config_get(table, "level") = IF own = {} THEN S!Default ELSE conf[S!Max(own)].val
  BY ConfigGets, ZenonT(60)
<1>2. S!resolve_log_level(env, flag, table) = IF src \in known THEN src ELSE "warn"
  BY DEF S!resolve_log_level
<1>3. S!Default \notin known /\ S!Empty \notin known
  BY DEF S!Default, S!Empty
<1> HIDE DEF own, none, known, table
<1>4. CASE env \notin none
  <2>1. env \in levels /\ src = env
    BY <1>4
  <2> HIDE DEF levels, src
  <2> QED
    BY <1>2, <2>1
<1>5. CASE env \in none /\ flag \notin none
  <2>1. flag \in levels /\ src = flag
    BY <1>5
  <2> HIDE DEF levels, src
  <2> QED
    BY <1>2, <2>1
<1>6. CASE env \in none /\ flag \in none
  <2>1. given = {}
    BY <1>6
  <2>2. src = S!config_get(table, "level")
    BY <1>6
  <2>3. levels = IF own # {} THEN {conf[S!Max(own)].val} ELSE {S!Empty}
    BY <2>1
  <2> HIDE DEF levels, src
  <2> QED
    BY <1>1, <1>2, <1>3, <2>2, <2>3
<1> QED
  BY <1>4, <1>5, <1>6

-----------------------------------------------------------------------------
(* Endpoints.                                                              *)

\* The first provider at one of these positions.
FirstOf(places) == IF places = {} THEN E!NoSpec ELSE E!Providers[E!Min(places)]

ByName(name)     == {i \in DOMAIN E!Providers : E!Providers[i].name = name}
ByKey(key)       == {i \in DOMAIN E!Providers : key \in E!Providers[i].keys}
ByEither(key, u) == {i \in DOMAIN E!Providers : key \in E!Providers[i].keys \/ u = E!Url(E!Providers[i].name)}

\* The table of providers.
LEMMA ProvidersTable ==
  /\ DOMAIN E!Providers = 1..4 /\ Len(E!Providers) = 4
  /\ \A i \in 1..4 : E!Providers[i].name # "none"
<1>1. DOMAIN E!Providers = 1..4 /\ Len(E!Providers) = 4
  BY DEF E!Providers
<1>2. /\ E!Providers[1].name = "openrouter" /\ E!Providers[2].name = "groq"
      /\ E!Providers[3].name = "together" /\ E!Providers[4].name = "openai"
  BY DEF E!Providers, E!Spec
<1>3. \A i \in 1..4 : i \in {1, 2, 3, 4}
  OBVIOUS
<1> QED
  BY <1>1, <1>2, <1>3

\* A position of the table that is not empty has a least one in it.
LEMMA FirstIsThere ==
  ASSUME NEW places, places \subseteq DOMAIN E!Providers, places # {}
  PROVE  E!Min(places) \in places /\ E!Min(places) # 0 /\ FirstOf(places) # E!NoSpec
<1>1. places \subseteq 1..4 /\ places \subseteq Nat
  BY ProvidersTable
<1>2. Min(places) \in places
  BY <1>1, LeastNumber
<1>3. E!Min(places) = Min(places)
  BY DEF E!Min, Min
<1>4. FirstOf(places).name # "none"
  BY <1>1, <1>2, <1>3, ProvidersTable DEF FirstOf
<1> QED
  BY <1>1, <1>2, <1>3, <1>4 DEF E!NoSpec, E!Spec

\* How the registry finds a provider.
LEMMA RegistryFinds ==
  /\ \A name : E!registry_find_by_name(name) = FirstOf(ByName(name))
  /\ \A key, u : E!registry_detect(key, u) = FirstOf(ByEither(key, u))
<1>1. ASSUME NEW name
      PROVE  E!registry_find_by_name(name) = FirstOf(ByName(name))
  <2>1. E!SelectInSeq(E!Providers, LAMBDA s : s.name = name)
          = IF ByName(name) # {} THEN E!Min(ByName(name)) ELSE 0
    BY ProvidersTable DEF E!SelectInSeq, ByName
  <2>2. ByName(name) # {} => E!Min(ByName(name)) # 0
    BY FirstIsThere DEF ByName
  <2> QED
    BY <2>1, <2>2 DEF E!registry_find_by_name, E!First, FirstOf
<1>2. ASSUME NEW key, NEW u
      PROVE  E!registry_detect(key, u) = FirstOf(ByEither(key, u))
  <2>1. E!SelectInSeq(E!Providers, LAMBDA s : key \in s.keys \/ u = E!Url(s.name))
          = IF ByEither(key, u) # {} THEN E!Min(ByEither(key, u)) ELSE 0
    BY ProvidersTable DEF E!SelectInSeq, ByEither
  <2>2. ByEither(key, u) # {} => E!Min(ByEither(key, u)) # 0
    BY FirstIsThere DEF ByEither
  <2> QED
    BY <2>1, <2>2 DEF E!registry_detect, E!First, FirstOf
<1> QED
  BY <1>1, <1>2

\* A request goes to the URL that is set for the kind of provider in use, whatever is
\* set beside it.
THEOREM GoesWhereItIsSet ==
  ASSUME NEW conf
  PROVE  E!GoesWhereSet(conf)
<1> DEFINE made  == E!Boot(conf)
           u     == conf.url
           first == E!openai_create(conf.type, u, conf.key, conf.env)
           named == ByName(conf.type)
           known == IF named # {} THEN named ELSE ByKey(conf.key)
<1> SUFFICES ASSUME conf.model # E!Unset
             PROVE  E!GoesWhereSet(conf)
  BY DEF E!GoesWhereSet
<1>1. \A n : E!Url(n) # E!Unset /\ <<"default", n>> # E!Unset
  <2>1. \A n : E!Url(n)[1] = "url" /\ E!Unset[1] = "unset" /\ <<"default", n>>[1] = "default"
    BY DEF E!Url, E!Unset
  <2> QED
    BY <2>1
<1>2. CASE conf.type = "ollama"
  <2>1. made.api = "ollama" /\ made.url = E!OllamaUrl(conf)
    BY <1>2 DEF E!Boot
  <2>2. E!OllamaUrl(conf) \in {conf.ollamaEnv, conf.ollama, conf.legacy, E!Url("localhost")} \ {E!Unset}
    BY <1>1 DEF E!OllamaUrl
  <2> QED
    BY <1>2, <2>1, <2>2 DEF E!GoesWhereSet
<1>3. ASSUME conf.type # "ollama", first # E!Refused
      PROVE  made = first
  BY <1>3 DEF E!Boot
<1>4. CASE conf.type # "ollama" /\ u # E!Unset
  <2>1. first.api = "openai" /\ first.url = u
    BY <1>4 DEF E!openai_create, E!registry_resolve_url
  <2>2. first # E!Refused
    BY <2>1 DEF E!Refused
  <2>3. made = first
    BY <1>3, <1>4, <2>2
  <2> HIDE DEF first, made
  <2>4. made.api = "openai" /\ made.url = conf.url
    BY <2>1, <2>3
  <2> QED
    BY <1>4, <2>4 DEF E!GoesWhereSet, made
<1>5. CASE conf.type # "ollama" /\ u = E!Unset
  <2>1. ByEither(conf.key, u) = ByKey(conf.key)
    BY <1>1, <1>5 DEF ByEither, ByKey
  <2>2. named \subseteq DOMAIN E!Providers /\ ByKey(conf.key) \subseteq DOMAIN E!Providers
    BY DEF ByName, ByKey
  <2>3. FirstOf(known) = IF E!registry_find_by_name(conf.type) # E!NoSpec
                         THEN E!registry_find_by_name(conf.type)
                         ELSE E!registry_detect(conf.key, u)
    <3>1. /\ E!registry_find_by_name(conf.type) = FirstOf(named)
          /\ E!registry_detect(conf.key, u) = FirstOf(ByKey(conf.key))
      BY <2>1, RegistryFinds
    <3>2. named # {} => FirstOf(named) # E!NoSpec
      BY <2>2, FirstIsThere
    <3>3. named = {} => FirstOf(named) = E!NoSpec
      BY DEF FirstOf
    <3> QED
      BY <3>1, <3>2, <3>3
  <2> DEFINE spec == FirstOf(known)
  <2>4. first = IF E!registry_resolve_url(spec, u) = E!Unset THEN E!Refused
                ELSE [api |-> "openai", url |-> E!registry_resolve_url(spec, u),
                      auth |-> IF conf.key # E!Unset THEN conf.key ELSE conf.env,
                      headers |-> spec.headers]
    BY <2>3, Zenon DEF E!openai_create
  <2>5. E!registry_resolve_url(spec, u) = IF spec # E!NoSpec THEN <<"default", spec.name>> ELSE E!Unset
    BY <1>5 DEF E!registry_resolve_url
  <2>6. CASE known = {}
    <3>1. spec = E!NoSpec
      BY <2>6 DEF FirstOf
    <3>2. first = E!Refused
      BY <2>4, <2>5, <3>1
    <3>3. E!registry_detect(conf.key, u) = E!NoSpec
      BY <2>1, <2>6, RegistryFinds DEF FirstOf
    <3>4. made = E!Refused
      BY <1>5, <3>2, <3>3 DEF E!Boot
    <3> QED
      BY <1>5, <2>6, <3>4 DEF E!GoesWhereSet, ByName, ByKey
  <2>7. CASE known # {}
    <3>1. spec = E!Providers[E!Min(known)] /\ spec # E!NoSpec
      BY <2>2, <2>7, FirstIsThere DEF FirstOf
    <3>2. first.url = <<"default", spec.name>> /\ first.headers = spec.headers /\ first.api = "openai"
      BY <1>1, <2>4, <2>5, <3>1
    <3>3. made = first
      <4>1. first # E!Refused
        BY <3>2 DEF E!Refused
      <4> QED
        BY <1>3, <1>5, <4>1
    <3> HIDE DEF made, first, spec
    <3>4. /\ made.url = <<"default", E!Providers[E!Min(known)].name>>
          /\ made.headers = E!Providers[E!Min(known)].headers
      BY <3>1, <3>2, <3>3
    <3> QED
      BY <1>5, <2>7, <3>4 DEF E!GoesWhereSet, made, ByName, ByKey
  <2> QED
    BY <2>6, <2>7
<1> QED
  BY <1>2, <1>4, <1>5

-----------------------------------------------------------------------------
(* Devices.                                                                *)

\* A line of device.conf: a header, finished or not, or a key.
ConfLines(names, keys, vals) ==
  {D!Header(x) : x \in names} \cup {D!OpenHeader(x) : x \in names}
    \cup {D!Key(key, val) : key \in keys, val \in vals}

\* What a device may have in its fields.
Values(vals) == vals \cup {D!Defaults[f] : f \in D!Fields}

Profile(names, vals) == [name : names, fields : [D!Fields -> Values(vals)]]

Parsed(names, vals) == [devs : Seq(Profile(names, vals)), full : BOOLEAN]

NothingParsed == [devs |-> <<>>, full |-> FALSE]

\* How the devices are read, written out.
LEMMA DevicesAreFolded ==
  ASSUME NEW lines
  PROVE  D!parse_device_conf(lines) =
           (CHOOSE f : f = [s \in SUBSET (DOMAIN lines) |->
                              IF s = {} THEN NothingParsed
                              ELSE D!ParseLine(f[s \ {Max(s)}], lines[Max(s)])])[DOMAIN lines].devs
BY Zenon DEF D!parse_device_conf, D!FoldLeft, D!MapThenFoldSet, D!Max, Max, NothingParsed

\* What a header and a key carry.
LEMMA LineCarries ==
  ASSUME NEW names, NEW keys, NEW vals, NEW line \in ConfLines(names, keys, vals)
  PROVE  /\ line.kind = "header" => line.name \in names /\ line = D!Header(line.name)
         /\ line.kind = "key" => line.key \in keys /\ line.val \in vals
         /\ line.kind = "key" \/ line.key = ""
<1>1. CASE \E x \in names : line = D!Header(x)
  <2> PICK x \in names : line = D!Header(x)
    BY <1>1
  <2> QED
    BY DEF D!Header
<1>2. CASE \E x \in names : line = D!OpenHeader(x)
  <2> PICK x \in names : line = D!OpenHeader(x)
    BY <1>2
  <2> QED
    BY DEF D!OpenHeader
<1>3. CASE \E key \in keys, val \in vals : line = D!Key(key, val)
  <2> PICK key \in keys, val \in vals : line = D!Key(key, val)
    BY <1>3
  <2> QED
    BY DEF D!Key
<1>4. \/ \E x \in names : line = D!Header(x)
      \/ \E x \in names : line = D!OpenHeader(x)
      \/ \E key \in keys, val \in vals : line = D!Key(key, val)
  BY DEF ConfLines
<1> QED
  BY <1>1, <1>2, <1>3, <1>4

\* What a line does, by its kind.
LEMMA LineParsed ==
  ASSUME NEW names, NEW keys, NEW vals, NEW st \in Parsed(names, vals),
         NEW line \in ConfLines(names, keys, vals)
  PROVE  /\ st.full => D!ParseLine(st, line) = st
         /\ ~st.full /\ line.kind = "header" /\ Len(st.devs) >= MaxDevices =>
              /\ D!ParseLine(st, line).devs = st.devs
              /\ D!ParseLine(st, line).full
         /\ ~st.full /\ line.kind = "header" /\ ~(Len(st.devs) >= MaxDevices) =>
              /\ D!ParseLine(st, line).devs = Append(st.devs, D!Device(line.name))
              /\ ~D!ParseLine(st, line).full
         /\ ~st.full /\ line.kind = "key" /\ st.devs # <<>> /\ line.key \in D!Fields =>
              /\ D!ParseLine(st, line).devs
                   = [st.devs EXCEPT ![Len(st.devs)].fields[line.key] = line.val]
              /\ ~D!ParseLine(st, line).full
         /\ ~st.full /\ line.kind # "header"
              /\ ~(line.kind = "key" /\ st.devs # <<>> /\ line.key \in D!Fields) =>
              D!ParseLine(st, line) = st
<1>1. CASE st.full
  BY <1>1 DEF D!ParseLine
<1>2. CASE ~st.full
  <2>1. st = [devs |-> st.devs, full |-> st.full]
    BY DEF Parsed
  <2>2. CASE line.kind = "header" /\ Len(st.devs) >= MaxDevices
    BY <1>2, <2>1, <2>2 DEF D!ParseLine
  <2>3. CASE line.kind = "header" /\ ~(Len(st.devs) >= MaxDevices)
    BY <1>2, <2>1, <2>3 DEF D!ParseLine
  <2>4. CASE line.kind = "key" /\ st.devs # <<>> /\ line.key \in D!Fields
    BY <1>2, <2>1, <2>4 DEF D!ParseLine
  <2>5. CASE line.kind # "header" /\ ~(line.kind = "key" /\ st.devs # <<>> /\ line.key \in D!Fields)
    BY <1>2, <2>5 DEF D!ParseLine
  <2> QED
    BY <1>2, <2>2, <2>3, <2>4, <2>5
<1> QED
  BY <1>1, <1>2

\* A device as its header leaves it, and with a key more.
LEMMA ProfilesMade ==
  ASSUME NEW names, NEW vals
  PROVE  /\ \A x \in names : D!Device(x) \in Profile(names, vals)
         /\ \A d \in Profile(names, vals) : \A f \in D!Fields : \A v \in vals :
              [d EXCEPT !.fields[f] = v] \in Profile(names, vals)
<1> DEFINE W == Values(vals)
<1>1. D!Defaults \in [D!Fields -> W]
  <2>1. D!Defaults = [f \in D!Fields |-> D!Defaults[f]]
    BY DEF D!Defaults, D!Fields
  <2>2. \A f \in D!Fields : D!Defaults[f] \in W
    BY DEF Values
  <2> HIDE DEF W
  <2> QED
    BY <2>1, <2>2
<1>2. \A v \in vals : v \in W
  BY DEF Values
<1>3. Profile(names, vals) = [name : names, fields : [D!Fields -> W]]
  BY DEF Profile
<1> HIDE DEF W
<1>4. ASSUME NEW x \in names
      PROVE  D!Device(x) \in Profile(names, vals)
  BY <1>1, <1>3 DEF D!Device
<1>5. ASSUME NEW d \in Profile(names, vals), NEW f \in D!Fields, NEW v \in vals
      PROVE  [d EXCEPT !.fields[f] = v] \in Profile(names, vals)
  <2>1. d = [name |-> d.name, fields |-> d.fields] /\ d.name \in names /\ d.fields \in [D!Fields -> W]
    BY <1>3
  <2>2. [d EXCEPT !.fields[f] = v] = [name |-> d.name, fields |-> [d.fields EXCEPT ![f] = v]]
    BY <2>1
  <2>3. [d.fields EXCEPT ![f] = v] \in [D!Fields -> W]
    BY <1>2, <2>1
  <2> QED
    BY <1>3, <2>1, <2>2, <2>3
<1> QED
  BY <1>4, <1>5

\* Reading a line keeps the types.
LEMMA ParsingKeeps ==
  ASSUME NEW names, NEW keys, NEW vals, NEW st \in Parsed(names, vals),
         NEW line \in ConfLines(names, keys, vals)
  PROVE  D!ParseLine(st, line) \in Parsed(names, vals)
<1> DEFINE P == Profile(names, vals)
           n == Len(st.devs)
           u == D!ParseLine(st, line)
<1>1. st = [devs |-> st.devs, full |-> st.full] /\ st.devs \in Seq(P) /\ st.full \in BOOLEAN
  BY DEF Parsed
<1> HIDE DEF P
<1>2. CASE u = st
  BY <1>2
<1>3. CASE ~st.full /\ line.kind = "header" /\ Len(st.devs) >= MaxDevices
  <2>1. u = [devs |-> st.devs, full |-> TRUE]
    BY <1>1, <1>3 DEF D!ParseLine
  <2> QED
    BY <1>1, <2>1 DEF Parsed, P
<1>4. CASE ~st.full /\ line.kind = "header" /\ ~(Len(st.devs) >= MaxDevices)
  <2>1. u = [devs |-> Append(st.devs, D!Device(line.name)), full |-> st.full]
    BY <1>1, <1>4 DEF D!ParseLine
  <2>2. line.name \in names
    BY <1>4, LineCarries
  <2>3. D!Device(line.name) \in P
    BY <2>2, ProfilesMade DEF P
  <2>4. Append(st.devs, D!Device(line.name)) \in Seq(P)
    BY <1>1, <2>3
  <2> QED
    BY <1>1, <2>1, <2>4 DEF Parsed, P
<1>5. CASE ~st.full /\ line.kind = "key" /\ st.devs # <<>> /\ line.key \in D!Fields
  <2>0. n \in 1..n /\ n \in Nat
    BY <1>1, <1>5
  <2>1. u = [devs |-> [st.devs EXCEPT ![n].fields[line.key] = line.val], full |-> st.full]
    BY <1>1, <1>5 DEF D!ParseLine
  <2>2. line.val \in vals
    BY <1>5, LineCarries
  <2>3. st.devs[n] \in P
    BY <1>1, <2>0
  <2>4. [st.devs[n] EXCEPT !.fields[line.key] = line.val] \in P
    BY <1>5, <2>2, <2>3, ProfilesMade DEF P
  <2>5. [st.devs EXCEPT ![n].fields[line.key] = line.val]
          = [st.devs EXCEPT ![n] = [st.devs[n] EXCEPT !.fields[line.key] = line.val]]
    OBVIOUS
  <2>6. [st.devs EXCEPT ![n] = [st.devs[n] EXCEPT !.fields[line.key] = line.val]] \in Seq(P)
    BY <1>1, <2>0, <2>4
  <2> QED
    BY <1>1, <2>1, <2>5, <2>6 DEF Parsed, P
<1>6. st.full => u = st
  BY <1>1 DEF D!ParseLine
<1>7. ~st.full /\ line.kind # "header" /\ ~(line.kind = "key" /\ st.devs # <<>> /\ line.key \in D!Fields)
        => u = st
  BY <1>1 DEF D!ParseLine
<1> HIDE DEF u, n
<1> QED
  BY <1>2, <1>3, <1>4, <1>5, <1>6, <1>7

\* The devices, position by position of the file.
DeviceSteps(h, names, vals, lines, n) ==
  /\ h[0] = NothingParsed /\ h[n].devs = D!parse_device_conf(lines)
  /\ \A k \in 0..n : h[k] \in Parsed(names, vals)
  /\ \A k \in 1..n : h[k] = D!ParseLine(h[k - 1], lines[k])

\* The devices are read line by line.
LEMMA DevicesByLines ==
  ASSUME NEW n \in Nat, NEW names, NEW keys, NEW vals,
         NEW lines \in [1..n -> ConfLines(names, keys, vals)]
  PROVE  \E h : DeviceSteps(h, names, vals, lines, n)
<1> DEFINE V       == Parsed(names, vals)
           G       == [p \in V \X (1..n) |-> D!ParseLine(p[1], lines[p[2]])]
           made(f) == f = [s \in SUBSET (1..n) |->
                             IF s = {} THEN NothingParsed
                             ELSE D!ParseLine(f[s \ {Max(s)}], lines[Max(s)])]
           c       == CHOOSE f : made(f)
<1>1. DOMAIN lines = 1..n
  OBVIOUS
<1>2. D!parse_device_conf(lines) = c[1..n].devs
  BY <1>1, DevicesAreFolded
<1>3. NothingParsed \in V
  BY DEF NothingParsed, Parsed
<1>4. G \in [V \X (1..n) -> V] /\ \A v \in V : \A k \in 1..n : G[<<v, k>>] = D!ParseLine(v, lines[k])
  <2>1. \A v \in V : \A k \in 1..n : D!ParseLine(v, lines[k]) \in V
    BY ParsingKeeps
  <2> HIDE DEF V
  <2> QED
    BY <2>1
<1> HIDE DEF G, V
<1>5. \E f \in [SUBSET (1..n) -> V] : Folding(f, NothingParsed, G, n)
  BY <1>3, <1>4, FoldExists
<1>6. PICK f0 \in [SUBSET (1..n) -> V] : Folding(f0, NothingParsed, G, n)
  BY <1>5
<1>7. \A s \in SUBSET (1..n) : s # {} =>
        Max(s) \in 1..n /\ s \ {Max(s)} \in SUBSET (1..n)
  BY GreatestPosition
<1>8. made(f0)
  <2>1. \A s \in SUBSET (1..n) : s # {} =>
          G[<<f0[s \ {Max(s)}], Max(s)>>] = D!ParseLine(f0[s \ {Max(s)}], lines[Max(s)])
    <3> HIDE DEF made
    <3> TAKE s \in SUBSET (1..n)
    <3> HAVE s # {}
    <3>1. Max(s) \in 1..n /\ f0[s \ {Max(s)}] \in V
      BY <1>7
    <3> QED
      BY <1>4, <3>1, Zenon
  <2>2. f0 = [s \in SUBSET (1..n) |->
                IF s = {} THEN NothingParsed ELSE G[<<f0[s \ {Max(s)}], Max(s)>>]]
    BY <1>6 DEF Folding
  <2>3. [s \in SUBSET (1..n) |->
           IF s = {} THEN NothingParsed ELSE G[<<f0[s \ {Max(s)}], Max(s)>>]]
          = [s \in SUBSET (1..n) |->
               IF s = {} THEN NothingParsed ELSE D!ParseLine(f0[s \ {Max(s)}], lines[Max(s)])]
    BY <2>1, Zenon
  <2> QED
    BY <2>2, <2>3, Zenon
<1>9. made(c)
  BY <1>8
<1> HIDE DEF c
<1>10. \A s \in SUBSET (1..n) :
         c[s] = IF s = {} THEN NothingParsed ELSE D!ParseLine(c[s \ {Max(s)}], lines[Max(s)])
  BY <1>9, Zenon
<1> HIDE DEF made
<1>11. FoldsWith(c, V, NothingParsed, G, n)
  <2>1. c[{}] = NothingParsed
    <3>1. {} \in SUBSET (1..n)
      OBVIOUS
    <3> QED
      BY <1>10, <3>1, Zenon
  <2>2. ASSUME NEW s \in SUBSET (1..n), s # {}, c[s \ {Max(s)}] \in V
        PROVE  c[s] = G[<<c[s \ {Max(s)}], Max(s)>>]
    <3>1. Max(s) \in 1..n
      BY <1>7, <2>2
    <3>2. G[<<c[s \ {Max(s)}], Max(s)>>] = D!ParseLine(c[s \ {Max(s)}], lines[Max(s)])
      BY <1>4, <2>2, <3>1, Zenon
    <3> QED
      BY <1>10, <2>2, <3>2, Zenon
  <2> QED
    BY <2>1, <2>2 DEF FoldsWith
<1>12. StepsTo(V, NothingParsed, G, n, c[1..n])
  BY <1>3, <1>4, <1>11, FoldSteps
<1>13. PICK h : Steps(h, V, NothingParsed, G, n, c[1..n])
  BY <1>12 DEF StepsTo
<1>14. /\ h[0] = NothingParsed /\ h[n].devs = D!parse_device_conf(lines)
       /\ \A k \in 0..n : h[k] \in V
       /\ \A k \in 1..n : h[k] = G[<<h[k - 1], k>>]
  BY <1>2, <1>13 DEF Steps
<1>15. \A k \in 1..n : h[k] = D!ParseLine(h[k - 1], lines[k])
  <2> TAKE k \in 1..n
  <2>1. k - 1 \in 0..n
    OBVIOUS
  <2> QED
    BY <1>4, <1>14, <2>1, Zenon
<1> QED
  BY <1>14, <1>15 DEF DeviceSteps, V

\* The places of key f in the section that line a begins, up to line k.
Theirs(lines, a, k, f) ==
  {i \in 1..k : /\ a < i /\ lines[i].key = f
                /\ \A j \in 1..i : a < j => lines[j].kind # "header"}

\* v is what that section says of f, up to line k.
SaidOf(v, lines, a, k, f) ==
  \/ Theirs(lines, a, k, f) = {} /\ v = D!Defaults[f]
  \/ \E m \in Theirs(lines, a, k, f) :
       v = lines[m].val /\ \A i \in Theirs(lines, a, k, f) : i <= m

\* A line changes what is said of a key only where it is one of its places.
LEMMA SaidBefore ==
  ASSUME NEW v, NEW lines, NEW a \in Nat, NEW k \in Nat, NEW f,
         SaidOf(v, lines, a, k, f), k + 1 \notin Theirs(lines, a, k + 1, f)
  PROVE  SaidOf(v, lines, a, k + 1, f)
<1>1. Theirs(lines, a, k + 1, f) = Theirs(lines, a, k, f)
  <2>1. 1..(k + 1) = (1..k) \cup {k + 1}
    OBVIOUS
  <2> QED
    BY <2>1 DEF Theirs
<1> QED
  BY <1>1 DEF SaidOf

\* There it says what the line has.
LEMMA SaidNow ==
  ASSUME NEW lines, NEW a \in Nat, NEW k \in Nat, NEW f, k + 1 \in Theirs(lines, a, k + 1, f)
  PROVE  SaidOf(lines[k + 1].val, lines, a, k + 1, f)
<1>1. \A i \in Theirs(lines, a, k + 1, f) : i <= k + 1
  BY DEF Theirs
<1> QED
  BY <1>1 DEF SaidOf

\* A section that begins says nothing yet.
LEMMA SaidNothing ==
  ASSUME NEW lines, NEW k \in Nat, NEW f
  PROVE  SaidOf(D!Defaults[f], lines, k, k, f)
<1>1. Theirs(lines, k, k, f) = {}
  BY DEF Theirs
<1> QED
  BY <1>1 DEF SaidOf

\* p gives each device the header it comes from, up to line k: the first ones, and as
\* many as there is room for.
Placed(p, st, lines, k) ==
  /\ \A j \in 1..Len(st.devs) : p[j] \in 1..k /\ lines[p[j]] = D!Header(st.devs[j].name)
  /\ \A i, j \in 1..Len(st.devs) : i < j => p[i] < p[j]
  /\ \A i \in 1..k : lines[i].kind = "header" =>
       \/ \E j \in 1..Len(st.devs) : p[j] = i
       \/ st.full /\ \A j \in 1..Len(st.devs) : p[j] < i
  /\ st.full => /\ Len(st.devs) >= MaxDevices
                /\ \E i \in 1..k : lines[i].kind = "header" /\ \A j \in 1..Len(st.devs) : p[j] < i

\* Each device has what its section says.
Filled(p, st, lines, k) ==
  \A j \in 1..Len(st.devs) : \A f \in D!Fields :
    SaidOf(st.devs[j].fields[f], lines, p[j], k, f)

ReadSo(st, lines, k) == \E p : Placed(p, st, lines, k) /\ Filled(p, st, lines, k)

\* A line that no device takes leaves each with what its section says.
LEMMA FilledStill ==
  ASSUME NEW k \in Nat, NEW st, NEW lines, NEW p, Placed(p, st, lines, k), Filled(p, st, lines, k),
         \A j \in 1..Len(st.devs) : \A f \in D!Fields : k + 1 \notin Theirs(lines, p[j], k + 1, f)
  PROVE  Filled(p, st, lines, k + 1)
<1> SUFFICES ASSUME NEW j \in 1..Len(st.devs), NEW f \in D!Fields
             PROVE  SaidOf(st.devs[j].fields[f], lines, p[j], k + 1, f)
  BY DEF Filled
<1>1. p[j] \in Nat
  BY DEF Placed
<1>2. SaidOf(st.devs[j].fields[f], lines, p[j], k, f)
  BY DEF Filled
<1> QED
  BY <1>1, <1>2, SaidBefore

\* A line that is no header leaves the devices where they are.
LEMMA PlacedStill ==
  ASSUME NEW k \in Nat, NEW st, NEW lines, NEW p, Placed(p, st, lines, k),
         lines[k + 1].kind # "header"
  PROVE  Placed(p, st, lines, k + 1)
<1>1. 1..(k + 1) = (1..k) \cup {k + 1}
  OBVIOUS
<1> QED
  BY <1>1 DEF Placed

\* What has a field for its key is a key.
LEMMA KeysAreKeys ==
  ASSUME NEW names, NEW keys, NEW vals, NEW line \in ConfLines(names, keys, vals),
         line.key \in D!Fields
  PROVE  line.kind = "key"
<1>1. "" \notin D!Fields
  BY DEF D!Fields
<1> QED
  BY <1>1, LineCarries

\* A header that finds room is a device of its own.
LEMMA HeaderAdds ==
  ASSUME NEW k \in Nat, NEW names, NEW vals, NEW st \in Parsed(names, vals), NEW lines,
         ReadSo(st, lines, k), ~st.full, NEW x, lines[k + 1] = D!Header(x),
         NEW u, ~u.full, u.devs = Append(st.devs, D!Device(x))
  PROVE  ReadSo(u, lines, k + 1)
<1> DEFINE n == Len(st.devs)
<1> PICK p : Placed(p, st, lines, k) /\ Filled(p, st, lines, k)
  BY DEF ReadSo
<1> DEFINE q == [j \in 1..(n + 1) |-> IF j = n + 1 THEN k + 1 ELSE p[j]]
<1>1. n \in Nat /\ st.devs \in Seq(Profile(names, vals))
  BY DEF Parsed
<1>2. Len(u.devs) = n + 1 /\ u.devs[n + 1] = D!Device(x) /\ \A j \in 1..n : u.devs[j] = st.devs[j]
  BY <1>1
<1>3. q[n + 1] = k + 1 /\ \A j \in 1..n : q[j] = p[j]
  BY <1>1
<1>4. 1..(n + 1) = (1..n) \cup {n + 1} /\ 1..(k + 1) = (1..k) \cup {k + 1}
  BY <1>1
<1>5. lines[k + 1].kind = "header" /\ D!Device(x).name = x /\ D!Device(x).fields = D!Defaults
  <2>1. D!Header(x).kind = "header"
    BY DEF D!Header
  <2>2. D!Device(x).name = x /\ D!Device(x).fields = D!Defaults
    BY DEF D!Device
  <2> QED
    BY <2>1, <2>2
<1>6. \A j \in 1..n : p[j] \in 1..k
  BY DEF Placed
<1> HIDE DEF q, n
<1>7. Placed(q, u, lines, k + 1)
  <2>1. \A j \in 1..Len(u.devs) : q[j] \in 1..(k + 1) /\ lines[q[j]] = D!Header(u.devs[j].name)
    <3>1. \A j \in 1..n : lines[p[j]] = D!Header(st.devs[j].name)
      BY DEF Placed, n
    <3> QED
      BY <1>2, <1>3, <1>4, <1>5, <1>6, <3>1
  <2>2. \A i, j \in 1..Len(u.devs) : i < j => q[i] < q[j]
    <3>1. \A i, j \in 1..n : i < j => p[i] < p[j]
      BY DEF Placed, n
    <3>2. \A j \in 1..n : p[j] < k + 1 /\ j < n + 1
      BY <1>1, <1>6
    <3> QED
      BY <1>1, <1>2, <1>3, <1>4, <3>1, <3>2
  <2>3. \A i \in 1..(k + 1) : lines[i].kind = "header" => \E j \in 1..Len(u.devs) : q[j] = i
    <3>1. \A i \in 1..k : lines[i].kind = "header" => \E j \in 1..n : p[j] = i
      BY DEF Placed, n
    <3> QED
      BY <1>2, <1>3, <1>4, <3>1
  <2> QED
    BY <2>1, <2>2, <2>3 DEF Placed
<1>8. Filled(q, u, lines, k + 1)
  <2>1. \A j \in 1..n : \A f \in D!Fields : k + 1 \notin Theirs(lines, p[j], k + 1, f)
    BY <1>5, <1>6 DEF Theirs
  <2>2. Filled(p, st, lines, k + 1)
    BY <2>1, FilledStill DEF n
  <2>3. \A j \in 1..n : \A f \in D!Fields : SaidOf(u.devs[j].fields[f], lines, q[j], k + 1, f)
    BY <1>2, <1>3, <2>2 DEF Filled, n
  <2>4. \A f \in D!Fields : SaidOf(D!Defaults[f], lines, k + 1, k + 1, f)
    <3>1. k + 1 \in Nat
      OBVIOUS
    <3> QED
      BY <3>1, SaidNothing
  <2>5. \A f \in D!Fields : SaidOf(u.devs[n + 1].fields[f], lines, q[n + 1], k + 1, f)
    BY <1>2, <1>3, <1>5, <2>4
  <2> QED
    BY <1>2, <1>4, <2>3, <2>5 DEF Filled
<1> QED
  BY <1>7, <1>8 DEF ReadSo

\* A header that finds none ends the reading, and its keys are nobody's.
LEMMA HeaderEnds ==
  ASSUME NEW k \in Nat, NEW names, NEW vals, NEW st \in Parsed(names, vals), NEW lines,
         ReadSo(st, lines, k), ~st.full, lines[k + 1].kind = "header",
         Len(st.devs) >= MaxDevices, NEW u, u.full, u.devs = st.devs
  PROVE  ReadSo(u, lines, k + 1)
<1> PICK p : Placed(p, st, lines, k) /\ Filled(p, st, lines, k)
  BY DEF ReadSo
<1>1. \A j \in 1..Len(st.devs) : p[j] \in 1..k /\ p[j] < k + 1
  BY DEF Placed
<1>2. 1..(k + 1) = (1..k) \cup {k + 1}
  OBVIOUS
<1>3. Placed(p, u, lines, k + 1)
  BY <1>1, <1>2 DEF Placed
<1>4. \A j \in 1..Len(st.devs) : \A f \in D!Fields : k + 1 \notin Theirs(lines, p[j], k + 1, f)
  BY <1>1 DEF Theirs
<1>5. Filled(p, st, lines, k + 1)
  BY <1>4, FilledStill
<1>6. Filled(p, u, lines, k + 1)
  BY <1>5 DEF Filled
<1> QED
  BY <1>3, <1>6 DEF ReadSo

\* A key of a device is the last one's.
LEMMA KeyFills ==
  ASSUME NEW k \in Nat, NEW names, NEW vals, NEW st \in Parsed(names, vals), NEW lines,
         ReadSo(st, lines, k), ~st.full, st.devs # <<>>, lines[k + 1].kind = "key",
         lines[k + 1].key \in D!Fields, NEW u, ~u.full,
         u.devs = [st.devs EXCEPT ![Len(st.devs)].fields[lines[k + 1].key] = lines[k + 1].val]
  PROVE  ReadSo(u, lines, k + 1)
<1> DEFINE n == Len(st.devs)
           g == lines[k + 1].key
           d == st.devs[n]
<1> PICK p : Placed(p, st, lines, k) /\ Filled(p, st, lines, k)
  BY DEF ReadSo
<1>1. n \in Nat /\ n \in 1..n /\ st.devs \in Seq(Profile(names, vals))
  BY DEF Parsed
<1>2. /\ Len(u.devs) = n /\ \A j \in 1..n : j # n => u.devs[j] = st.devs[j]
      /\ u.devs[n] = [d EXCEPT !.fields[g] = lines[k + 1].val]
  BY <1>1
<1>3. d \in Profile(names, vals)
  BY <1>1
<1>4. /\ u.devs[n].name = d.name /\ u.devs[n].fields[g] = lines[k + 1].val
      /\ \A f \in D!Fields : f # g => u.devs[n].fields[f] = d.fields[f]
  BY <1>2, <1>3 DEF Profile
<1>5. Placed(p, u, lines, k + 1)
  <2>1. Placed(p, st, lines, k + 1)
    BY PlacedStill
  <2>2. \A j \in 1..n : u.devs[j].name = st.devs[j].name
    BY <1>2, <1>4
  <2> HIDE DEF n, g, d
  <2>3. n = Len(st.devs)
    BY DEF n
  <2> QED
    BY <1>2, <2>1, <2>2, <2>3 DEF Placed
<1>6. \A j \in 1..n : p[j] \in 1..k /\ p[j] < k + 1 /\ lines[p[j]].kind = "header"
  <2>1. \A x : D!Header(x).kind = "header"
    BY DEF D!Header
  <2> QED
    BY <2>1 DEF Placed
<1>7. \A i \in 1..k : lines[i].kind = "header" => \E j \in 1..n : p[j] = i
  BY DEF Placed
<1>8. \A i, j \in 1..n : i < j => p[i] < p[j]
  BY DEF Placed
<1>9. \A j \in 1..n : \A f \in D!Fields :
        SaidOf(st.devs[j].fields[f], lines, p[j], k, f)
  BY DEF Filled
<1> HIDE DEF n, g, d
<1>10. ASSUME NEW j \in 1..n, NEW f \in D!Fields
       PROVE  SaidOf(u.devs[j].fields[f], lines, p[j], k + 1, f)
  <2>1. CASE j = n /\ f = g
    <3>1. k + 1 \in Theirs(lines, p[n], k + 1, g)
      <4>1. ASSUME NEW i \in 1..(k + 1), p[n] < i, lines[i].kind = "header"
            PROVE  FALSE
        <5>1. i \in 1..k
          BY <4>1
        <5> PICK m \in 1..n : p[m] = i
          BY <1>7, <4>1, <5>1
        <5>2. m = n \/ m < n
          BY <1>1
        <5>3. p[m] \in 1..k /\ p[n] \in 1..k
          BY <1>1, <1>6
        <5>4. m < n => p[m] < p[n]
          BY <1>1, <1>8
        <5> QED
          BY <4>1, <5>2, <5>3, <5>4
      <4> QED
        BY <1>1, <1>6, <4>1 DEF Theirs, g
    <3>2. p[n] \in Nat
      BY <1>1, <1>6
    <3> QED
      BY <1>4, <2>1, <3>1, <3>2, SaidNow
  <2>2. CASE ~(j = n /\ f = g)
    <3>1. u.devs[j].fields[f] = st.devs[j].fields[f]
      BY <1>2, <1>4, <2>2 DEF d
    <3>2. k + 1 \notin Theirs(lines, p[j], k + 1, f)
      <4>1. CASE f # g
        BY <4>1 DEF Theirs, g
      <4>2. CASE j # n
        <5>1. p[j] < p[n] /\ p[n] \in 1..(k + 1) /\ lines[p[n]].kind = "header"
          <6>1. j < n
            BY <1>1, <4>2
          <6>2. p[n] \in 1..k /\ lines[p[n]].kind = "header"
            BY <1>1, <1>6
          <6> QED
            BY <1>1, <1>8, <6>1, <6>2
        <5> QED
          BY <5>1 DEF Theirs
      <4> QED
        BY <2>2, <4>1, <4>2
    <3>3. p[j] \in Nat
      BY <1>6
    <3> QED
      BY <1>9, <3>1, <3>2, <3>3, SaidBefore
  <2> QED
    BY <2>1, <2>2
<1>11. Filled(p, u, lines, k + 1)
  BY <1>2, <1>10 DEF Filled
<1> QED
  BY <1>5, <1>11 DEF ReadSo

\* Any other line is as if it were not there.
LEMMA OthersPass ==
  ASSUME NEW k \in Nat, NEW names, NEW keys, NEW vals, NEW st \in Parsed(names, vals), NEW lines,
         lines[k + 1] \in ConfLines(names, keys, vals), ReadSo(st, lines, k),
         \/ st.full
         \/ /\ lines[k + 1].kind # "header"
            /\ ~(lines[k + 1].kind = "key" /\ st.devs # <<>> /\ lines[k + 1].key \in D!Fields)
  PROVE  ReadSo(st, lines, k + 1)
<1> DEFINE n == Len(st.devs)
<1> PICK p : Placed(p, st, lines, k) /\ Filled(p, st, lines, k)
  BY DEF ReadSo
<1>0. n \in Nat /\ st.devs \in Seq(Profile(names, vals))
  BY DEF Parsed
<1>1. \A j \in 1..n : p[j] \in 1..k /\ p[j] < k + 1
  BY DEF Placed
<1>2. 1..(k + 1) = (1..k) \cup {k + 1}
  OBVIOUS
<1>3. Placed(p, st, lines, k + 1)
  <2>1. CASE lines[k + 1].kind # "header"
    BY <2>1, PlacedStill
  <2>2. CASE st.full
    BY <1>1, <1>2, <2>2 DEF Placed
  <2> QED
    BY <2>1, <2>2
<1>4. ASSUME NEW j \in 1..n, NEW f \in D!Fields
      PROVE  k + 1 \notin Theirs(lines, p[j], k + 1, f)
  <2>1. CASE st.full
    <3> PICK i \in 1..k : lines[i].kind = "header" /\ p[j] < i
      BY <2>1 DEF Placed
    <3> QED
      BY <1>2 DEF Theirs
  <2>2. CASE ~st.full
    <3>1. st.devs # <<>>
      BY <1>0
    <3>2. ~(lines[k + 1].kind = "key" /\ lines[k + 1].key \in D!Fields) /\ lines[k + 1].kind # "header"
      BY <2>2, <3>1
    <3>3. lines[k + 1].key \notin D!Fields
      BY <3>2, KeysAreKeys
    <3> QED
      BY <3>3 DEF Theirs
  <2> QED
    BY <2>1, <2>2
<1>5. Filled(p, st, lines, k + 1)
  BY <1>4, FilledStill
<1> QED
  BY <1>3, <1>5 DEF ReadSo

\* The next line is read as well.
LEMMA NextIsRead ==
  ASSUME NEW k \in Nat, NEW names, NEW keys, NEW vals, NEW st \in Parsed(names, vals), NEW lines,
         lines[k + 1] \in ConfLines(names, keys, vals), ReadSo(st, lines, k)
  PROVE  ReadSo(D!ParseLine(st, lines[k + 1]), lines, k + 1)
<1> DEFINE line == lines[k + 1]
           u    == D!ParseLine(st, line)
<1>0. line \in ConfLines(names, keys, vals) /\ st = [devs |-> st.devs, full |-> st.full]
  BY DEF Parsed
<1>1. CASE \/ st.full
           \/ ~st.full /\ line.kind # "header"
                /\ ~(line.kind = "key" /\ st.devs # <<>> /\ line.key \in D!Fields)
  <2>1. u = st
    <3> HIDE DEF line
    <3> QED
      BY <1>1 DEF D!ParseLine
  <2> QED
    BY <1>1, <2>1, OthersPass
<1>2. CASE ~st.full /\ line.kind = "header" /\ Len(st.devs) >= MaxDevices
  <2>1. u.full /\ u.devs = st.devs
    <3> HIDE DEF line
    <3> QED
      BY <1>0, <1>2 DEF D!ParseLine
  <2> HIDE DEF u
  <2> QED
    BY <1>2, <2>1, HeaderEnds DEF u
<1>3. CASE ~st.full /\ line.kind = "header" /\ ~(Len(st.devs) >= MaxDevices)
  <2>1. ~u.full /\ u.devs = Append(st.devs, D!Device(line.name))
    <3> HIDE DEF line
    <3> QED
      BY <1>0, <1>3, LineParsed
  <2>2. line = D!Header(line.name)
    <3> HIDE DEF line
    <3> QED
      BY <1>0, <1>3, LineCarries
  <2> HIDE DEF u
  <2>3. ReadSo(u, lines, k + 1)
    BY <1>3, <2>1, <2>2, HeaderAdds
  <2> QED
    BY <2>3 DEF u
<1>4. CASE ~st.full /\ line.kind = "key" /\ st.devs # <<>> /\ line.key \in D!Fields
  <2>1. ~u.full /\ u.devs = [st.devs EXCEPT ![Len(st.devs)].fields[line.key] = line.val]
    <3> HIDE DEF line
    <3> QED
      BY <1>0, <1>4, LineParsed, ZenonT(60)
  <2> HIDE DEF u
  <2>3. ReadSo(u, lines, k + 1)
    BY <1>4, <2>1, KeyFills
  <2> QED
    BY <2>3 DEF u
<1> QED
  BY <1>1, <1>2, <1>3, <1>4

\* What the whole file comes to.
LEMMA DevicesSoRead ==
  ASSUME NEW n \in Nat, NEW names, NEW keys, NEW vals,
         NEW lines \in [1..n -> ConfLines(names, keys, vals)]
  PROVE  \E st \in Parsed(names, vals) :
           ReadSo(st, lines, n) /\ st.devs = D!parse_device_conf(lines)
<1>1. PICK h : DeviceSteps(h, names, vals, lines, n)
  BY DevicesByLines
<1>2. /\ h[0] = NothingParsed /\ h[n].devs = D!parse_device_conf(lines)
      /\ \A k \in 0..n : h[k] \in Parsed(names, vals)
      /\ \A k \in 1..n : h[k] = D!ParseLine(h[k - 1], lines[k])
  BY <1>1 DEF DeviceSteps
<1> DEFINE Right == {k \in 0..n : ReadSo(h[k], lines, k)}
<1>3. 0 \in Right
  <2>1. Placed(<<>>, NothingParsed, lines, 0) /\ Filled(<<>>, NothingParsed, lines, 0)
    BY DEF NothingParsed, Placed, Filled
  <2>2. ReadSo(NothingParsed, lines, 0)
    BY <2>1 DEF ReadSo
  <2> QED
    BY <1>2, <2>2
<1>4. ASSUME NEW m \in 1..n, m - 1 \in Right
      PROVE  m \in Right
  <2>1. PICK k \in 0..(n - 1) : k = m - 1 /\ m = k + 1
    OBVIOUS
  <2> DEFINE st == h[k]
             u  == h[m]
  <2>2. /\ k \in Nat /\ st \in Parsed(names, vals) /\ lines[k + 1] \in ConfLines(names, keys, vals)
        /\ u = D!ParseLine(st, lines[k + 1]) /\ ReadSo(st, lines, k)
    BY <1>2, <1>4, <2>1
  <2> HIDE DEF st, u
  <2>3. ReadSo(u, lines, k + 1)
    BY <2>2, NextIsRead
  <2> QED
    BY <2>1, <2>3 DEF u
<1> HIDE DEF Right
<1>5. n \in Right
  <2>1. \A k \in 0..n : k \in Right
    BY <1>3, <1>4, PositionByPosition
  <2> QED
    BY <2>1
<1>6. ReadSo(h[n], lines, n) /\ h[n] \in Parsed(names, vals)
  BY <1>2, <1>5 DEF Right
<1> QED
  BY <1>2, <1>6

Heads(lines) == {i \in DOMAIN lines : lines[i].kind = "header"}

\* Reading ends early only if there are more headers than there is room for.
LEMMA FullIsTooMany ==
  ASSUME NEW n \in Nat, NEW T, NEW lines \in [1..n -> T], NEW names, NEW vals,
         NEW st \in Parsed(names, vals), NEW p, Placed(p, st, lines, n), st.full,
         MaxDevices \in Nat
  PROVE  ~(Cardinality(Heads(lines)) <= MaxDevices)
<1> DEFINE m == Len(st.devs)
           heads == Heads(lines)
<1>1. m \in Nat /\ m >= MaxDevices
  BY DEF Parsed, Placed
<1>2. PICK q \in 1..n : lines[q].kind = "header" /\ \A j \in 1..m : p[j] < q
  BY DEF Placed
<1>3. \A j \in 1..m : p[j] \in heads /\ p[j] \in 1..n
  <2>1. \A x : D!Header(x).kind = "header"
    BY DEF D!Header
  <2> QED
    BY <2>1 DEF Placed, Heads
<1>4. \A i, j \in 1..m : i < j => p[i] < p[j]
  BY DEF Placed
<1>5. q \in heads
  BY <1>2 DEF Heads
<1>6. IsFiniteSet(heads) /\ Cardinality(heads) \in Nat
  <2>1. heads \in SUBSET (1..n) /\ n \in Int /\ 1 \in Int
    BY DEF Heads
  <2>2. IsFiniteSet(1..n)
    BY <2>1, FS_Interval
  <2> HIDE DEF heads
  <2>3. IsFiniteSet(heads)
    BY <2>1, <2>2, FS_Subset
  <2> QED
    BY <2>3, FS_CardinalityType
<1> HIDE DEF m, heads
<1> DEFINE f == [j \in 1..(m + 1) |-> IF j = m + 1 THEN q ELSE p[j]]
<1>7. f \in Injection(1..(m + 1), heads)
  <2>1. f[m + 1] = q /\ \A j \in 1..m : f[j] = p[j] /\ f[j] # q
    BY <1>1, <1>2, <1>3
  <2>2. 1..(m + 1) = (1..m) \cup {m + 1}
    BY <1>1
  <2>3. f \in [1..(m + 1) -> heads]
    BY <1>3, <1>5, <2>2
  <2>4. \A i, j \in 1..m : f[i] = f[j] => i = j
    <3>1. \A i, j \in 1..m : p[i] = p[j] => i = j
      <4> TAKE i, j \in 1..m
      <4> HAVE p[i] = p[j]
      <4>1. i < j \/ j < i \/ i = j
        BY <1>1
      <4>2. p[i] \in 1..n
        BY <1>3
      <4>3. ~(p[i] < p[j]) /\ ~(p[j] < p[i])
        BY <4>2
      <4> QED
        BY <1>4, <4>1, <4>3
    <3> QED
      BY <2>1, <3>1
  <2> HIDE DEF f
  <2>5. \A i, j \in 1..(m + 1) : f[i] = f[j] => i = j
    BY <2>1, <2>2, <2>4
  <2> QED
    BY <2>3, <2>5 DEF Injection, IsInjective
<1> HIDE DEF f
<1>8. Cardinality(1..(m + 1)) = m + 1
  BY <1>1, CountUpTo
<1>9. Cardinality(1..(m + 1)) <= Cardinality(heads)
  BY <1>6, <1>7, FS_Injection
<1> QED
  BY <1>1, <1>6, <1>8, <1>9 DEF heads

\* The first device with a name comes from the first section with that name.
IsFirstSection(p, st, lines, x) ==
  LET m    == D!Min(D!Places(st.devs, x))
      mine == {i \in Heads(lines) : lines[i].name = x}
  IN  m \in 1..Len(st.devs) /\ p[m] \in Nat /\ mine # {} /\ D!Min(mine) = p[m]

\* The device that a call names is the first one with that name, and so is its section.
LEMMA FirstSection ==
  ASSUME NEW n \in Nat, NEW names, NEW vals, NEW T, NEW lines \in [1..n -> T],
         NEW st \in Parsed(names, vals), NEW p, Placed(p, st, lines, n), NEW x,
         D!Places(st.devs, x) # {}
  PROVE  IsFirstSection(p, st, lines, x)
<1> DEFINE places == D!Places(st.devs, x)
           m      == D!Min(places)
           mine   == {i \in Heads(lines) : lines[i].name = x}
           l      == Len(st.devs)
<1>1. l \in Nat /\ places = {i \in 1..l : st.devs[i].name = x}
  BY DEF Parsed, D!Places
<1> HIDE DEF l
<1>2. m \in places /\ \A j \in places : m <= j
  <2>1. places \subseteq Nat /\ places # {}
    BY <1>1
  <2> HIDE DEF places
  <2>2. Min(places) \in places /\ \A j \in places : Min(places) <= j
    BY <2>1, LeastNumber
  <2>3. D!Min(places) = Min(places)
    BY DEF D!Min, Min
  <2> QED
    BY <2>2, <2>3
<1> HIDE DEF places, m
<1>3. /\ \A j \in 1..l : p[j] \in 1..n /\ lines[p[j]] = D!Header(st.devs[j].name)
      /\ \A i, j \in 1..l : i < j => p[i] < p[j]
      /\ \A i \in 1..n : lines[i].kind = "header" =>
           (\E j \in 1..l : p[j] = i) \/ \A j \in 1..l : p[j] < i
  BY DEF Placed, l
<1>4. \A z : D!Header(z).kind = "header" /\ D!Header(z).name = z
  BY DEF D!Header
<1>5. m \in 1..l /\ st.devs[m].name = x /\ p[m] \in 1..n
  BY <1>1, <1>2, <1>3
<1>6. p[m] \in mine
  BY <1>3, <1>4, <1>5 DEF Heads
<1>7. ASSUME NEW i \in mine
      PROVE  p[m] <= i
  <2>1. i \in 1..n /\ lines[i].kind = "header" /\ lines[i].name = x
    BY DEF Heads
  <2>2. CASE \E j \in 1..l : p[j] = i
    <3> PICK j \in 1..l : p[j] = i
      BY <2>2
    <3>1. st.devs[j].name = x
      BY <1>3, <1>4, <2>1
    <3>2. m <= j
      BY <1>1, <1>2, <3>1
    <3>3. m < j \/ m = j
      BY <1>5, <3>2
    <3> QED
      BY <1>3, <1>5, <3>3
  <2>3. CASE \A j \in 1..l : p[j] < i
    BY <1>5, <2>1, <2>3
  <2> QED
    BY <1>3, <2>1, <2>2, <2>3
<1>8. D!Min(mine) = p[m]
  <2>1. mine \subseteq 1..n
    BY DEF Heads
  <2> HIDE DEF mine
  <2>2. \A y \in mine : (\A z \in mine : y <= z) => y = p[m]
    <3> TAKE y \in mine
    <3> HAVE \A z \in mine : y <= z
    <3>1. y <= p[m] /\ p[m] <= y /\ y \in 1..n
      BY <1>6, <1>7, <2>1
    <3> QED
      BY <1>5, <3>1
  <2> QED
    BY <1>6, <1>7, <2>2 DEF D!Min
<1>9. m \in 1..l /\ p[m] \in Nat /\ mine # {} /\ D!Min(mine) = p[m]
  BY <1>5, <1>6, <1>8
<1> QED
  BY <1>9 DEF l, m, places, IsFirstSection

\* The lines of a section are those that the devices were read from.
LEMMA OwnIsTheirs ==
  ASSUME NEW n \in Nat, NEW T, NEW lines \in [1..n -> T], NEW x, NEW a \in Nat, NEW f,
         {i \in Heads(lines) : lines[i].name = x} # {},
         D!Min({i \in Heads(lines) : lines[i].name = x}) = a
  PROVE  {i \in D!OwnLines(lines, x) : lines[i].key = f} = Theirs(lines, a, n, f)
<1> DEFINE heads == Heads(lines)
           mine  == {i \in heads : lines[i].name = x}
           later == {i \in heads : i > a}
<1>1. DOMAIN lines = 1..n
  OBVIOUS
<1>2. D!OwnLines(lines, x) = {i \in 1..n : i > a /\ \A j \in later : i < j}
  <2>1. D!OwnLines(lines, x) = {i \in 1..n : i > D!Min(mine) /\ \A j \in {k \in heads : k > D!Min(mine)} : i < j}
    BY <1>1 DEF D!OwnLines, Heads
  <2> QED
    BY <2>1
<1>3. \A j : j \in later <=> j \in 1..n /\ lines[j].kind = "header" /\ j > a
  BY <1>1 DEF Heads
<1> HIDE DEF later
<1>4. ASSUME NEW i \in 1..n, i > a
      PROVE  (\A j \in later : i < j) <=> (\A j \in 1..i : a < j => lines[j].kind # "header")
  <2>1. ASSUME \A j \in later : i < j, NEW j \in 1..i, a < j, lines[j].kind = "header"
        PROVE  FALSE
    <3>1. j \in later
      BY <1>3, <2>1
    <3>2. i < j
      BY <2>1, <3>1
    <3> QED
      BY <3>2
  <2>2. ASSUME \A j \in 1..i : a < j => lines[j].kind # "header", NEW j \in later, ~(i < j)
        PROVE  FALSE
    <3>1. j \in 1..n /\ lines[j].kind = "header" /\ j > a
      BY <1>3
    <3>2. j \in 1..i
      BY <2>2, <3>1
    <3> QED
      BY <2>2, <3>1, <3>2
  <2> QED
    BY <2>1, <2>2
<1>5. \A i : i \in {k \in D!OwnLines(lines, x) : lines[k].key = f} <=> i \in Theirs(lines, a, n, f)
  BY <1>2, <1>4 DEF Theirs
<1> QED
  BY <1>5

\* What a section says of a key is the last value it gives it.
LEMMA SaidIsLast ==
  ASSUME NEW n \in Nat, NEW lines, NEW a, NEW f, NEW v, SaidOf(v, lines, a, n, f)
  PROVE  v = IF Theirs(lines, a, n, f) # {} THEN lines[D!Max(Theirs(lines, a, n, f))].val
             ELSE D!Defaults[f]
<1> DEFINE own == Theirs(lines, a, n, f)
<1>1. own \subseteq 1..n
  BY DEF Theirs
<1>2. CASE own = {}
  BY <1>2 DEF SaidOf
<1>3. CASE own # {}
  <2> PICK m \in own : v = lines[m].val /\ \A i \in own : i <= m
    BY <1>3 DEF SaidOf
  <2> HIDE DEF own
  <2>1. \A y \in own : (\A z \in own : y >= z) => y = m
    <3> TAKE y \in own
    <3> HAVE \A z \in own : y >= z
    <3>1. y >= m /\ y <= m /\ y \in 1..n /\ m \in 1..n
      BY <1>1
    <3> QED
      BY <3>1
  <2>2. \A z \in own : m >= z
    BY <1>1
  <2>3. D!Max(own) = m
    BY <2>1, <2>2 DEF D!Max
  <2> QED
    BY <1>3, <2>3 DEF own
<1> QED
  BY <1>2, <1>3

\* The file says of the device that a call names what its first section says.
LEMMA DeviceIsItsSection ==
  ASSUME NEW n \in Nat, NEW names, NEW keys, NEW vals,
         NEW lines \in [1..n -> ConfLines(names, keys, vals)], MaxDevices \in Nat, NEW x
  PROVE  LET devs   == D!parse_device_conf(lines)
             places == D!Places(devs, x)
             own(f) == {i \in D!OwnLines(lines, x) : lines[i].key = f}
         IN  /\ Cardinality(Heads(lines)) <= MaxDevices =>
                  (places = {} <=> \A i \in DOMAIN lines : lines[i] # D!Header(x))
             /\ places # {} => \A f \in D!Fields :
                  devs[D!Min(places)].fields[f] =
                    IF own(f) # {} THEN lines[D!Max(own(f))].val ELSE D!Defaults[f]
<1> DEFINE devs   == D!parse_device_conf(lines)
           places == D!Places(devs, x)
           own(f) == {i \in D!OwnLines(lines, x) : lines[i].key = f}
           m      == D!Min(places)
<1>1. PICK st \in Parsed(names, vals) : ReadSo(st, lines, n) /\ st.devs = devs
  BY DevicesSoRead
<1>2. PICK p : Placed(p, st, lines, n) /\ Filled(p, st, lines, n)
  BY <1>1 DEF ReadSo
<1> DEFINE l == Len(devs)
<1>0. l \in Nat /\ places = {i \in 1..l : devs[i].name = x}
  <2>1. devs \in Seq(Profile(names, vals))
    BY <1>1 DEF Parsed
  <2> HIDE DEF devs
  <2> QED
    BY <2>1 DEF D!Places
<1> HIDE DEF devs
<1>3. \A z : D!Header(z).kind = "header" /\ D!Header(z).name = z
  BY DEF D!Header
<1>4. ASSUME Cardinality(Heads(lines)) <= MaxDevices
      PROVE  places = {} <=> \A i \in DOMAIN lines : lines[i] # D!Header(x)
  <2>1. ~st.full
    BY <1>2, <1>4, FullIsTooMany
  <2>2. /\ \A j \in 1..l : p[j] \in 1..n /\ lines[p[j]] = D!Header(devs[j].name)
        /\ \A i \in 1..n : lines[i].kind = "header" => \E j \in 1..l : p[j] = i
    BY <1>1, <1>2, <2>1 DEF Placed
  <2>3. ASSUME NEW j \in places
        PROVE  \E i \in DOMAIN lines : lines[i] = D!Header(x)
    BY <1>0, <2>2
  <2>4. ASSUME NEW i \in DOMAIN lines, lines[i] = D!Header(x)
        PROVE  places # {}
    <3>1. i \in 1..n /\ lines[i].kind = "header"
      BY <1>3, <2>4
    <3> PICK j \in 1..l : p[j] = i
      BY <2>2, <3>1
    <3>2. lines[i] = D!Header(devs[j].name)
      BY <2>2
    <3>3. devs[j].name = x
      BY <1>3, <2>4, <3>2
    <3> QED
      BY <1>0, <3>3
  <2> QED
    BY <2>3, <2>4
<1>5. ASSUME places # {}, NEW f \in D!Fields
      PROVE  devs[m].fields[f] = IF own(f) # {} THEN lines[D!Max(own(f))].val ELSE D!Defaults[f]
  <2> DEFINE mine == {i \in Heads(lines) : lines[i].name = x}
  <2>0. \E W : lines \in [1..n -> W]
    OBVIOUS
  <2> PICK W : lines \in [1..n -> W]
    BY <2>0
  <2>1. m \in 1..Len(st.devs) /\ p[m] \in Nat /\ mine # {} /\ D!Min(mine) = p[m]
    <3>1. D!Places(st.devs, x) # {} /\ Placed(p, st, lines, n) /\ st \in Parsed(names, vals)
      BY <1>1, <1>2, <1>5
    <3>2. IsFirstSection(p, st, lines, x)
      BY <3>1, FirstSection
    <3> QED
      BY <1>1, <3>2 DEF IsFirstSection
  <2>2. SaidOf(devs[m].fields[f], lines, p[m], n, f)
    BY <1>1, <1>2, <2>1 DEF Filled
  <2>3. own(f) = Theirs(lines, p[m], n, f)
    <3> DEFINE a == p[m]
    <3>1. a \in Nat /\ mine # {} /\ D!Min(mine) = a
      BY <2>1
    <3> HIDE DEF a
    <3>2. {i \in D!OwnLines(lines, x) : lines[i].key = f} = Theirs(lines, a, n, f)
      BY <3>1, OwnIsTheirs, SMTT(60)
    <3> QED
      BY <3>2 DEF a
  <2> HIDE DEF m, own
  <2>4. devs[m].fields[f] = IF Theirs(lines, p[m], n, f) # {} THEN lines[D!Max(Theirs(lines, p[m], n, f))].val
                            ELSE D!Defaults[f]
    BY <2>2, SaidIsLast
  <2> QED
    BY <2>3, <2>4
<1> QED
  BY <1>4, <1>5 DEF devs

\* What serial_execute goes by is what its arguments and device.conf say, a file of any
\* number of lines in any order.
THEOREM GoesByWhatIsWritten ==
  ASSUME NEW n \in Nat, NEW names, NEW keys, NEW vals, D!Blank \notin names,
         NEW lines \in [1..n -> ConfLines(names, keys, vals)], MaxDevices \in Nat, NEW asked
  PROVE  D!AsWritten(lines, asked)
<1> DEFINE devs     == D!parse_device_conf(lines)
           places   == D!Places(devs, asked.device)
           own(f)   == {i \in D!OwnLines(lines, asked.device) : lines[i].key = f}
           given(f) == asked.fields[f] # D!Absent /\ (f = "port" => asked.fields[f] # D!Blank)
           profile0 == IF asked.device = D!Blank THEN D!Defaults ELSE devs[D!Min(places)].fields
           fields0  == D!Overridden(profile0, asked.fields)
           r        == D!Resolved(lines, asked)
<1>1. /\ Cardinality(Heads(lines)) <= MaxDevices =>
           (places = {} <=> \A i \in DOMAIN lines : lines[i] # D!Header(asked.device))
      /\ places # {} => \A f \in D!Fields :
           devs[D!Min(places)].fields[f] =
             IF own(f) # {} THEN lines[D!Max(own(f))].val ELSE D!Defaults[f]
  BY DeviceIsItsSection
<1>2. r = IF asked.device # D!Blank /\ places = {} THEN D!Error("no such device")
          ELSE IF fields0.port = D!Blank THEN D!Error("port")
          ELSE IF fields0.prompt = D!Blank THEN D!Error("prompt")
          ELSE IF asked.commands = 0 THEN D!Error("commands")
          ELSE IF fields0.baud \notin D!Speeds THEN D!Error("baud")
          ELSE [error |-> "none", fields |-> fields0,
                commands |-> D!Min({asked.commands, MaxCommands})]
  BY Zenon DEF D!Resolved
<1>3. \A what : D!Error(what).error = what
  BY DEF D!Error
<1>4. asked.device = D!Blank => \A f : own(f) = {}
  <2> HAVE asked.device = D!Blank
  <2>1. ASSUME NEW i \in Heads(lines), lines[i].name = D!Blank
        PROVE  FALSE
    <3>1. lines[i] \in ConfLines(names, keys, vals) /\ lines[i].kind = "header"
      BY DEF Heads
    <3>2. lines[i].name \in names
      BY <3>1, LineCarries
    <3> QED
      BY <2>1, <3>2
  <2>2. {i \in Heads(lines) : lines[i].name = D!Blank} = {}
    BY <2>1
  <2>3. D!OwnLines(lines, D!Blank) = {}
    BY <2>2 DEF D!OwnLines, Heads
  <2> QED
    BY <2>3
<1> HIDE DEF devs, places, r, fields0
<1>5. r.error = "no such device" <=> asked.device # D!Blank /\ places = {}
  BY <1>2, <1>3
<1>6. r.error = "none" => ~(asked.device # D!Blank /\ places = {}) /\ r.fields = fields0
  BY <1>2, <1>3
<1>7. ASSUME r.error = "none", NEW f \in D!Fields
      PROVE  r.fields[f] = IF given(f) THEN asked.fields[f]
                           ELSE IF own(f) # {} THEN lines[D!Max(own(f))].val
                           ELSE D!Defaults[f]
  <2>1. r.fields[f] = IF given(f) THEN asked.fields[f] ELSE profile0[f]
    BY <1>6, <1>7 DEF fields0, D!Overridden
  <2>2. profile0[f] = IF own(f) # {} THEN lines[D!Max(own(f))].val ELSE D!Defaults[f]
    BY <1>1, <1>4, <1>6, <1>7
  <2> QED
    BY <2>1, <2>2
<1>8. D!Cardinality(Heads(lines)) = Cardinality(Heads(lines))
  BY DEF D!Cardinality, Cardinality
<1>9. D!Cardinality({i \in DOMAIN lines : lines[i].kind = "header"}) <= MaxDevices =>
        (r.error = "no such device" <=>
           asked.device # D!Blank /\ \A i \in DOMAIN lines : lines[i] # D!Header(asked.device))
  BY <1>1, <1>5, <1>8 DEF Heads
<1> QED
  BY <1>7, <1>9 DEF D!AsWritten, r

-----------------------------------------------------------------------------
(* Allowlist.                                                              *)

\* A line of allowlist.conf: a section, an "allow" with its patterns, or something else.
AllowLines(pats) ==
  {A!Section(l) : l \in A!Lists} \cup {A!Allow(s) : s \in Seq(pats)} \cup {A!OtherLine}

Ruled(pats) == [A!Lists -> Seq(pats)]

Loading(pats) == [list : A!Lists, al : Ruled(pats)]

NothingAllowed == [list |-> "command", al |-> A!allowlist_create]

\* What a pattern does, and what the patterns of a line do one after the other.
Adding(al, list, p) == IF p = <<>> THEN al ELSE A!allowlist_add(al, list, p)

AllAdded(al, list, patterns) ==
  A!FoldLeft(LAMBDA a, p : IF p = <<>> THEN a ELSE A!allowlist_add(a, list, p), al, patterns)

Total(lines) == A!FoldLeft(LAMBDA n, line : n + Len(line.patterns), 0, lines)

\* How the patterns of a line are added, written out.
LEMMA PatternsAreFolded ==
  ASSUME NEW al, NEW list, NEW patterns
  PROVE  AllAdded(al, list, patterns) =
           (CHOOSE f : f = [s \in SUBSET (DOMAIN patterns) |->
                              IF s = {} THEN al
                              ELSE Adding(f[s \ {Max(s)}], list, patterns[Max(s)])])[DOMAIN patterns]
BY Zenon DEF AllAdded, Adding, A!FoldLeft, A!MapThenFoldSet, A!Max, Max

\* How the lines are read, written out.
LEMMA RulesAreFolded ==
  ASSUME NEW lines
  PROVE  A!allowlist_load(lines) =
           (CHOOSE f : f = [s \in SUBSET (DOMAIN lines) |->
                              IF s = {} THEN NothingAllowed
                              ELSE A!LoadLine(f[s \ {Max(s)}], lines[Max(s)])])[DOMAIN lines].al
BY Zenon DEF A!allowlist_load, A!FoldLeft, A!MapThenFoldSet, A!Max, Max, NothingAllowed

\* How the patterns are counted, written out.
LEMMA TotalIsFolded ==
  ASSUME NEW lines
  PROVE  Total(lines) =
           (CHOOSE f : f = [s \in SUBSET (DOMAIN lines) |->
                              IF s = {} THEN 0
                              ELSE f[s \ {Max(s)}] + Len(lines[Max(s)].patterns)])[DOMAIN lines]
BY Zenon DEF Total, A!FoldLeft, A!MapThenFoldSet, A!Max, Max

\* What a line does, by its kind.
LEMMA LineLoaded ==
  ASSUME NEW pats, NEW st \in Loading(pats), NEW line
  PROVE  /\ line.kind = "section" => A!LoadLine(st, line) = [list |-> line.list, al |-> st.al]
         /\ line.kind = "allow" =>
              A!LoadLine(st, line) = [list |-> st.list, al |-> AllAdded(st.al, st.list, line.patterns)]
         /\ line.kind \notin {"section", "allow"} => A!LoadLine(st, line) = st
<1>1. st = [list |-> st.list, al |-> st.al]
  BY DEF Loading
<1>2. ASSUME line.kind = "section"
      PROVE  A!LoadLine(st, line) = [list |-> line.list, al |-> st.al]
  BY <1>1, <1>2 DEF A!LoadLine
<1>3. ASSUME line.kind = "allow"
      PROVE  A!LoadLine(st, line) = [list |-> st.list, al |-> AllAdded(st.al, st.list, line.patterns)]
  <2>1. A!LoadLine(st, line) = [st EXCEPT !.al = AllAdded(st.al, st.list, line.patterns)]
    BY <1>3, Zenon DEF A!LoadLine, AllAdded
  <2> QED
    BY <1>1, <2>1
<1>4. ASSUME line.kind \notin {"section", "allow"}
      PROVE  A!LoadLine(st, line) = st
  BY <1>4 DEF A!LoadLine
<1> QED
  BY <1>2, <1>3, <1>4

\* What a section and an "allow" carry.
LEMMA RuleCarries ==
  ASSUME NEW pats, NEW line \in AllowLines(pats)
  PROVE  /\ line.kind \in {"section", "allow", "other"} /\ line.patterns \in Seq(pats)
         /\ line.kind = "section" => line.list \in A!Lists
         /\ line.kind # "allow" => line.patterns = <<>>
<1>1. CASE \E l \in A!Lists : line = A!Section(l)
  <2> PICK l \in A!Lists : line = A!Section(l)
    BY <1>1
  <2>1. line.kind = "section" /\ line.list = l /\ line.patterns = <<>>
    BY DEF A!Section
  <2> QED
    BY <2>1
<1>2. CASE \E s \in Seq(pats) : line = A!Allow(s)
  <2> PICK s \in Seq(pats) : line = A!Allow(s)
    BY <1>2
  <2>1. line.kind = "allow" /\ line.patterns = s
    BY DEF A!Allow
  <2> QED
    BY <2>1
<1>3. CASE line = A!OtherLine
  <2>1. line.kind = "other" /\ line.patterns = <<>>
    BY <1>3 DEF A!OtherLine
  <2> QED
    BY <2>1
<1> QED
  BY <1>1, <1>2, <1>3 DEF AllowLines

\* A pattern keeps the lists lists.
LEMMA AddingKeeps ==
  ASSUME NEW pats, NEW al \in Ruled(pats), NEW list \in A!Lists, NEW p \in pats
  PROVE  Adding(al, list, p) \in Ruled(pats)
<1>1. al \in [A!Lists -> Seq(pats)] /\ Append(al[list], p) \in Seq(pats)
  BY DEF Ruled
<1>2. [al EXCEPT ![list] = Append(@, p)] \in [A!Lists -> Seq(pats)]
  BY <1>1
<1> QED
  BY <1>1, <1>2 DEF Adding, A!allowlist_add, Ruled

\* The lists, pattern by pattern of a line.
AddingSteps(h, pats, al, list, patterns, n) ==
  /\ h[0] = al /\ h[n] = AllAdded(al, list, patterns)
  /\ \A k \in 0..n : h[k] \in Ruled(pats)
  /\ \A k \in 1..n : h[k] = Adding(h[k - 1], list, patterns[k])

\* Patterns are added one by one.
LEMMA AddedOneByOne ==
  ASSUME NEW n \in Nat, NEW pats, NEW al \in Ruled(pats), NEW list \in A!Lists,
         NEW patterns \in [1..n -> pats]
  PROVE  \E h : AddingSteps(h, pats, al, list, patterns, n)
<1> DEFINE V       == Ruled(pats)
           G       == [x \in V \X (1..n) |-> Adding(x[1], list, patterns[x[2]])]
           made(f) == f = [s \in SUBSET (1..n) |->
                             IF s = {} THEN al
                             ELSE Adding(f[s \ {Max(s)}], list, patterns[Max(s)])]
           c       == CHOOSE f : made(f)
<1>1. DOMAIN patterns = 1..n
  OBVIOUS
<1>2. AllAdded(al, list, patterns) = c[1..n]
  BY <1>1, PatternsAreFolded
<1>3. al \in V
  OBVIOUS
<1>4. G \in [V \X (1..n) -> V] /\ \A v \in V : \A k \in 1..n : G[<<v, k>>] = Adding(v, list, patterns[k])
  <2>1. \A v \in V : \A k \in 1..n : Adding(v, list, patterns[k]) \in V
    BY AddingKeeps
  <2> HIDE DEF V
  <2> QED
    BY <2>1
<1> HIDE DEF G, V
<1>5. \E f \in [SUBSET (1..n) -> V] : Folding(f, al, G, n)
  BY <1>3, <1>4, FoldExists
<1>6. PICK f0 \in [SUBSET (1..n) -> V] : Folding(f0, al, G, n)
  BY <1>5
<1>7. \A s \in SUBSET (1..n) : s # {} =>
        Max(s) \in 1..n /\ s \ {Max(s)} \in SUBSET (1..n)
  BY GreatestPosition
<1>8. made(f0)
  <2>1. \A s \in SUBSET (1..n) : s # {} =>
          G[<<f0[s \ {Max(s)}], Max(s)>>] = Adding(f0[s \ {Max(s)}], list, patterns[Max(s)])
    <3> HIDE DEF made
    <3> TAKE s \in SUBSET (1..n)
    <3> HAVE s # {}
    <3>1. Max(s) \in 1..n /\ f0[s \ {Max(s)}] \in V
      BY <1>7
    <3> QED
      BY <1>4, <3>1, Zenon
  <2>2. f0 = [s \in SUBSET (1..n) |->
                IF s = {} THEN al ELSE G[<<f0[s \ {Max(s)}], Max(s)>>]]
    BY <1>6 DEF Folding
  <2>3. [s \in SUBSET (1..n) |->
           IF s = {} THEN al ELSE G[<<f0[s \ {Max(s)}], Max(s)>>]]
          = [s \in SUBSET (1..n) |->
               IF s = {} THEN al ELSE Adding(f0[s \ {Max(s)}], list, patterns[Max(s)])]
    BY <2>1, Zenon
  <2> QED
    BY <2>2, <2>3, Zenon
<1>9. made(c)
  BY <1>8
<1> HIDE DEF c
<1>10. \A s \in SUBSET (1..n) :
         c[s] = IF s = {} THEN al ELSE Adding(c[s \ {Max(s)}], list, patterns[Max(s)])
  BY <1>9, Zenon
<1> HIDE DEF made
<1>11. FoldsWith(c, V, al, G, n)
  <2>1. c[{}] = al
    <3>1. {} \in SUBSET (1..n)
      OBVIOUS
    <3> QED
      BY <1>10, <3>1, Zenon
  <2>2. ASSUME NEW s \in SUBSET (1..n), s # {}, c[s \ {Max(s)}] \in V
        PROVE  c[s] = G[<<c[s \ {Max(s)}], Max(s)>>]
    <3>1. Max(s) \in 1..n
      BY <1>7, <2>2
    <3>2. G[<<c[s \ {Max(s)}], Max(s)>>] = Adding(c[s \ {Max(s)}], list, patterns[Max(s)])
      BY <1>4, <2>2, <3>1, Zenon
    <3> QED
      BY <1>10, <2>2, <3>2, Zenon
  <2> QED
    BY <2>1, <2>2 DEF FoldsWith
<1>12. StepsTo(V, al, G, n, c[1..n])
  BY <1>3, <1>4, <1>11, FoldSteps
<1>13. PICK h : Steps(h, V, al, G, n, c[1..n])
  BY <1>12 DEF StepsTo
<1>14. /\ h[0] = al /\ h[n] = AllAdded(al, list, patterns)
       /\ \A k \in 0..n : h[k] \in V
       /\ \A k \in 1..n : h[k] = G[<<h[k - 1], k>>]
  BY <1>2, <1>13 DEF Steps
<1>15. \A k \in 1..n : h[k] = Adding(h[k - 1], list, patterns[k])
  <2> TAKE k \in 1..n
  <2>1. k - 1 \in 0..n
    OBVIOUS
  <2> QED
    BY <1>4, <1>14, <2>1, Zenon
<1> QED
  BY <1>14, <1>15 DEF AddingSteps, V

\* Reading a line keeps the types.
LEMMA LoadingKeeps ==
  ASSUME NEW pats, NEW st \in Loading(pats), NEW line \in AllowLines(pats)
  PROVE  A!LoadLine(st, line) \in Loading(pats)
<1>1. st.list \in A!Lists /\ st.al \in Ruled(pats)
  BY DEF Loading
<1>2. line.kind \in {"section", "allow", "other"} /\ line.patterns \in Seq(pats)
      /\ (line.kind = "section" => line.list \in A!Lists)
  BY RuleCarries
<1>3. AllAdded(st.al, st.list, line.patterns) \in Ruled(pats)
  <2> DEFINE m == Len(line.patterns)
  <2>1. m \in Nat /\ line.patterns \in [1..m -> pats]
    BY <1>2
  <2> HIDE DEF m
  <2>2. PICK h : AddingSteps(h, pats, st.al, st.list, line.patterns, m)
    BY <1>1, <2>1, AddedOneByOne
  <2>3. m \in 0..m
    BY <2>1
  <2> QED
    BY <2>2, <2>3 DEF AddingSteps
<1>4. CASE line.kind = "section"
  BY <1>1, <1>2, <1>4, LineLoaded DEF Loading
<1>5. CASE line.kind = "allow"
  BY <1>1, <1>3, <1>5, LineLoaded DEF Loading
<1>6. CASE line.kind = "other"
  <2>1. line.kind \notin {"section", "allow"}
    BY <1>6
  <2> QED
    BY <2>1, LineLoaded
<1> QED
  BY <1>2, <1>4, <1>5, <1>6

\* The lists, line by line of the file.
LoadingSteps(h, pats, lines, n) ==
  /\ h[0] = NothingAllowed /\ h[n].al = A!allowlist_load(lines)
  /\ \A k \in 0..n : h[k] \in Loading(pats)
  /\ \A k \in 1..n : h[k] = A!LoadLine(h[k - 1], lines[k])

\* The lists are read line by line.
LEMMA RulesByLines ==
  ASSUME NEW n \in Nat, NEW pats, NEW lines \in [1..n -> AllowLines(pats)]
  PROVE  \E h : LoadingSteps(h, pats, lines, n)
<1> DEFINE V       == Loading(pats)
           G       == [x \in V \X (1..n) |-> A!LoadLine(x[1], lines[x[2]])]
           made(f) == f = [s \in SUBSET (1..n) |->
                             IF s = {} THEN NothingAllowed
                             ELSE A!LoadLine(f[s \ {Max(s)}], lines[Max(s)])]
           c       == CHOOSE f : made(f)
<1>1. DOMAIN lines = 1..n
  OBVIOUS
<1>2. A!allowlist_load(lines) = c[1..n].al
  BY <1>1, RulesAreFolded
<1>3. NothingAllowed \in V
  BY DEF NothingAllowed, Loading, Ruled, A!allowlist_create, A!Lists
<1>4. G \in [V \X (1..n) -> V] /\ \A v \in V : \A k \in 1..n : G[<<v, k>>] = A!LoadLine(v, lines[k])
  <2>1. \A v \in V : \A k \in 1..n : A!LoadLine(v, lines[k]) \in V
    BY LoadingKeeps
  <2> HIDE DEF V
  <2> QED
    BY <2>1
<1> HIDE DEF G, V
<1>5. \E f \in [SUBSET (1..n) -> V] : Folding(f, NothingAllowed, G, n)
  BY <1>3, <1>4, FoldExists
<1>6. PICK f0 \in [SUBSET (1..n) -> V] : Folding(f0, NothingAllowed, G, n)
  BY <1>5
<1>7. \A s \in SUBSET (1..n) : s # {} =>
        Max(s) \in 1..n /\ s \ {Max(s)} \in SUBSET (1..n)
  BY GreatestPosition
<1>8. made(f0)
  <2>1. \A s \in SUBSET (1..n) : s # {} =>
          G[<<f0[s \ {Max(s)}], Max(s)>>] = A!LoadLine(f0[s \ {Max(s)}], lines[Max(s)])
    <3> HIDE DEF made
    <3> TAKE s \in SUBSET (1..n)
    <3> HAVE s # {}
    <3>1. Max(s) \in 1..n /\ f0[s \ {Max(s)}] \in V
      BY <1>7
    <3> QED
      BY <1>4, <3>1, Zenon
  <2>2. f0 = [s \in SUBSET (1..n) |->
                IF s = {} THEN NothingAllowed ELSE G[<<f0[s \ {Max(s)}], Max(s)>>]]
    BY <1>6 DEF Folding
  <2>3. [s \in SUBSET (1..n) |->
           IF s = {} THEN NothingAllowed ELSE G[<<f0[s \ {Max(s)}], Max(s)>>]]
          = [s \in SUBSET (1..n) |->
               IF s = {} THEN NothingAllowed ELSE A!LoadLine(f0[s \ {Max(s)}], lines[Max(s)])]
    BY <2>1, Zenon
  <2> QED
    BY <2>2, <2>3, Zenon
<1>9. made(c)
  BY <1>8
<1> HIDE DEF c
<1>10. \A s \in SUBSET (1..n) :
         c[s] = IF s = {} THEN NothingAllowed ELSE A!LoadLine(c[s \ {Max(s)}], lines[Max(s)])
  BY <1>9, Zenon
<1> HIDE DEF made
<1>11. FoldsWith(c, V, NothingAllowed, G, n)
  <2>1. c[{}] = NothingAllowed
    <3>1. {} \in SUBSET (1..n)
      OBVIOUS
    <3> QED
      BY <1>10, <3>1, Zenon
  <2>2. ASSUME NEW s \in SUBSET (1..n), s # {}, c[s \ {Max(s)}] \in V
        PROVE  c[s] = G[<<c[s \ {Max(s)}], Max(s)>>]
    <3>1. Max(s) \in 1..n
      BY <1>7, <2>2
    <3>2. G[<<c[s \ {Max(s)}], Max(s)>>] = A!LoadLine(c[s \ {Max(s)}], lines[Max(s)])
      BY <1>4, <2>2, <3>1, Zenon
    <3> QED
      BY <1>10, <2>2, <3>2, Zenon
  <2> QED
    BY <2>1, <2>2 DEF FoldsWith
<1>12. StepsTo(V, NothingAllowed, G, n, c[1..n])
  BY <1>3, <1>4, <1>11, FoldSteps
<1>13. PICK h : Steps(h, V, NothingAllowed, G, n, c[1..n])
  BY <1>12 DEF StepsTo
<1>14. /\ h[0] = NothingAllowed /\ h[n].al = A!allowlist_load(lines)
       /\ \A k \in 0..n : h[k] \in V
       /\ \A k \in 1..n : h[k] = G[<<h[k - 1], k>>]
  BY <1>2, <1>13 DEF Steps
<1>15. \A k \in 1..n : h[k] = A!LoadLine(h[k - 1], lines[k])
  <2> TAKE k \in 1..n
  <2>1. k - 1 \in 0..n
    OBVIOUS
  <2> QED
    BY <1>4, <1>14, <2>1, Zenon
<1> QED
  BY <1>14, <1>15 DEF LoadingSteps, V

\* The number of patterns, line by line of the file.
TotalSteps(h, lines, n) ==
  /\ h[0] = 0 /\ h[n] = Total(lines)
  /\ \A k \in 0..n : h[k] \in Nat
  /\ \A k \in 1..n : h[k] = h[k - 1] + Len(lines[k].patterns)

\* The patterns are counted line by line.
LEMMA TotalByLines ==
  ASSUME NEW n \in Nat, NEW pats, NEW lines \in [1..n -> AllowLines(pats)]
  PROVE  \E h : TotalSteps(h, lines, n)
<1> DEFINE V       == Nat
           G       == [x \in V \X (1..n) |-> x[1] + Len(lines[x[2]].patterns)]
           made(f) == f = [s \in SUBSET (1..n) |->
                             IF s = {} THEN 0
                             ELSE f[s \ {Max(s)}] + Len(lines[Max(s)].patterns)]
           c       == CHOOSE f : made(f)
<1>1. DOMAIN lines = 1..n
  OBVIOUS
<1>2. Total(lines) = c[1..n]
  BY <1>1, TotalIsFolded
<1>3. 0 \in V
  OBVIOUS
<1>4. G \in [V \X (1..n) -> V] /\ \A v \in V : \A k \in 1..n : G[<<v, k>>] = v + Len(lines[k].patterns)
  <2>1. \A v \in V : \A k \in 1..n : v + Len(lines[k].patterns) \in V
    <3>1. \A k \in 1..n : lines[k].patterns \in Seq(pats)
      BY RuleCarries
    <3>2. \A k \in 1..n : Len(lines[k].patterns) \in Nat
      BY <3>1
    <3> QED
      BY <3>2
  <2> HIDE DEF V
  <2> QED
    BY <2>1
<1> HIDE DEF G, V
<1>5. \E f \in [SUBSET (1..n) -> V] : Folding(f, 0, G, n)
  BY <1>3, <1>4, FoldExists
<1>6. PICK f0 \in [SUBSET (1..n) -> V] : Folding(f0, 0, G, n)
  BY <1>5
<1>7. \A s \in SUBSET (1..n) : s # {} =>
        Max(s) \in 1..n /\ s \ {Max(s)} \in SUBSET (1..n)
  BY GreatestPosition
<1>8. made(f0)
  <2>1. \A s \in SUBSET (1..n) : s # {} =>
          G[<<f0[s \ {Max(s)}], Max(s)>>] = f0[s \ {Max(s)}] + Len(lines[Max(s)].patterns)
    <3> HIDE DEF made
    <3> TAKE s \in SUBSET (1..n)
    <3> HAVE s # {}
    <3>1. Max(s) \in 1..n /\ f0[s \ {Max(s)}] \in V
      BY <1>7
    <3> QED
      BY <1>4, <3>1, Zenon
  <2>2. f0 = [s \in SUBSET (1..n) |->
                IF s = {} THEN 0 ELSE G[<<f0[s \ {Max(s)}], Max(s)>>]]
    BY <1>6 DEF Folding
  <2>3. [s \in SUBSET (1..n) |->
           IF s = {} THEN 0 ELSE G[<<f0[s \ {Max(s)}], Max(s)>>]]
          = [s \in SUBSET (1..n) |->
               IF s = {} THEN 0 ELSE f0[s \ {Max(s)}] + Len(lines[Max(s)].patterns)]
    BY <2>1, Zenon
  <2> QED
    BY <2>2, <2>3, Zenon
<1>9. made(c)
  BY <1>8
<1> HIDE DEF c
<1>10. \A s \in SUBSET (1..n) :
         c[s] = IF s = {} THEN 0 ELSE c[s \ {Max(s)}] + Len(lines[Max(s)].patterns)
  BY <1>9, Zenon
<1> HIDE DEF made
<1>11. FoldsWith(c, V, 0, G, n)
  <2>1. c[{}] = 0
    <3>1. {} \in SUBSET (1..n)
      OBVIOUS
    <3> QED
      BY <1>10, <3>1, Zenon
  <2>2. ASSUME NEW s \in SUBSET (1..n), s # {}, c[s \ {Max(s)}] \in V
        PROVE  c[s] = G[<<c[s \ {Max(s)}], Max(s)>>]
    <3>1. Max(s) \in 1..n
      BY <1>7, <2>2
    <3>2. G[<<c[s \ {Max(s)}], Max(s)>>] = c[s \ {Max(s)}] + Len(lines[Max(s)].patterns)
      BY <1>4, <2>2, <3>1, Zenon
    <3> QED
      BY <1>10, <2>2, <3>2, Zenon
  <2> QED
    BY <2>1, <2>2 DEF FoldsWith
<1>12. StepsTo(V, 0, G, n, c[1..n])
  BY <1>3, <1>4, <1>11, FoldSteps
<1>13. PICK h : Steps(h, V, 0, G, n, c[1..n])
  BY <1>12 DEF StepsTo
<1>14. /\ h[0] = 0 /\ h[n] = Total(lines)
       /\ \A k \in 0..n : h[k] \in V
       /\ \A k \in 1..n : h[k] = G[<<h[k - 1], k>>]
  BY <1>2, <1>13 DEF Steps
<1>15. \A k \in 1..n : h[k] = h[k - 1] + Len(lines[k].patterns)
  <2> TAKE k \in 1..n
  <2>1. k - 1 \in 0..n
    OBVIOUS
  <2> QED
    BY <1>4, <1>14, <2>1, Zenon
<1> QED
  BY <1>14, <1>15 DEF TotalSteps, V

OneOf(p, s) == \E i \in 1..Len(s) : s[i] = p

\* al, with the first k of the patterns added to list.
AddedSo(u, al, list, patterns, k) ==
  /\ \A l \in A!Lists : l # list => u[l] = al[l]
  /\ Len(u[list]) <= Len(al[list]) + k
  /\ \A p : OneOf(p, u[list]) <=> OneOf(p, al[list]) \/ (p # <<>> /\ \E i \in 1..k : patterns[i] = p)

\* What is appended is one more of them.
LEMMA OneMore ==
  ASSUME NEW T, NEW s \in Seq(T), NEW x \in T
  PROVE  \A p : OneOf(p, Append(s, x)) <=> OneOf(p, s) \/ p = x
<1> DEFINE t == Append(s, x)
<1>1. Len(s) \in Nat /\ Len(t) = Len(s) + 1 /\ t[Len(s) + 1] = x /\ \A i \in 1..Len(s) : t[i] = s[i]
  OBVIOUS
<1> HIDE DEF t
<1>2. 1..(Len(s) + 1) = (1..Len(s)) \cup {Len(s) + 1}
  BY <1>1
<1>3. \A p : OneOf(p, t) <=> OneOf(p, s) \/ p = x
  BY <1>1, <1>2 DEF OneOf
<1> QED
  BY <1>3 DEF t

\* A pattern that finds room is added to its list.
LEMMA AddsOne ==
  ASSUME NEW pats, NEW al \in Ruled(pats), NEW list \in A!Lists, NEW n \in Nat,
         NEW patterns \in [1..n -> pats], MaxRules \in Nat, Len(al[list]) + n <= MaxRules,
         NEW k \in 1..n, NEW v \in Ruled(pats), AddedSo(v, al, list, patterns, k - 1)
  PROVE  AddedSo(Adding(v, list, patterns[k]), al, list, patterns, k)
<1> DEFINE p0 == patterns[k]
           u  == Adding(v, list, p0)
<1>1. v \in [A!Lists -> Seq(pats)] /\ p0 \in pats /\ v[list] \in Seq(pats) /\ Len(v[list]) \in Nat
      /\ al[list] \in Seq(pats) /\ Len(al[list]) \in Nat
  BY DEF Ruled
<1>2. /\ \A l \in A!Lists : l # list => v[l] = al[l]
      /\ Len(v[list]) <= Len(al[list]) + (k - 1)
      /\ \A p : OneOf(p, v[list]) <=>
                  OneOf(p, al[list]) \/ (p # <<>> /\ \E i \in 1..(k - 1) : patterns[i] = p)
  BY DEF AddedSo
<1>3. \A p : (\E i \in 1..k : patterns[i] = p) <=> (\E i \in 1..(k - 1) : patterns[i] = p) \/ p = p0
  <2>1. 1..k = (1..(k - 1)) \cup {k}
    OBVIOUS
  <2> QED
    BY <2>1
<1>4. Len(v[list]) <= Len(al[list]) + k /\ ~(Len(v[list]) >= MaxRules)
      /\ Len(v[list]) + 1 <= Len(al[list]) + k
  BY <1>1, <1>2
<1> HIDE DEF p0
<1>5. CASE p0 = <<>>
  <2>1. u = v
    BY <1>5 DEF Adding
  <2>2. \A p : OneOf(p, v[list]) <=>
                 OneOf(p, al[list]) \/ (p # <<>> /\ \E i \in 1..k : patterns[i] = p)
    BY <1>2, <1>3, <1>5
  <2> HIDE DEF u
  <2>3. AddedSo(u, al, list, patterns, k)
    BY <1>2, <1>4, <2>1, <2>2 DEF AddedSo
  <2> QED
    BY <2>3 DEF u, p0
<1>6. CASE p0 # <<>>
  <2>1. u = [v EXCEPT ![list] = Append(@, p0)]
    BY <1>4, <1>6 DEF Adding, A!allowlist_add
  <2>2. u[list] = Append(v[list], p0) /\ \A l \in A!Lists : l # list => u[l] = v[l]
    BY <1>1, <2>1
  <2> HIDE DEF u
  <2>3. Len(u[list]) = Len(v[list]) + 1
    BY <1>1, <2>2
  <2>4. \A p : OneOf(p, u[list]) <=> OneOf(p, v[list]) \/ p = p0
    BY <1>1, <2>2, OneMore
  <2>5. \A p : OneOf(p, u[list]) <=>
                 OneOf(p, al[list]) \/ (p # <<>> /\ \E i \in 1..k : patterns[i] = p)
    BY <1>2, <1>3, <1>6, <2>4
  <2>6. AddedSo(u, al, list, patterns, k)
    BY <1>2, <1>4, <2>2, <2>3, <2>5 DEF AddedSo
  <2> QED
    BY <2>6 DEF u, p0
<1> QED
  BY <1>5, <1>6

\* What a line adds to its list, where there is room for it.
LEMMA LineAdds ==
  ASSUME NEW pats, NEW al \in Ruled(pats), NEW list \in A!Lists, NEW patterns \in Seq(pats),
         MaxRules \in Nat, Len(al[list]) + Len(patterns) <= MaxRules
  PROVE  AddedSo(AllAdded(al, list, patterns), al, list, patterns, Len(patterns))
<1> DEFINE n == Len(patterns)
<1>1. n \in Nat /\ patterns \in [1..n -> pats] /\ Len(al[list]) + n <= MaxRules
  OBVIOUS
<1> HIDE DEF n
<1>2. PICK h : AddingSteps(h, pats, al, list, patterns, n)
  BY <1>1, AddedOneByOne
<1>3. /\ h[0] = al /\ h[n] = AllAdded(al, list, patterns)
      /\ \A k \in 0..n : h[k] \in Ruled(pats)
      /\ \A k \in 1..n : h[k] = Adding(h[k - 1], list, patterns[k])
  BY <1>2 DEF AddingSteps
<1> DEFINE Right == {k \in 0..n : AddedSo(h[k], al, list, patterns, k)}
<1>4. 0 \in Right
  <2>1. Len(al[list]) \in Nat
    BY DEF Ruled
  <2>2. AddedSo(al, al, list, patterns, 0)
    BY <2>1 DEF AddedSo
  <2> QED
    BY <1>1, <1>3, <2>2
<1>5. ASSUME NEW k \in 1..n, k - 1 \in Right
      PROVE  k \in Right
  <2>1. h[k - 1] \in Ruled(pats) /\ AddedSo(h[k - 1], al, list, patterns, k - 1) /\ k \in 0..n
    BY <1>3, <1>5
  <2>2. h[k] = Adding(h[k - 1], list, patterns[k])
    BY <1>3
  <2>3. AddedSo(Adding(h[k - 1], list, patterns[k]), al, list, patterns, k)
    BY <1>1, <2>1, AddsOne
  <2> QED
    BY <2>1, <2>2, <2>3
<1> HIDE DEF Right
<1>6. n \in Right
  <2>1. \A k \in 0..n : k \in Right
    BY <1>1, <1>4, <1>5, PositionByPosition
  <2> QED
    BY <1>1, <2>1
<1> QED
  BY <1>3, <1>6 DEF Right, n

\* The list that line i adds to.
ListAt(lines, i) ==
  LET sections == {k \in 1..i : lines[k].kind = "section"}
  IN  IF sections = {} THEN "command" ELSE lines[A!Max(sections)].list

\* p is a pattern for list in the lines up to k.
IsRule(p, lines, list, k) ==
  p # <<>> /\ \E i \in 1..k : OneOf(p, lines[i].patterns) /\ list = ListAt(lines, i)

\* The first k lines, of which t is the number of patterns, have been read.
LoadedSo(st, lines, k, t) ==
  /\ st.list = ListAt(lines, k)
  /\ \A l \in A!Lists : Len(st.al[l]) <= t
  /\ \A l \in A!Lists : \A p : OneOf(p, st.al[l]) <=> IsRule(p, lines, l, k)

\* A section changes the list, and nothing else does.
LEMMA ListChanges ==
  ASSUME NEW k \in Nat, NEW lines
  PROVE  ListAt(lines, k + 1) = IF lines[k + 1].kind = "section" THEN lines[k + 1].list
                                ELSE ListAt(lines, k)
<1> DEFINE before == {i \in 1..k : lines[i].kind = "section"}
           now    == {i \in 1..(k + 1) : lines[i].kind = "section"}
<1>1. 1..(k + 1) = (1..k) \cup {k + 1}
  OBVIOUS
<1>2. CASE lines[k + 1].kind = "section"
  <2>1. k + 1 \in Nat /\ now \subseteq 1..(k + 1) /\ k + 1 \in now
    BY <1>2
  <2> HIDE DEF now
  <2>2. Max(now) = k + 1
    BY <2>1, LastOfAll
  <2>3. A!Max(now) = k + 1
    BY <2>2 DEF A!Max, Max
  <2>4. ListAt(lines, k + 1) = IF now = {} THEN "command" ELSE lines[A!Max(now)].list
    BY DEF ListAt, now
  <2> QED
    BY <1>2, <2>1, <2>3, <2>4
<1>3. CASE lines[k + 1].kind # "section"
  <2>1. now = before
    BY <1>1, <1>3
  <2>2. ListAt(lines, k + 1) = IF now = {} THEN "command" ELSE lines[A!Max(now)].list
    BY DEF ListAt
  <2>3. ListAt(lines, k) = IF before = {} THEN "command" ELSE lines[A!Max(before)].list
    BY DEF ListAt
  <2> QED
    BY <1>3, <2>1, <2>2, <2>3
<1> QED
  BY <1>2, <1>3

\* The next line is read as well.
LEMMA NextIsLoaded ==
  ASSUME NEW k \in Nat, NEW pats, NEW st \in Loading(pats), NEW lines,
         lines[k + 1] \in AllowLines(pats), NEW t \in Nat, MaxRules \in Nat,
         t + Len(lines[k + 1].patterns) <= MaxRules, LoadedSo(st, lines, k, t)
  PROVE  LoadedSo(A!LoadLine(st, lines[k + 1]), lines, k + 1, t + Len(lines[k + 1].patterns))
<1> DEFINE line == lines[k + 1]
           u    == A!LoadLine(st, line)
           more == Len(line.patterns)
<1>1. /\ st.list = ListAt(lines, k) /\ st.list \in A!Lists /\ st.al \in Ruled(pats)
      /\ \A l \in A!Lists : Len(st.al[l]) <= t /\ Len(st.al[l]) \in Nat
      /\ \A l \in A!Lists : \A p : OneOf(p, st.al[l]) <=> IsRule(p, lines, l, k)
  BY DEF LoadedSo, Loading, Ruled
<1>2. /\ line.kind \in {"section", "allow", "other"} /\ line.patterns \in Seq(pats)
      /\ line.kind # "allow" => line.patterns = <<>>
  BY RuleCarries
<1>3. more \in Nat /\ t + more <= MaxRules
  BY <1>2
<1>4. ListAt(lines, k + 1) = IF line.kind = "section" THEN line.list ELSE st.list
  BY <1>1, ListChanges
<1>5. \A p, l : IsRule(p, lines, l, k + 1) <=>
                  \/ IsRule(p, lines, l, k)
                  \/ p # <<>> /\ OneOf(p, line.patterns) /\ l = ListAt(lines, k + 1)
  <2>1. 1..(k + 1) = (1..k) \cup {k + 1}
    OBVIOUS
  <2> QED
    BY <2>1 DEF IsRule
<1>6. /\ line.kind = "section" => u = [list |-> line.list, al |-> st.al]
      /\ line.kind = "allow" => u = [list |-> st.list, al |-> AllAdded(st.al, st.list, line.patterns)]
      /\ line.kind \notin {"section", "allow"} => u = st
  BY LineLoaded
<1> HIDE DEF line, u, more
<1>7. CASE line.kind # "allow"
  <2>1. more = 0 /\ \A p : ~OneOf(p, line.patterns)
    BY <1>2, <1>7 DEF more, OneOf
  <2>2. u.al = st.al /\ u.list = ListAt(lines, k + 1)
    <3>1. CASE line.kind = "section"
      BY <1>4, <1>6, <3>1
    <3>2. CASE line.kind = "other"
      BY <1>4, <1>6, <3>2
    <3> QED
      BY <1>2, <1>7, <3>1, <3>2
  <2>3. \A l \in A!Lists : Len(u.al[l]) <= t + more
    BY <1>1, <2>1, <2>2
  <2>4. \A l \in A!Lists : \A p : OneOf(p, u.al[l]) <=> IsRule(p, lines, l, k + 1)
    BY <1>1, <1>5, <2>1, <2>2
  <2> QED
    BY <2>2, <2>3, <2>4 DEF LoadedSo, line, u, more
<1>8. CASE line.kind = "allow"
  <2> DEFINE al == AllAdded(st.al, st.list, line.patterns)
  <2>1. u.al = al /\ u.list = st.list /\ ListAt(lines, k + 1) = st.list
    BY <1>4, <1>6, <1>8
  <2>2. Len(st.al[st.list]) + Len(line.patterns) <= MaxRules
    <3>1. Len(st.al[st.list]) <= t /\ Len(st.al[st.list]) \in Nat
      BY <1>1
    <3>2. Len(st.al[st.list]) + more <= MaxRules
      BY <1>3, <3>1
    <3> QED
      BY <3>2 DEF more
  <2>3. AddedSo(al, st.al, st.list, line.patterns, more)
    BY <1>1, <1>2, <2>2, LineAdds DEF more
  <2>4. /\ \A l \in A!Lists : l # st.list => al[l] = st.al[l]
        /\ Len(al[st.list]) <= Len(st.al[st.list]) + more
        /\ \A p : OneOf(p, al[st.list]) <=>
                    OneOf(p, st.al[st.list]) \/ (p # <<>> /\ \E i \in 1..more : line.patterns[i] = p)
    BY <2>3 DEF AddedSo
  <2> HIDE DEF al
  <2>5. \A l \in A!Lists : Len(u.al[l]) <= t + more
    <3> TAKE l \in A!Lists
    <3>1. CASE l = st.list
      <4>1. Len(al[l]) \in Nat
        <5>1. AllAdded(st.al, st.list, line.patterns) \in Ruled(pats)
          <6>1. A!LoadLine(st, line) \in Loading(pats)
            BY LoadingKeeps DEF line
          <6> QED
            BY <2>1, <6>1 DEF Loading, u, al
        <5> QED
          BY <5>1 DEF Ruled, al
      <4> QED
        BY <1>1, <1>3, <2>1, <2>4, <3>1, <4>1
    <3>2. CASE l # st.list
      <4>1. Len(u.al[l]) <= t /\ Len(u.al[l]) \in Nat
        BY <1>1, <2>1, <2>4, <3>2
      <4> QED
        BY <1>3, <4>1
    <3> QED
      BY <3>1, <3>2
  <2>6. \A l \in A!Lists : \A p : OneOf(p, u.al[l]) <=> IsRule(p, lines, l, k + 1)
    <3> TAKE l \in A!Lists
    <3> TAKE p
    <3>1. OneOf(p, line.patterns) <=> \E i \in 1..more : line.patterns[i] = p
      BY DEF OneOf, more
    <3>2. CASE l = st.list
      BY <1>1, <1>5, <2>1, <2>4, <3>1, <3>2
    <3>3. CASE l # st.list
      BY <1>1, <1>5, <2>1, <2>4, <3>3
    <3> QED
      BY <3>2, <3>3
  <2> QED
    BY <2>1, <2>5, <2>6 DEF LoadedSo, line, u, more
<1> QED
  BY <1>7, <1>8

\* The lists that are loaded have the file's patterns.
LEMMA ListsAreLoaded ==
  ASSUME NEW n \in Nat, NEW pats, NEW lines \in [1..n -> AllowLines(pats)], MaxRules \in Nat,
         Total(lines) <= MaxRules
  PROVE  /\ A!allowlist_load(lines) \in Ruled(pats)
         /\ \A l \in A!Lists : \A p : OneOf(p, A!allowlist_load(lines)[l]) <=> IsRule(p, lines, l, n)
<1>1. PICK h : LoadingSteps(h, pats, lines, n)
  BY RulesByLines
<1>2. PICK g : TotalSteps(g, lines, n)
  BY TotalByLines
<1>3. /\ h[0] = NothingAllowed /\ h[n].al = A!allowlist_load(lines)
      /\ \A k \in 0..n : h[k] \in Loading(pats)
      /\ \A k \in 1..n : h[k] = A!LoadLine(h[k - 1], lines[k])
  BY <1>1 DEF LoadingSteps
<1>4. /\ g[0] = 0 /\ g[n] = Total(lines)
      /\ \A k \in 0..n : g[k] \in Nat
      /\ \A k \in 1..n : g[k] = g[k - 1] + Len(lines[k].patterns)
  BY <1>2 DEF TotalSteps
<1>5. \A k \in 1..n : Len(lines[k].patterns) \in Nat
  <2>1. \A k \in 1..n : lines[k].patterns \in Seq(pats)
    BY RuleCarries
  <2> QED
    BY <2>1
<1>6. \A k \in 0..n : g[k] <= MaxRules
  <2> DEFINE Under == {k \in 0..n : g[n - k] <= MaxRules}
  <2>1. 0 \in Under
    BY <1>4
  <2>2. ASSUME NEW k \in 1..n, k - 1 \in Under
        PROVE  k \in Under
    <3> DEFINE i == n - (k - 1)
    <3>1. i \in 1..n /\ i - 1 = n - k /\ k \in 0..n /\ i - 1 \in 0..n /\ g[i] <= MaxRules
      BY <2>2
    <3> HIDE DEF i
    <3>2. g[i] = g[i - 1] + Len(lines[i].patterns) /\ g[i - 1] \in Nat /\ Len(lines[i].patterns) \in Nat
      BY <1>4, <1>5, <3>1
    <3>3. g[i - 1] <= MaxRules
      BY <3>1, <3>2
    <3> QED
      BY <3>1, <3>3
  <2> HIDE DEF Under
  <2>3. \A k \in 0..n : k \in Under
    BY <2>1, <2>2, PositionByPosition
  <2> TAKE k \in 0..n
  <2>4. n - k \in 0..n /\ n - (n - k) = k
    OBVIOUS
  <2> QED
    BY <2>3, <2>4 DEF Under
<1> DEFINE Right == {k \in 0..n : LoadedSo(h[k], lines, k, g[k])}
<1>7. 0 \in Right
  <2>1. \A p, l : ~IsRule(p, lines, l, 0)
    BY DEF IsRule
  <2>2. \A l \in A!Lists : NothingAllowed.al[l] = <<>>
    BY DEF NothingAllowed, A!allowlist_create
  <2>3. \A p : ~OneOf(p, <<>>)
    BY DEF OneOf
  <2>4. NothingAllowed.list = ListAt(lines, 0)
    BY DEF NothingAllowed, ListAt
  <2>5. LoadedSo(NothingAllowed, lines, 0, 0)
    BY <2>1, <2>2, <2>3, <2>4 DEF LoadedSo
  <2> QED
    BY <1>3, <1>4, <2>5
<1>8. ASSUME NEW m \in 1..n, m - 1 \in Right
      PROVE  m \in Right
  <2>1. PICK k \in 0..(n - 1) : k = m - 1 /\ m = k + 1
    OBVIOUS
  <2>2. /\ k \in Nat /\ k \in 0..n /\ h[k] \in Loading(pats) /\ lines[k + 1] \in AllowLines(pats)
        /\ g[k] \in Nat /\ LoadedSo(h[k], lines, k, g[k])
    BY <1>3, <1>4, <1>8, <2>1
  <2>3. h[k + 1] = A!LoadLine(h[k], lines[k + 1]) /\ g[k + 1] = g[k] + Len(lines[k + 1].patterns)
    BY <1>3, <1>4, <2>1
  <2>4. g[k] + Len(lines[k + 1].patterns) <= MaxRules
    BY <1>6, <2>1, <2>3
  <2>5. LoadedSo(A!LoadLine(h[k], lines[k + 1]), lines, k + 1, g[k] + Len(lines[k + 1].patterns))
    BY <2>2, <2>4, NextIsLoaded
  <2> QED
    BY <2>1, <2>3, <2>5
<1> HIDE DEF Right
<1>9. n \in Right
  <2>1. \A k \in 0..n : k \in Right
    BY <1>7, <1>8, PositionByPosition
  <2> QED
    BY <2>1
<1>10. h[n] \in Loading(pats) /\ LoadedSo(h[n], lines, n, g[n])
  BY <1>3, <1>9 DEF Right
<1> QED
  BY <1>3, <1>10 DEF Loading, LoadedSo

\* What is allowed is what a pattern of its list matches, in an allowlist of any number of
\* lines in any order that there is room for.
THEOREM AllowedByPatterns ==
  ASSUME NEW n \in Nat, NEW pats, NEW lines \in [1..n -> AllowLines(pats)], MaxRules \in Nat,
         NEW list \in A!Lists, NEW value
  PROVE  A!ByItsPatterns(lines, list, value)
<1> DEFINE own == A!PatternsFor(lines, list)
           al  == A!allowlist_load(lines)
<1> SUFFICES ASSUME Total(lines) <= MaxRules
             PROVE  A!allowlist_check(al, list, value)
                      <=> (own = {} \/ \E p \in own : A!Permits(list, p, value))
  BY Zenon DEF A!ByItsPatterns, Total
<1>1. al \in Ruled(pats) /\ \A p : OneOf(p, al[list]) <=> IsRule(p, lines, list, n)
  BY ListsAreLoaded
<1>2. \A p : p \in own <=> IsRule(p, lines, list, n)
  <2>1. DOMAIN lines = 1..n
    OBVIOUS
  <2>2. \A i \in 1..n : \A p : p \in A!ToSet(lines[i].patterns) <=> OneOf(p, lines[i].patterns)
    <3> TAKE i \in 1..n
    <3>1. lines[i].patterns \in Seq(pats)
      BY RuleCarries
    <3>2. DOMAIN lines[i].patterns = 1..Len(lines[i].patterns)
      BY <3>1
    <3> QED
      BY <3>2 DEF A!ToSet, OneOf
  <2>3. own = {p \in (UNION {A!ToSet(lines[i].patterns) : i \in 1..n}) \ {<<>>} :
                 \E i \in 1..n : p \in A!ToSet(lines[i].patterns) /\ list = ListAt(lines, i)}
    BY <2>1, Zenon DEF A!PatternsFor, ListAt
  <2> HIDE DEF own
  <2> TAKE p
  <2>4. p \in own <=> /\ p \in UNION {A!ToSet(lines[i].patterns) : i \in 1..n}
                     /\ p # <<>>
                     /\ \E i \in 1..n : p \in A!ToSet(lines[i].patterns) /\ list = ListAt(lines, i)
    <3> DEFINE all0 == UNION {A!ToSet(lines[i].patterns) : i \in 1..n}
               Q(x) == \E i \in 1..n : x \in A!ToSet(lines[i].patterns) /\ list = ListAt(lines, i)
    <3>1. own = {x \in all0 \ {<<>>} : Q(x)}
      BY <2>3
    <3> HIDE DEF all0, Q
    <3>2. p \in own <=> p \in all0 /\ p # <<>> /\ Q(p)
      BY <3>1
    <3> QED
      BY <3>2 DEF all0, Q
  <2>5. (\E i \in 1..n : p \in A!ToSet(lines[i].patterns) /\ list = ListAt(lines, i))
          => p \in UNION {A!ToSet(lines[i].patterns) : i \in 1..n}
    OBVIOUS
  <2>6. (\E i \in 1..n : p \in A!ToSet(lines[i].patterns) /\ list = ListAt(lines, i))
          <=> \E i \in 1..n : OneOf(p, lines[i].patterns) /\ list = ListAt(lines, i)
    BY <2>2
  <2> QED
    BY <2>4, <2>5, <2>6 DEF IsRule
<1>3. al[list] \in Seq(pats) /\ DOMAIN al[list] = 1..Len(al[list])
  BY <1>1 DEF Ruled
<1> HIDE DEF al, own
<1>4. al[list] = <<>> <=> own = {}
  <2>1. al[list] = <<>> <=> \A p : ~OneOf(p, al[list])
    <3> DEFINE s == al[list]
               l == Len(s)
    <3>1. s \in Seq(pats) /\ l \in Nat /\ (s = <<>> <=> l = 0)
      BY <1>3
    <3>2. (\A p : ~OneOf(p, s)) <=> 1..l = {}
      BY DEF OneOf
    <3> HIDE DEF l
    <3>3. 1..l = {} <=> l = 0
      BY <3>1
    <3> QED
      BY <3>1, <3>2, <3>3
  <2> QED
    BY <1>1, <1>2, <2>1
<1>5. (\E i \in DOMAIN al[list] : A!Permits(list, al[list][i], value))
        <=> \E p \in own : A!Permits(list, p, value)
  BY <1>1, <1>2, <1>3 DEF OneOf
<1> QED
  BY <1>4, <1>5 DEF A!allowlist_check, A!allowlist_is_enabled

===============================================================================
