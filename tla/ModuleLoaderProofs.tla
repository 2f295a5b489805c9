-------------------------- MODULE ModuleLoaderProofs --------------------------
(***************************************************************************)
(* The loader of multi-file programs, for any names, any entry and any     *)
(* contents of the disk: the order of evaluation is the least topological  *)
(* one, and what the loader does is what ProgramLoad promises.             *)
(***************************************************************************)
EXTENDS ModuleLoader, Integers, FiniteSetTheorems, SequenceTheorems, WellFoundedInduction, TLAPS

-----------------------------------------------------------------------------
(* Least elements.                                                         *)

(* Every set of numbers that is not empty has a least member.              *)
LEMMA LeastIn ==
    ASSUME NEW S \in SUBSET Nat, S # {}
    PROVE  Least(S) \in S /\ \A y \in S : Least(S) <= y
  <1> DEFINE R == {ss \in Nat \X Nat : ss[1] < ss[2]}
  <1>1. IsWellFoundedOn(R, Nat)
    BY NatLessThanWellFounded DEF OpToRel
  <1> HIDE DEF R
  <1>2. S \subseteq Nat
    OBVIOUS
  <1>3. \E x \in S : \A y \in S : ~(<<y, x>> \in R)
    BY <1>1, <1>2, WFMin, Zenon
  <1>4. PICK x \in S : \A y \in S : ~(<<y, x>> \in R)
    BY <1>3
  <1>5. \A y \in S : x <= y
    <2>1. SUFFICES ASSUME NEW y \in S, y < x
                   PROVE  FALSE
      BY <1>2
    <2>2. <<y, x>> \in Nat \X Nat /\ <<y, x>>[1] = y /\ <<y, x>>[2] = x
      BY <1>2
    <2>3. <<y, x>> \in R
      BY <2>1, <2>2 DEF R
    <2>4. QED
      BY <1>4, <2>3
  <1>6. QED
    BY <1>5 DEF Least

-----------------------------------------------------------------------------
(* The program.                                                            *)

(* A set of files that has the entry and what its members import.          *)
Closed(T) ==
    /\ Entry \in T
    /\ \A f \in T : SeqRange(Imports(f)) \ {Declared(Entry)} \subseteq T

Typed == TypeOK /\ disk \in Disk

(* What a file can hold.                                                   *)
LEMMA FileTyped ==
    ASSUME disk \in Disk, NEW f \in Names
    PROVE  Declared(f) \in Names /\ Imports(f) \in Seq(Names)
  BY DiskAssumption DEF Declared, Imports

(* The names a file imports are names.                                     *)
LEMMA ImportTyped ==
    ASSUME disk \in Disk, NEW f \in Names
    PROVE  SeqRange(Imports(f)) \subseteq Names
  <1>1. Imports(f) \in Seq(Names)
    BY FileTyped
  <1>2. QED
    BY <1>1, LenProperties DEF SeqRange

(* The two modules speak of the same imports.                              *)
LEMMA SameImports == \A f : Load!ImportedBy(f) = SeqRange(Imports(f))
  BY DEF Load!ImportedBy, SeqRange, Imports

(* There is a least closed set of files, and it is the program.            *)
LEMMA ProgramLeast ==
    ASSUME disk \in Disk
    PROVE  /\ Load!Program \in SUBSET Names
           /\ Closed(Load!Program)
           /\ \A T \in SUBSET Names : Closed(T) => Load!Program \subseteq T
  <1> DEFINE Least0 == {f \in Names : \A T \in SUBSET Names : Closed(T) => f \in T}
             IsLeast(S) == Closed(S) /\ \A T \in SUBSET Names : Closed(T) => S \subseteq T
  <1>1. Closed(Names)
    BY EntryAssumption, ImportTyped DEF Closed
  <1>2. Closed(Least0)
    <2>1. Entry \in Least0
      BY EntryAssumption DEF Closed
    <2>2. ASSUME NEW f \in Least0, NEW n \in SeqRange(Imports(f)) \ {Declared(Entry)}
          PROVE  n \in Least0
      <3>1. n \in Names
        BY ImportTyped
      <3>2. ASSUME NEW T \in SUBSET Names, Closed(T)
            PROVE  n \in T
        BY <3>2 DEF Closed
      <3>3. QED
        BY <3>1, <3>2
    <2>3. QED
      BY <2>1, <2>2 DEF Closed
  <1>3. \E S \in SUBSET Names : IsLeast(S)
    <2>1. Least0 \in SUBSET Names /\ IsLeast(Least0)
      BY <1>2
    <2>2. QED
      BY <2>1
  <1>4. Load!Program = CHOOSE S \in SUBSET Names : IsLeast(S)
    BY DEF Load!Program, Load!ImportedBy, Closed, SeqRange, Imports, Declared
  <1> HIDE DEF IsLeast
  <1>5. Load!Program \in SUBSET Names /\ IsLeast(Load!Program)
    BY <1>3, <1>4
  <1>6. QED
    BY <1>5 DEF IsLeast

(* The program is the disk's, and the disk does not change.                *)
LEMMA DiskFixed ==
    ASSUME disk' = disk
    PROVE  Load!Program' = Load!Program
  BY DEF Load!Program, Load!ImportedBy

-----------------------------------------------------------------------------
(* Discovery.                                                              *)

(* The files found so far, in order.                                       *)
Found == loaded \o queue

(***************************************************************************)
(* While it goes on, discovery has found the entry first and then one file *)
(* for each name it has seen imported, but never the name the entry        *)
(* declares: that one needs no file.  The entry itself is found again when *)
(* its file's name is imported and it declares another one.                *)
(***************************************************************************)
Discovering ==
    /\ Len(Found) \in Nat \ {0} /\ Found[1] = Entry
    /\ \A i \in 1..Len(Found) : disk[Found[i]].loads /\ Found[i] \in Load!Program
    /\ Declared(Entry) \in seen
    /\ \A i \in 2..Len(Found) :
         /\ Found[i] \in seen
         /\ Found[i] # Declared(Entry)
         /\ \E g \in Load!Program : Found[i] \in SeqRange(Imports(g))
    /\ \A i, j \in 2..Len(Found) : Found[i] = Found[j] => i = j
    /\ \A n \in seen \ {Declared(Entry)} : \E i \in 2..Len(Found) : Found[i] = n
    /\ \A i \in DOMAIN loaded : SeqRange(Imports(loaded[i])) \subseteq seen
    /\ queue # <<>> =>
         \A k \in DOMAIN Imports(Head(queue)) : k < next => Imports(Head(queue))[k] \in seen

(* The two lists of files make one.                                        *)
LEMMA FoundType ==
    ASSUME Typed
    PROVE  /\ Found \in Seq(Names) /\ Len(Found) = Len(loaded) + Len(queue)
           /\ Len(loaded) \in Nat /\ Len(queue) \in Nat
           /\ \A i \in 1..Len(loaded) : Found[i] = loaded[i]
  <1>1. loaded \in Seq(Names) /\ queue \in Seq(Names)
    BY DEF Typed, TypeOK
  <1>2. Len(loaded) \in Nat /\ Len(queue) \in Nat
    BY <1>1, LenProperties
  <1>3. /\ Found \in Seq(Names) /\ Len(Found) = Len(loaded) + Len(queue)
        /\ \A i \in 1..Len(loaded) + Len(queue) :
              Found[i] = IF i <= Len(loaded) THEN loaded[i] ELSE queue[i - Len(loaded)]
    BY <1>1, ConcatProperties DEF Found
  <1>4. QED
    BY <1>2, <1>3

(* The file whose imports are being followed has been found, and the next  *)
(* import is a name.                                                       *)
LEMMA HeadFound ==
    ASSUME Typed, queue # <<>>
    PROVE  /\ Head(queue) \in Names
           /\ \E i \in 1..Len(Found) : Found[i] = Head(queue)
  <1>1. loaded \in Seq(Names) /\ queue \in Seq(Names)
    BY DEF Typed, TypeOK
  <1>2. Len(loaded) \in Nat /\ Len(queue) \in Nat \ {0} /\ Head(queue) \in Names
    BY <1>1, LenProperties, EmptySeq, HeadTailProperties
  <1>3. Head(queue) = queue[1]
    BY <1>1, <1>2
  <1>4. Len(loaded) + 1 \in 1..Len(loaded) + Len(queue)
    BY <1>2
  <1>5. Found[Len(loaded) + 1] = queue[(Len(loaded) + 1) - Len(loaded)]
    BY <1>1, <1>2, <1>4, ConcatProperties DEF Found
  <1>6. (Len(loaded) + 1) - Len(loaded) = 1
    BY <1>2
  <1>7. QED
    BY <1>2, <1>3, <1>4, <1>5, <1>6, FoundType

(* Following an import: it is one, and its name may be a file's.           *)
LEMMA ImportNamed ==
    ASSUME Typed, Following
    PROVE  /\ next \in DOMAIN Imports(Head(queue))
           /\ Import \in Names
           /\ Import \in SeqRange(Imports(Head(queue)))
  <1>1. Head(queue) \in Names /\ disk \in Disk /\ next \in Nat \ {0}
    BY HeadFound DEF Following, Typed, TypeOK
  <1>2. Imports(Head(queue)) \in Seq(Names)
    BY <1>1, FileTyped
  <1>3. next \in DOMAIN Imports(Head(queue))
    BY <1>1, <1>2, LenProperties DEF Following
  <1>4. QED
    BY <1>1, <1>3, ImportTyped DEF Import, SeqRange

(* At first the entry is all that has been found.                          *)
LEMMA DiscoveryStart ==
    ASSUME Init, disk[Entry].loads
    PROVE  Discovering
  <1>1. Found = <<Entry>>
    <2>1. <<Entry>> \in Seq(Names)
      BY EntryAssumption
    <2>2. QED
      BY <2>1, ConcatEmptySeq DEF Init, Found
  <1>2. Len(Found) = 1 /\ Found[1] = Entry
    BY <1>1
  <1>3. Entry \in Load!Program
    BY ProgramLeast DEF Init, Closed
  <1>4. queue # <<>> /\ next = 1 /\ Head(queue) = Entry /\ loaded = <<>> /\ seen = {Declared(Entry)}
    BY DEF Init
  <1>5. ASSUME NEW k \in DOMAIN Imports(Entry), k < 1
        PROVE  FALSE
    <2>1. Imports(Entry) \in Seq(Names)
      BY FileTyped, EntryAssumption DEF Init
    <2>2. QED
      BY <1>5, <2>1, LenProperties
  <1>6. \A i \in 1..Len(Found) : i = 1
    BY <1>2
  <1>7. 2..Len(Found) = {}
    BY <1>2
  <1>8. DOMAIN loaded = {}
    BY <1>4
  <1>9. QED
    BY <1>2, <1>3, <1>4, <1>5, <1>6, <1>7, <1>8 DEF Discovering

(* An import that was seen before is passed over.                          *)
LEMMA DiscoverySkip ==
    ASSUME Typed, Discovering, SkipImport
    PROVE  Discovering'
  <1>1. /\ next' = next + 1 /\ disk' = disk /\ seen' = seen
        /\ queue' = queue /\ loaded' = loaded /\ queue # <<>>
        /\ Import \in seen /\ next \in Nat
    BY DEF SkipImport, Following, Typed, TypeOK
  <1>2. Load!Program' = Load!Program
    BY <1>1, DiskFixed
  <1>3. Found' = Found
    BY <1>1 DEF Found
  <1>4. ASSUME NEW k \in DOMAIN Imports(Head(queue)), k < next + 1
        PROVE  Imports(Head(queue))[k] \in seen
    <2>1. k \in Nat
      <3>1. Imports(Head(queue)) \in Seq(Names)
        BY <1>1, HeadFound, FileTyped DEF Typed
      <3>2. QED
        BY <3>1, LenProperties
    <2>2. k < next \/ k = next
      BY <1>1, <1>4, <2>1
    <2>3. QED
      BY <1>1, <2>2 DEF Discovering, Import
  <1>5. QED
    BY <1>1, <1>2, <1>3, <1>4 DEF Discovering, Imports, Declared

(* A name that is seen for the first time is a file of the program.        *)
LEMMA ImportOfProgram ==
    ASSUME Typed, Discovering, Following, Import \notin seen
    PROVE  /\ Import # Declared(Entry)
           /\ Import \in Load!Program
           /\ \E g \in Load!Program : Import \in SeqRange(Imports(g))
  <1>1. Head(queue) \in Load!Program
    BY HeadFound DEF Following, Discovering
  <1>2. Import \in SeqRange(Imports(Head(queue))) /\ Import # Declared(Entry)
    BY ImportNamed DEF Discovering
  <1>3. Closed(Load!Program)
    BY ProgramLeast DEF Typed
  <1>4. QED
    BY <1>1, <1>2, <1>3 DEF Closed

(* Its file is found, and is the last one found so far.                    *)
LEMMA DiscoveryLoad ==
    ASSUME Typed, Discovering, LoadImport, disk[Import].loads
    PROVE  Discovering'
  <1>1. /\ next' = next + 1 /\ disk' = disk /\ seen' = seen \union {Import}
        /\ queue' = Append(queue, Import) /\ loaded' = loaded /\ queue # <<>>
        /\ Import \notin seen /\ next \in Nat
    BY DEF LoadImport, Following, Typed, TypeOK
  <1> DEFINE n == Import
             m == Len(Found)
  <1>2. /\ n # Declared(Entry) /\ n \in Load!Program /\ n \in Names
        /\ \E g \in Load!Program : n \in SeqRange(Imports(g))
    BY ImportOfProgram, ImportNamed DEF LoadImport
  <1>3. Load!Program' = Load!Program
    BY <1>1, DiskFixed
  <1>4. loaded \in Seq(Names) /\ queue \in Seq(Names)
    BY DEF Typed, TypeOK
  <1>5. Found' = Append(Found, n)
    <2>1. Append(queue, n) = queue \o <<n>> /\ <<n>> \in Seq(Names)
      BY <1>2, <1>4, AppendIsConcat
    <2>2. loaded \o (queue \o <<n>>) = (loaded \o queue) \o <<n>>
      BY <1>4, <2>1, ConcatAssociative
    <2>3. Found \in Seq(Names)
      BY FoundType
    <2>4. Append(Found, n) = Found \o <<n>>
      BY <1>2, <2>3, AppendIsConcat
    <2>5. QED
      BY <1>1, <2>1, <2>2, <2>4 DEF Found
  <1>6. /\ m \in Nat \ {0} /\ Len(Found') = m + 1 /\ Found'[m + 1] = n
        /\ \A i \in 1..m : Found'[i] = Found[i]
    <2>1. Found \in Seq(Names) /\ m \in Nat \ {0}
      BY FoundType DEF Discovering
    <2>2. QED
      BY <1>2, <1>5, <2>1, AppendProperties
  <1>7. Head(queue') = Head(queue)
    BY <1>1, <1>4, HeadTailAppend
  <1> HIDE DEF n, m
  <1>8. \A i \in 1..(m + 1) : i \in 1..m \/ i = m + 1
    BY <1>6
  <1>9. 1 \in 1..m /\ m + 1 \in 2..(m + 1) /\ 2..m \subseteq 2..(m + 1) /\ 2..m \subseteq 1..m
    BY <1>6
  <1>10. \A i \in 2..(m + 1) : i \in 2..m \/ i = m + 1
    BY <1>6
  <1>11. /\ Found'[1] = Entry
         /\ \A i \in 1..(m + 1) : disk[Found'[i]].loads /\ Found'[i] \in Load!Program
    BY <1>2, <1>6, <1>8, <1>9 DEF Discovering, m, n
  <1>12. \A i \in 2..(m + 1) :
            /\ Found'[i] \in seen'
            /\ Found'[i] # Declared(Entry)
            /\ \E g \in Load!Program : Found'[i] \in SeqRange(Imports(g))
    BY <1>1, <1>2, <1>6, <1>9, <1>10 DEF Discovering, m, n
  <1>13. ASSUME NEW i \in 2..(m + 1), NEW j \in 2..(m + 1), Found'[i] = Found'[j]
         PROVE  i = j
    <2>1. \A k \in 2..m : Found'[k] = Found[k] /\ Found[k] \in seen
      BY <1>6, <1>9 DEF Discovering, m
    <2>2. CASE i \in 2..m /\ j \in 2..m
      BY <1>13, <2>1, <2>2 DEF Discovering, m
    <2>3. CASE i = m + 1 \/ j = m + 1
      BY <1>1, <1>6, <1>10, <1>13, <2>1, <2>3 DEF n
    <2>4. QED
      BY <1>10, <2>2, <2>3
  <1>14. \A x \in seen' \ {Declared(Entry)} : \E i \in 2..(m + 1) : Found'[i] = x
    <2>1. ASSUME NEW x \in seen \ {Declared(Entry)}
          PROVE  \E i \in 2..(m + 1) : Found'[i] = x
      <3>1. PICK i \in 2..m : Found[i] = x
        BY <2>1 DEF Discovering, m
      <3>2. QED
        BY <1>6, <1>9, <3>1
    <2>2. QED
      BY <1>1, <1>6, <1>9, <2>1 DEF n
  <1>15. ASSUME NEW k \in DOMAIN Imports(Head(queue)), k < next + 1
         PROVE  Imports(Head(queue))[k] \in seen'
    <2>1. k \in Nat
      <3>1. Imports(Head(queue)) \in Seq(Names)
        BY <1>1, HeadFound, FileTyped DEF Typed
      <3>2. QED
        BY <3>1, LenProperties
    <2>2. k < next \/ k = next
      BY <1>1, <1>15, <2>1
    <2>3. QED
      BY <1>1, <2>2 DEF Discovering, Import
  <1>16. (\A f : Imports(f)' = Imports(f)) /\ Declared(Entry)' = Declared(Entry)
    BY <1>1 DEF Imports, Declared
  <1>17. Declared(Entry) \in seen'
    BY <1>1 DEF Discovering
  <1>18. \A i \in DOMAIN loaded : SeqRange(Imports(loaded[i])) \subseteq seen'
    BY <1>1 DEF Discovering
  <1>19. QED
    BY <1>1, <1>3, <1>6, <1>7, <1>11, <1>12, <1>13, <1>14, <1>15, <1>16, <1>17, <1>18
       DEF Discovering, Imports

(* A file whose imports have all been seen moves to those that are loaded. *)
LEMMA DiscoveryFinish ==
    ASSUME Typed, Discovering, FinishModule
    PROVE  Discovering'
  <1> DEFINE f == Head(queue)
             m == Len(loaded)
  <1>1. /\ disk' = disk /\ seen' = seen /\ queue # <<>> /\ next' = 1
        /\ loaded' = Append(loaded, f) /\ queue' = Tail(queue)
        /\ next > Len(Imports(f)) /\ next \in Nat
    BY DEF FinishModule, Typed, TypeOK
  <1>2. loaded \in Seq(Names) /\ queue \in Seq(Names) /\ f \in Names /\ disk \in Disk
    BY <1>1, HeadFound DEF Typed, TypeOK
  <1>3. Imports(f) \in Seq(Names)
    BY <1>2, FileTyped
  <1>4. SeqRange(Imports(f)) \subseteq seen
    <2>1. ASSUME NEW k \in DOMAIN Imports(f)
          PROVE  Imports(f)[k] \in seen
      <3>1. k < next
        BY <1>1, <1>3, <2>1, LenProperties
      <3>2. QED
        BY <1>1, <2>1, <3>1 DEF Discovering
    <2>2. QED
      BY <2>1 DEF SeqRange
  <1>5. Found' = Found
    <2>1. <<f>> \in Seq(Names) /\ Tail(queue) \in Seq(Names)
      BY <1>1, <1>2, HeadTailProperties
    <2>2. <<f>> \o Tail(queue) = queue
      BY <1>1, <1>2
    <2>3. Append(loaded, f) = loaded \o <<f>>
      BY <1>2, AppendIsConcat
    <2>4. (loaded \o <<f>>) \o Tail(queue) = loaded \o (<<f>> \o Tail(queue))
      BY <1>2, <2>1, ConcatAssociative
    <2>5. QED
      BY <1>1, <2>2, <2>3, <2>4 DEF Found
  <1>6. Load!Program' = Load!Program
    BY <1>1, DiskFixed
  <1>7. /\ m \in Nat /\ DOMAIN loaded = 1..m /\ DOMAIN loaded' = 1..(m + 1)
        /\ loaded'[m + 1] = f /\ \A i \in 1..m : loaded'[i] = loaded[i]
    BY <1>1, <1>2, AppendProperties, LenProperties
  <1> HIDE DEF m, f
  <1>8. \A i \in DOMAIN loaded' : SeqRange(Imports(loaded'[i])) \subseteq seen
    <2>1. \A i \in 1..(m + 1) : i \in 1..m \/ i = m + 1
      BY <1>7
    <2>2. QED
      BY <1>4, <1>7, <2>1 DEF Discovering
  <1>9. ASSUME queue' # <<>>, NEW k \in DOMAIN Imports(Head(queue')), k < 1
        PROVE  FALSE
    <2>1. queue' \in Seq(Names)
      BY <1>1, <1>2, HeadTailProperties
    <2>2. Head(queue') \in Names
      BY <1>9, <2>1, HeadTailProperties
    <2>3. Imports(Head(queue')) \in Seq(Names)
      BY <1>2, <2>2, FileTyped
    <2>4. QED
      BY <1>9, <2>3, LenProperties
  <1>10. (\A g : Imports(g)' = Imports(g)) /\ Declared(Entry)' = Declared(Entry)
    BY <1>1 DEF Imports, Declared
  <1>11. QED
    BY <1>1, <1>5, <1>6, <1>8, <1>9, <1>10 DEF Discovering, Imports

(* A program with a file that cannot be loaded is not well formed.         *)
LEMMA LoadFailure ==
    ASSUME Typed, Discovering, LoadImport, ~disk[Import].loads
    PROVE  ~Load!WellFormed
  <1>1. Import \in Load!Program
    BY ImportOfProgram DEF LoadImport
  <1>2. QED
    BY <1>1 DEF Load!WellFormed

(* Where discovery ends, it has found the program.                         *)
LEMMA ProgramFound ==
    ASSUME Typed, Discovering, queue = <<>>
    PROVE  /\ Found = loaded
           /\ Load!Program = SeqRange(loaded)
           /\ IsFiniteSet(Load!Program)
           /\ Len(loaded) \in Nat /\ DOMAIN loaded = 1..Len(loaded)
  <1>1. loaded \in Seq(Names) /\ Found = loaded
    <2>1. loaded \in Seq(Names)
      BY DEF Typed, TypeOK
    <2>2. QED
      BY <2>1, ConcatEmptySeq DEF Found
  <1>2. Len(loaded) \in Nat /\ DOMAIN loaded = 1..Len(loaded) /\ loaded \in [1..Len(loaded) -> Names]
    BY <1>1, LenProperties
  <1>3. SeqRange(loaded) \subseteq Load!Program
    BY <1>1, <1>2 DEF Discovering, SeqRange
  <1>4. Closed(SeqRange(loaded))
    <2>1. Entry \in SeqRange(loaded)
      BY <1>1, <1>2 DEF Discovering, SeqRange
    <2>2. ASSUME NEW f \in SeqRange(loaded), NEW n \in SeqRange(Imports(f)) \ {Declared(Entry)}
          PROVE  n \in SeqRange(loaded)
      <3>1. n \in seen
        BY <2>2 DEF Discovering, SeqRange
      <3>2. PICK i \in 2..Len(Found) : Found[i] = n
        BY <2>2, <3>1 DEF Discovering
      <3>3. i \in DOMAIN loaded
        BY <1>1, <1>2
      <3>4. QED
        BY <1>1, <3>2, <3>3 DEF SeqRange
    <2>3. QED
      BY <2>1, <2>2 DEF Closed
  <1>5. Load!Program \subseteq SeqRange(loaded)
    <2>1. SeqRange(loaded) \in SUBSET Names
      BY <1>2 DEF SeqRange
    <2>2. QED
      BY <1>4, <2>1, ProgramLeast DEF Typed
  <1>6. IsFiniteSet(SeqRange(loaded))
    <2>1. loaded \in Surjection(1..Len(loaded), SeqRange(loaded))
      BY <1>2 DEF SeqRange, Surjection
    <2>2. IsFiniteSet(1..Len(loaded))
      BY <1>2, FS_Interval
    <2>3. QED
      BY <2>1, <2>2, FS_Surjection
  <1>7. Load!Program = SeqRange(loaded)
    BY <1>3, <1>5
  <1>8. QED
    BY <1>1, <1>2, <1>6, <1>7

(***************************************************************************)
(* The entry's file is never part of a well-formed program a second time:  *)
(* if all imports are declared, the files, as names, are declared as well; *)
(* as there are as many of them as declared names, these are the same; but *)
(* the name the entry declares is not the name of a file that was found.   *)
(***************************************************************************)
LEMMA EntryOnce ==
    ASSUME Typed, Discovering, queue = <<>>, Load!WellFormed,
           NEW j \in 2..Len(Found), Found[j] = Entry
    PROVE  FALSE
  <1> DEFINE P == Load!Program
             D == {Declared(g) : g \in P}
             d == [g \in P |-> Declared(g)]
  <1>1. /\ Found = loaded /\ P = SeqRange(loaded) /\ IsFiniteSet(P)
        /\ Len(loaded) \in Nat /\ DOMAIN loaded = 1..Len(loaded)
    BY ProgramFound
  <1>2. ASSUME NEW f \in P
        PROVE  f \in D
    <2>1. PICK i \in 1..Len(Found) : Found[i] = f
      BY <1>1, <1>2 DEF SeqRange
    <2>2. PICK k \in 2..Len(Found) : Found[k] = f
      <3>1. CASE i = 1
        BY <2>1, <3>1 DEF Discovering
      <3>2. CASE i # 1
        BY <1>1, <2>1, <3>2
      <3>3. QED
        BY <3>1, <3>2
    <2>3. PICK g \in P : f \in SeqRange(Imports(g))
      BY <2>2 DEF Discovering
    <2>4. SeqRange(Imports(g)) \subseteq D
      BY SameImports DEF Load!WellFormed, Declared
    <2>5. QED
      BY <2>3, <2>4
  <1>3. \A f, g \in P : Declared(f) = Declared(g) => f = g
    BY DEF Load!WellFormed, Declared
  <1>4. d \in Bijection(P, D)
    BY <1>3 DEF Bijection, Injection, Surjection, IsInjective
  <1> HIDE DEF P
  <1>5. d \in Surjection(P, D) /\ d \in Injection(P, D)
    BY <1>4 DEF Bijection
  <1> HIDE DEF D, d
  <1>6. IsFiniteSet(D) /\ Cardinality(D) = Cardinality(P)
    BY <1>1, <1>5, FS_Surjection
  <1>7. P = D
    <2>1. P \subseteq D
      BY <1>2
    <2>2. QED
      BY <1>6, <2>1, FS_Subset
  <1>8. Entry \in P
    BY ProgramLeast DEF Typed, Closed, P
  <1>9. Declared(Entry) \in P
    BY <1>7, <1>8 DEF D
  <1>10. PICK i \in 1..Len(Found) : Found[i] = Declared(Entry)
    BY <1>1, <1>9 DEF SeqRange
  <1>11. Declared(Entry) # Entry
    BY DEF Discovering
  <1>12. i # 1 => i \in 2..Len(Found)
    BY <1>1
  <1>13. QED
    BY <1>10, <1>11, <1>12 DEF Discovering

(* Modules of one name make a program ill formed, be they in one file or   *)
(* in two.                                                                 *)
LEMMA DuplicateFailure ==
    ASSUME Typed, Discovering, queue = <<>>,
           NEW i \in DOMAIN loaded, NEW j \in DOMAIN loaded, i # j,
           Declared(loaded[i]) = Declared(loaded[j])
    PROVE  ~Load!WellFormed
  <1> SUFFICES ASSUME Load!WellFormed
               PROVE  FALSE
    OBVIOUS
  <1>1. /\ Found = loaded /\ Load!Program = SeqRange(loaded)
        /\ Len(loaded) \in Nat /\ DOMAIN loaded = 1..Len(loaded)
    BY ProgramFound
  <1>2. loaded[i] = loaded[j]
    BY <1>1 DEF Load!WellFormed, SeqRange, Declared
  <1>3. ASSUME NEW a \in 1..Len(loaded), NEW b \in 1..Len(loaded), loaded[a] = loaded[b], a < b
        PROVE  FALSE
    <2>1. b \in 2..Len(Found)
      BY <1>1, <1>3
    <2>2. CASE a = 1
      <3>1. Found[b] = Entry
        BY <1>1, <1>3, <2>2 DEF Discovering
      <3>2. QED
        BY <2>1, <3>1, EntryOnce
    <2>3. CASE a # 1
      <3>1. a \in 2..Len(Found)
        BY <1>1, <2>3
      <3>2. a = b
        BY <1>1, <1>3, <2>1, <3>1 DEF Discovering
      <3>3. QED
        BY <1>1, <1>3, <3>2
    <2>4. QED
      BY <2>2, <2>3
  <1>4. i < j \/ j < i
    BY <1>1
  <1>5. QED
    BY <1>1, <1>2, <1>3, <1>4

(* What is known of the files from then on.                                *)
Discovered ==
    /\ Load!Program = SeqRange(loaded)
    /\ \A i, j \in DOMAIN loaded : Declared(loaded[i]) = Declared(loaded[j]) => i = j
    /\ \A i \in DOMAIN loaded : disk[loaded[i]].loads

(* Without modules of one name, discovery ends with all of it.             *)
LEMMA DiscoveryEnds ==
    ASSUME Typed, Discovering, queue = <<>>,
           ~\E i, j \in DOMAIN loaded : i # j /\ Declared(loaded[i]) = Declared(loaded[j])
    PROVE  Discovered
  <1>1. /\ Found = loaded /\ Load!Program = SeqRange(loaded) /\ DOMAIN loaded = 1..Len(loaded)
    BY ProgramFound
  <1>2. QED
    BY <1>1 DEF Discovering, Discovered

(* Then every file of the program has been loaded.                          *)
LEMMA AllLoad ==
    ASSUME Typed, Discovering, queue = <<>>
    PROVE  \A f \in Load!Program : disk[f].loads
  <1>1. Found = loaded /\ Load!Program = SeqRange(loaded) /\ DOMAIN loaded = 1..Len(loaded)
    BY ProgramFound
  <1>2. QED
    BY <1>1 DEF Discovering, SeqRange

-----------------------------------------------------------------------------
(* Sorting.                                                                *)

(* The places at which m imports what is not among S.                      *)
Unmet(m, S) == {i \in DOMAIN ImportsOf(m) : ImportsOf(m)[i] \notin S}

(* The places at which it imports n, which Occurrences counts.             *)
Uses(m, n) == {i \in DOMAIN ImportsOf(m) : ImportsOf(m)[i] = n}

(* Module m could stand at place i of s: its imports stand before, and     *)
(* itself it does not.                                                     *)
FreeAt(s, m, i) ==
    /\ \A j \in 1 .. (i - 1) : s[j] # m
    /\ \A n \in SeqRange(ImportsOf(m)) : \E j \in 1 .. (i - 1) : s[j] = n

(***************************************************************************)
(* The order so far has each module once, after its imports, and at each   *)
(* place the least that could stand there; in-degrees count the imports    *)
(* that are still missing, and `ready' are the modules without any.        *)
(***************************************************************************)
Sorting ==
    /\ \A i \in DOMAIN order : order[i] \in Modules
    /\ \A i, j \in DOMAIN order : order[i] = order[j] => i = j
    /\ IsTopological(order)
    /\ \A i \in DOMAIN order, m \in Modules : FreeAt(order, m, i) => order[i] <= m
    /\ DOMAIN indegree = Modules
    /\ \A m \in Modules : indegree[m] = Cardinality(Unmet(m, SeqRange(order)))
    /\ ready = {m \in Modules : indegree[m] = 0 /\ m \notin SeqRange(order)}

(* Each declared name is the name of one of the files.                     *)
LEMMA ModuleFile ==
    ASSUME Typed, Discovered, NEW m \in Modules
    PROVE  /\ FileOf(m) \in SeqRange(loaded) /\ Declared(FileOf(m)) = m
           /\ \A f \in SeqRange(loaded) : Declared(f) = m => f = FileOf(m)
           /\ m \in Names /\ FileOf(m) \in Names /\ ImportsOf(m) \in Seq(Names)
  <1>1. PICK i \in DOMAIN loaded : Declared(loaded[i]) = m
    BY DEF Modules
  <1>2. loaded[i] \in SeqRange(loaded)
    BY DEF SeqRange
  <1>3. FileOf(m) \in SeqRange(loaded) /\ Declared(FileOf(m)) = m
    BY <1>1, <1>2 DEF FileOf
  <1>4. \A f \in SeqRange(loaded) : Declared(f) = m => f = FileOf(m)
    BY <1>3 DEF Discovered, SeqRange
  <1>5. SeqRange(loaded) \subseteq Names
    <2>1. loaded \in Seq(Names)
      BY DEF Typed, TypeOK
    <2>2. QED
      BY <2>1, LenProperties DEF SeqRange
  <1>6. FileOf(m) \in Names /\ disk \in Disk
    BY <1>3, <1>5 DEF Typed
  <1>7. m \in Names /\ ImportsOf(m) \in Seq(Names)
    BY <1>3, <1>6, FileTyped DEF ImportsOf
  <1>8. QED
    BY <1>3, <1>4, <1>6, <1>7

(* There are finitely many modules, as many as files.                      *)
LEMMA ModulesFinite ==
    ASSUME Typed
    PROVE  IsFiniteSet(Modules) /\ Cardinality(Modules) \in Nat /\ Modules \subseteq Names
  <1>1. loaded \in Seq(Names) /\ disk \in Disk
    BY DEF Typed, TypeOK
  <1>2. Len(loaded) \in Nat /\ DOMAIN loaded = 1..Len(loaded) /\ loaded \in [1..Len(loaded) -> Names]
    BY <1>1, LenProperties
  <1> DEFINE d == [i \in 1..Len(loaded) |-> Declared(loaded[i])]
  <1>3. d \in Surjection(1..Len(loaded), Modules)
    BY <1>2 DEF Modules, Surjection
  <1>4. IsFiniteSet(1..Len(loaded))
    BY <1>2, FS_Interval
  <1> HIDE DEF d
  <1>5. IsFiniteSet(Modules)
    BY <1>3, <1>4, FS_Surjection
  <1>6. Modules \subseteq Names
    BY <1>1, <1>2, FileTyped DEF Modules
  <1>7. QED
    BY <1>5, <1>6, FS_CardinalityType

(* Modules and their imports do not change any more.                       *)
LEMMA FilesFixed ==
    ASSUME disk' = disk, loaded' = loaded
    PROVE  /\ Modules' = Modules
           /\ \A m : FileOf(m)' = FileOf(m) /\ ImportsOf(m)' = ImportsOf(m)
           /\ Discovered <=> Discovered'
  <1>1. Load!Program' = Load!Program
    BY DiskFixed
  <1>2. \A m : FileOf(m)' = FileOf(m)
    BY DEF FileOf, SeqRange, Declared
  <1>3. \A m : ImportsOf(m)' = ImportsOf(m)
    BY <1>2 DEF ImportsOf, Imports
  <1>4. Modules' = Modules
    BY DEF Modules, Declared
  <1>5. Discovered <=> Discovered'
    BY <1>1 DEF Discovered, SeqRange, Declared
  <1>6. QED
    BY <1>2, <1>3, <1>4, <1>5

(* A module has no missing imports exactly when they are all among S.      *)
LEMMA UnmetCount ==
    ASSUME Typed, Discovered, NEW m \in Modules, NEW S
    PROVE  /\ IsFiniteSet(Unmet(m, S)) /\ Cardinality(Unmet(m, S)) \in Nat
           /\ Cardinality(Unmet(m, S)) = 0 <=> SeqRange(ImportsOf(m)) \subseteq S
  <1>1. ImportsOf(m) \in Seq(Names)
    BY ModuleFile
  <1>2. Unmet(m, S) \in SUBSET (1..Len(ImportsOf(m))) /\ IsFiniteSet(1..Len(ImportsOf(m)))
    <2>1. Len(ImportsOf(m)) \in Nat /\ DOMAIN ImportsOf(m) = 1..Len(ImportsOf(m))
      BY <1>1, LenProperties
    <2>2. IsFiniteSet(1..Len(ImportsOf(m)))
      BY <2>1, FS_Interval
    <2>3. QED
      BY <2>1, <2>2 DEF Unmet
  <1>3. IsFiniteSet(Unmet(m, S))
    BY <1>2, FS_Subset
  <1>4. Cardinality(Unmet(m, S)) = 0 <=> Unmet(m, S) = {}
    BY <1>3, FS_EmptySet
  <1>5. Unmet(m, S) = {} <=> SeqRange(ImportsOf(m)) \subseteq S
    BY DEF Unmet, SeqRange
  <1>6. QED
    BY <1>3, <1>4, <1>5, FS_CardinalityType

(* Putting n in order takes the places that import n off the missing ones. *)
LEMMA UnmetPop ==
    ASSUME Typed, Discovered, NEW m \in Modules, NEW S, NEW n, n \notin S
    PROVE  /\ Cardinality(Unmet(m, S \union {n})) = Cardinality(Unmet(m, S)) - Occurrences(m, n)
           /\ Occurrences(m, n) \in Nat
           /\ Occurrences(m, n) > 0 <=> n \in SeqRange(ImportsOf(m))
  <1>1. Occurrences(m, n) = Cardinality(Uses(m, n))
    BY DEF Occurrences, Uses
  <1>2. Uses(m, n) \subseteq Unmet(m, S) /\ Unmet(m, S \union {n}) = Unmet(m, S) \ Uses(m, n)
    BY DEF Uses, Unmet
  <1>3. IsFiniteSet(Unmet(m, S))
    BY UnmetCount
  <1>4. Unmet(m, S) \intersect Uses(m, n) = Uses(m, n)
    BY <1>2
  <1>5. Cardinality(Unmet(m, S) \ Uses(m, n)) = Cardinality(Unmet(m, S)) - Cardinality(Uses(m, n))
    BY <1>3, <1>4, FS_Difference
  <1>6. IsFiniteSet(Uses(m, n))
    BY <1>2, <1>3, FS_Subset
  <1>7. Cardinality(Uses(m, n)) \in Nat /\ (Cardinality(Uses(m, n)) = 0 <=> Uses(m, n) = {})
    BY <1>6, FS_CardinalityType, FS_EmptySet
  <1>8. Uses(m, n) # {} <=> n \in SeqRange(ImportsOf(m))
    BY DEF Uses, SeqRange
  <1>9. Cardinality(Unmet(m, S \union {n})) = Cardinality(Unmet(m, S)) - Cardinality(Uses(m, n))
    BY <1>2, <1>5
  <1>10. Cardinality(Uses(m, n)) > 0 <=> n \in SeqRange(ImportsOf(m))
    BY <1>7, <1>8
  <1>11. QED
    BY <1>1, <1>7, <1>9, <1>10

(* There are k numbers from 1 to k.                                        *)
LEMMA CardinalityUpTo == \A k \in Nat : IsFiniteSet(1..k) /\ Cardinality(1..k) = k
  <1>1. TAKE k \in Nat
  <1>2. 1 \in Int /\ k \in Int
    OBVIOUS
  <1>3. IsFiniteSet(1..k) /\ Cardinality(1..k) = IF 1 > k THEN 0 ELSE k - 1 + 1
    BY <1>2, FS_Interval, Zenon
  <1>4. QED
    BY <1>3

(* Sorting starts with no module in order.                                 *)
LEMMA SortStart ==
    ASSUME Typed, Discovering, BuildGraph, phase' = "sort", Typed'
    PROVE  Discovered' /\ Sorting'
  <1>1. /\ disk' = disk /\ loaded' = loaded /\ queue = <<>>
        /\ ~\E i, j \in DOMAIN loaded : i # j /\ Declared(loaded[i]) = Declared(loaded[j])
        /\ indegree' = [m \in Modules |-> Indegree(m)]
        /\ ready' = {m \in Modules : Indegree(m) = 0}
        /\ order' = <<>>
    BY DEF BuildGraph, Fail, discovery
  <1>2. Discovered
    BY <1>1, DiscoveryEnds
  <1>3. Discovered' /\ Modules' = Modules /\ \A m : ImportsOf(m)' = ImportsOf(m)
    BY <1>1, <1>2, FilesFixed
  <1>4. DOMAIN order' = {} /\ SeqRange(order') = {}
    BY <1>1 DEF SeqRange
  <1>5. ASSUME NEW m \in Modules
        PROVE  Indegree(m) = Cardinality(Unmet(m, {}))
    <2>1. ImportsOf(m) \in Seq(Names)
      BY <1>2, ModuleFile
    <2>2. Len(ImportsOf(m)) \in Nat /\ DOMAIN ImportsOf(m) = 1..Len(ImportsOf(m))
      BY <2>1, LenProperties
    <2>3. Unmet(m, {}) = 1..Len(ImportsOf(m))
      BY <2>2 DEF Unmet
    <2>4. \A k \in Nat : Cardinality(1..k) = k
      BY CardinalityUpTo
    <2>5. QED
      BY <2>2, <2>3, <2>4 DEF Indegree
  <1>8. IsTopological(order)'
    BY <1>4 DEF IsTopological
  <1>9. DOMAIN indegree' = Modules' /\ \A m \in Modules' : indegree'[m] = Cardinality(Unmet(m, SeqRange(order)))'
    BY <1>1, <1>3, <1>4, <1>5 DEF Unmet, SeqRange
  <1>10. ready' = {m \in Modules' : indegree'[m] = 0 /\ m \notin SeqRange(order')}
    BY <1>1, <1>3, <1>4
  <1>11. SeqRange(order)' = SeqRange(order')
    BY DEF SeqRange
  <1>12. QED
    BY <1>3, <1>4, <1>8, <1>9, <1>10, <1>11 DEF Sorting

(* The modules in order import modules in order.                           *)
LEMMA ImportedBefore ==
    ASSUME Typed, IsTopological(order), NEW m \in SeqRange(order)
    PROVE  SeqRange(ImportsOf(m)) \subseteq SeqRange(order)
  <1>1. PICK i \in DOMAIN order : order[i] = m
    BY DEF SeqRange
  <1>2. \A x \in SeqRange(ImportsOf(m)) : \E j \in 1 .. (i - 1) : order[j] = x
    BY <1>1 DEF IsTopological
  <1>3. Len(order) \in Nat /\ DOMAIN order = 1..Len(order)
    BY LenProperties DEF Typed, TypeOK
  <1>4. QED
    BY <1>1, <1>2, <1>3 DEF SeqRange

(* The least ready module goes next, and the others stay as they should.   *)
LEMMA SortPop ==
    ASSUME Typed, Discovered, Sorting, PopReady
    PROVE  Discovered' /\ Sorting'
  <1> DEFINE n == Least(ready)
             S == SeqRange(order)
             k == Len(order)
             users == {m \in Modules : Occurrences(m, n) > 0}
  <1>1. /\ order' = Append(order, n)
        /\ indegree' = [m \in Modules |-> indegree[m] - Occurrences(m, n)]
        /\ ready' = (ready \ {n}) \union {m \in users : indegree'[m] = 0}
        /\ disk' = disk /\ loaded' = loaded /\ ready # {}
    BY DEF PopReady, discovery
  <1>2. n \in ready /\ \A y \in ready : n <= y
    <2>1. ready \in SUBSET Nat
      BY NamesAssumption DEF Typed, TypeOK
    <2>2. QED
      BY <1>1, <2>1, LeastIn
  <1>3. n \in Modules /\ n \notin S /\ n \in Names /\ indegree[n] = 0
    BY <1>2 DEF Sorting, Typed, TypeOK
  <1>4. /\ Modules' = Modules /\ Discovered'
        /\ \A m : ImportsOf(m)' = ImportsOf(m)
    BY <1>1, FilesFixed
  <1>5. k \in Nat /\ DOMAIN order = 1..k /\ order \in Seq(Names)
    BY LenProperties DEF Typed, TypeOK
  <1> HIDE DEF n, k
  <1>6. /\ DOMAIN order' = 1..(k + 1) /\ order'[k + 1] = n
        /\ \A i \in 1..k : order'[i] = order[i]
    BY <1>1, <1>3, <1>5, AppendProperties, LenProperties DEF k
  <1>7. \A i \in 1..(k + 1) : i \in 1..k \/ i = k + 1
    BY <1>5
  <1>8. k + 1 \in 1..(k + 1) /\ 1..k \subseteq 1..(k + 1)
    BY <1>5
  <1>9. SeqRange(order') = S \union {n}
    BY <1>5, <1>6, <1>7, <1>8 DEF SeqRange
  <1>10. \A i \in 1..k : order[i] \in S
    BY <1>5 DEF SeqRange
  <1>11. SeqRange(ImportsOf(n)) \subseteq S
    BY <1>3, UnmetCount DEF Sorting
  <1>12. ASSUME NEW m \in Modules
         PROVE  /\ indegree'[m] = Cardinality(Unmet(m, S \union {n}))
                /\ indegree'[m] = indegree[m] - Occurrences(m, n)
                /\ indegree[m] \in Nat /\ Occurrences(m, n) \in Nat
                /\ Occurrences(m, n) > 0 <=> n \in SeqRange(ImportsOf(m))
                /\ indegree[m] = 0 <=> SeqRange(ImportsOf(m)) \subseteq S
    <2>1. indegree[m] = Cardinality(Unmet(m, S)) /\ indegree'[m] = indegree[m] - Occurrences(m, n)
      BY <1>1 DEF Sorting
    <2>2. /\ Cardinality(Unmet(m, S)) \in Nat
          /\ Cardinality(Unmet(m, S)) = 0 <=> SeqRange(ImportsOf(m)) \subseteq S
      BY UnmetCount
    <2> HIDE DEF S
    <2>3. /\ Cardinality(Unmet(m, S \union {n})) = Cardinality(Unmet(m, S)) - Occurrences(m, n)
          /\ Occurrences(m, n) \in Nat
          /\ Occurrences(m, n) > 0 <=> n \in SeqRange(ImportsOf(m))
      BY <1>3, UnmetPop
    <2>4. QED
      BY <2>1, <2>2, <2>3
  <1> HIDE DEF S
  <1>13. ready' = {m \in Modules : indegree'[m] = 0 /\ m \notin S \union {n}}
    <2>1. ASSUME NEW m \in ready \ {n}
          PROVE  m \in Modules /\ indegree'[m] = 0 /\ m \notin S \union {n}
      <3>1. m \in Modules /\ indegree[m] = 0 /\ m \notin S
        BY <2>1 DEF Sorting, S
      <3>2. n \notin SeqRange(ImportsOf(m))
        BY <1>3, <1>12, <3>1
      <3>3. Occurrences(m, n) = 0
        BY <1>12, <3>1, <3>2
      <3>4. QED
        BY <1>12, <2>1, <3>1, <3>3
    <2>2. ASSUME NEW m \in users, indegree'[m] = 0
          PROVE  m \in Modules /\ indegree'[m] = 0 /\ m \notin S \union {n}
      <3>1. m \in Modules /\ n \in SeqRange(ImportsOf(m))
        BY <1>12, <2>2
      <3>2. m # n
        BY <1>3, <1>11, <3>1
      <3>3. m \notin S
        BY <1>3, <3>1, ImportedBefore DEF Sorting, S
      <3>4. QED
        BY <2>2, <3>1, <3>2, <3>3
    <2>3. ASSUME NEW m \in Modules, indegree'[m] = 0, m \notin S \union {n}
          PROVE  m \in (ready \ {n}) \union {x \in users : indegree'[x] = 0}
      <3>1. CASE indegree[m] = 0
        BY <2>3, <3>1 DEF Sorting, S
      <3>2. CASE indegree[m] # 0
        BY <1>12, <2>3, <3>2
      <3>3. QED
        BY <3>1, <3>2
    <2>4. QED
      BY <1>1, <2>1, <2>2, <2>3
  <1>14. \A i \in 1..(k + 1) : order'[i] \in Modules
    BY <1>3, <1>5, <1>6, <1>7 DEF Sorting
  <1>15. ASSUME NEW i \in 1..(k + 1), NEW j \in 1..(k + 1), order'[i] = order'[j]
         PROVE  i = j
    <2>1. CASE i \in 1..k /\ j \in 1..k
      BY <1>5, <1>6, <1>15, <2>1 DEF Sorting
    <2>2. CASE i = k + 1 \/ j = k + 1
      BY <1>3, <1>6, <1>7, <1>10, <1>15, <2>2
    <2>3. QED
      BY <1>7, <2>1, <2>2
  <1>16. \A i \in 1..(k + 1) : 1 .. (i - 1) \subseteq 1..k
    BY <1>5
  <1>17. (k + 1) - 1 = k
    BY <1>5
  <1>18. ASSUME NEW i \in 1..(k + 1), NEW x \in SeqRange(ImportsOf(order'[i]))
         PROVE  \E j \in 1 .. (i - 1) : order'[j] = x
    <2>1. CASE i \in 1..k
      <3>1. x \in SeqRange(ImportsOf(order[i]))
        BY <1>6, <1>18, <2>1
      <3>2. PICK j \in 1 .. (i - 1) : order[j] = x
        BY <1>5, <2>1, <3>1 DEF Sorting, IsTopological
      <3>3. QED
        BY <1>6, <1>16, <3>2
    <2>2. CASE i = k + 1
      <3>1. x \in S
        BY <1>6, <1>11, <1>18, <2>2
      <3>2. PICK j \in 1..k : order[j] = x
        BY <1>5, <3>1 DEF S, SeqRange
      <3>3. QED
        BY <1>6, <1>17, <2>2, <3>2
    <2>3. QED
      BY <1>7, <2>1, <2>2
  <1>19. ASSUME NEW i \in 1..(k + 1), NEW m \in Modules, FreeAt(order', m, i)
         PROVE  order'[i] <= m
    <2>1. /\ \A j \in 1 .. (i - 1) : order[j] # m
          /\ \A x \in SeqRange(ImportsOf(m)) : \E j \in 1 .. (i - 1) : order[j] = x
      BY <1>6, <1>16, <1>19 DEF FreeAt
    <2>2. CASE i \in 1..k
      <3>1. FreeAt(order, m, i)
        BY <2>1 DEF FreeAt
      <3>2. QED
        BY <1>5, <1>6, <2>2, <3>1 DEF Sorting
    <2>3. CASE i = k + 1
      <3>1. m \notin S
        BY <1>5, <1>17, <2>1, <2>3 DEF S, SeqRange
      <3>2. SeqRange(ImportsOf(m)) \subseteq S
        BY <1>10, <1>16, <2>1
      <3>3. m \in ready
        BY <1>12, <3>1, <3>2 DEF Sorting, S
      <3>4. QED
        BY <1>2, <1>6, <2>3, <3>3
    <2>4. QED
      BY <1>7, <2>2, <2>3
  <1>20. IsTopological(order)'
    <2>1. \A i \in 1..(k + 1) : ImportsOf(order[i])' = ImportsOf(order'[i])
      BY <1>1 DEF ImportsOf, Imports, FileOf, SeqRange, Declared
    <2>2. QED
      BY <1>6, <1>18, <2>1 DEF IsTopological, SeqRange
  <1>21. \A i \in DOMAIN order', m \in Modules' : FreeAt(order, m, i)' => order'[i] <= m
    <2>1. \A i, m : FreeAt(order, m, i)' <=> FreeAt(order', m, i)
      BY <1>4 DEF FreeAt, SeqRange
    <2>2. QED
      BY <1>4, <1>6, <1>19, <2>1
  <1>22. DOMAIN indegree' = Modules'
    BY <1>1, <1>4
  <1>23. \A m \in Modules' : indegree'[m] = Cardinality(Unmet(m, SeqRange(order)))'
    <2>1. \A m : Unmet(m, SeqRange(order))' = Unmet(m, SeqRange(order'))
      BY <1>4 DEF Unmet, SeqRange
    <2>2. QED
      BY <1>4, <1>9, <1>12, <2>1
  <1>24. ready' = {m \in Modules' : indegree'[m] = 0 /\ m \notin SeqRange(order')}
    BY <1>4, <1>9, <1>13
  <1>25. SeqRange(order)' = SeqRange(order')
    BY DEF SeqRange
  <1>26. /\ \A i \in DOMAIN order' : order'[i] \in Modules'
         /\ \A i, j \in DOMAIN order' : order'[i] = order'[j] => i = j
    BY <1>4, <1>6, <1>14, <1>15
  <1>27. QED
    BY <1>4, <1>20, <1>21, <1>22, <1>23, <1>24, <1>25, <1>26 DEF Sorting

(* The order is a list of modules without repetition, so it has them all   *)
(* exactly when it is as long as there are modules.                        *)
LEMMA OrderFull ==
    ASSUME Typed, Sorting
    PROVE  /\ Len(order) \in Nat /\ DOMAIN order = 1..Len(order)
           /\ SeqRange(order) \subseteq Modules
           /\ Len(order) = Cardinality(Modules) <=> SeqRange(order) = Modules
  <1> DEFINE k == Len(order)
  <1>1. k \in Nat /\ DOMAIN order = 1..k /\ order \in [1..k -> Names]
    BY LenProperties DEF Typed, TypeOK
  <1> HIDE DEF k
  <1>2. \A i \in 1..k : order[i] \in Modules
    BY <1>1 DEF Sorting
  <1>3. order \in Injection(1..k, Modules)
    BY <1>1, <1>2 DEF Sorting, Injection, IsInjective
  <1>4. Cardinality(1..k) = Cardinality(Modules) <=> order \in Surjection(1..k, Modules)
    BY <1>3, ModulesFinite, FS_Injection
  <1>5. Cardinality(1..k) = k
    BY <1>1, CardinalityUpTo
  <1>6. order \in Surjection(1..k, Modules) <=> SeqRange(order) = Modules
    BY <1>1, <1>2 DEF Surjection, SeqRange
  <1>7. SeqRange(order) \subseteq Modules
    BY <1>1, <1>2 DEF SeqRange
  <1>8. QED
    BY <1>1, <1>4, <1>5, <1>6, <1>7 DEF k

(* If all modules can be put in order, the program is well formed: in a    *)
(* set of its files, the one whose module is first in order imports none   *)
(* of the others.                                                          *)
LEMMA SortDone ==
    ASSUME Typed, Discovered, Sorting, Len(order) = Cardinality(Modules)
    PROVE  Load!WellFormed
  <1> DEFINE P == Load!Program
  <1>1. SeqRange(order) = Modules /\ DOMAIN order = 1..Len(order) /\ Len(order) \in Nat
    BY OrderFull
  <1>2. P = SeqRange(loaded)
    BY DEF Discovered
  <1>3. Modules = {Declared(g) : g \in P}
    BY <1>2 DEF Modules, SeqRange
  <1>4. \A f \in P : Declared(f) \in Modules /\ FileOf(Declared(f)) = f
    BY <1>2, <1>3, ModuleFile
  <1>5. \A f \in P : SeqRange(Imports(f)) \subseteq Modules
    BY <1>1, <1>4, ImportedBefore DEF ImportsOf, Sorting
  <1>6. (\A f \in P : disk[f].loads) /\ \A f, g \in P : Declared(f) = Declared(g) => f = g
    BY <1>2 DEF Discovered, SeqRange
  <1> HIDE DEF P
  <1>7. ASSUME NEW T \in SUBSET P, T # {}
        PROVE  \E f \in T : SeqRange(Imports(f)) \intersect {Declared(g) : g \in T} = {}
    <2> DEFINE places == {i \in DOMAIN order : \E f \in T : order[i] = Declared(f)}
               p == Least(places)
    <2>1. places # {}
      BY <1>1, <1>4, <1>7 DEF SeqRange
    <2>2. places \in SUBSET Nat
      BY <1>1
    <2>3. p \in places /\ \A i \in places : p <= i
      <3> HIDE DEF places
      <3>1. QED
        BY <2>1, <2>2, LeastIn
    <2> HIDE DEF p
    <2>4. PICK f \in T : order[p] = Declared(f)
      BY <2>3
    <2>5. ASSUME NEW g \in T, Declared(g) \in SeqRange(Imports(f))
          PROVE  FALSE
      <3>1. Declared(g) \in SeqRange(ImportsOf(order[p]))
        BY <1>4, <2>4, <2>5 DEF ImportsOf
      <3>2. p \in DOMAIN order
        BY <2>3
      <3>3. PICK j \in 1 .. (p - 1) : order[j] = Declared(g)
        BY <3>1, <3>2 DEF Sorting, IsTopological
      <3>4. j \in places /\ j < p
        BY <1>1, <3>2, <3>3
      <3>5. j \in Nat /\ p \in Nat
        BY <1>1, <3>2
      <3>6. QED
        BY <2>3, <3>4, <3>5
    <2>6. QED
      BY <2>5
  <1>8. /\ \A f \in P : Load!ImportedBy(f) \subseteq {disk[g].module : g \in P}
        /\ \A T \in (SUBSET P) \ {{}} :
              \E f \in T : Load!ImportedBy(f) \intersect {disk[g].module : g \in T} = {}
    <2>1. Modules = {disk[g].module : g \in P}
      BY <1>3 DEF Declared
    <2>2. \A f \in P : Load!ImportedBy(f) \subseteq {disk[g].module : g \in P}
      BY <1>5, <2>1, SameImports
    <2>3. ASSUME NEW T \in SUBSET P, T # {}
          PROVE  \E f \in T : Load!ImportedBy(f) \intersect {disk[g].module : g \in T} = {}
      BY <1>7, <2>3, SameImports DEF Declared
    <2>4. QED
      BY <2>2, <2>3
  <1>9. QED
    BY <1>6, <1>8 DEF Load!WellFormed, P, Declared

(* If some modules cannot, it is not: a file of theirs that imports none   *)
(* of them would have a module that is ready.                              *)
LEMMA SortFailure ==
    ASSUME Typed, Discovered, Sorting, ready = {}, Len(order) # Cardinality(Modules)
    PROVE  ~Load!WellFormed
  <1> SUFFICES ASSUME Load!WellFormed
               PROVE  FALSE
    OBVIOUS
  <1> DEFINE P == Load!Program
             S == SeqRange(order)
             T == {f \in P : Declared(f) \notin S}
  <1>1. S # Modules /\ S \subseteq Modules
    BY OrderFull
  <1>2. P = SeqRange(loaded)
    BY DEF Discovered
  <1>3. Modules = {Declared(g) : g \in P}
    BY <1>2 DEF Modules, SeqRange
  <1>4. T # {}
    BY <1>1, <1>3
  <1>5. T \in SUBSET P
    OBVIOUS
  <1> HIDE DEF P, T
  <1>6. PICK f \in T : Load!ImportedBy(f) \intersect {disk[g].module : g \in T} = {}
    BY <1>4, <1>5 DEF Load!WellFormed, P
  <1>7. f \in P /\ Declared(f) \notin S
    BY DEF T
  <1>8. Load!ImportedBy(f) \subseteq {disk[g].module : g \in P}
    BY <1>7 DEF Load!WellFormed, P
  <1>9. SeqRange(Imports(f)) \subseteq S
    <2>1. ASSUME NEW n \in SeqRange(Imports(f)), n \notin S
          PROVE  FALSE
      <3>1. n \in Load!ImportedBy(f)
        BY <2>1, SameImports
      <3>2. PICK g \in P : n = disk[g].module
        BY <1>8, <3>1
      <3>3. g \in T
        BY <2>1, <3>2 DEF T, Declared
      <3>4. QED
        BY <1>6, <3>1, <3>2, <3>3
    <2>2. QED
      BY <2>1
  <1>10. Declared(f) \in Modules
    BY <1>3, <1>7
  <1>11. FileOf(Declared(f)) = f
    BY <1>2, <1>7, <1>10, ModuleFile
  <1>12. indegree[Declared(f)] = 0
    BY <1>9, <1>10, <1>11, UnmetCount DEF Sorting, ImportsOf
  <1>13. QED
    BY <1>7, <1>10, <1>12 DEF Sorting

-----------------------------------------------------------------------------
(* The invariant of the loader.                                            *)

(* What has been evaluated is a first part of the order.                   *)
Evaluating ==
    /\ Len(order) = Cardinality(Modules)
    /\ \E k \in 0..Len(order) : evaluated = {order[i] : i \in 1..k}

LoaderInv ==
    /\ Typed
    /\ phase = "discover" => Discovering /\ failure = NoFailure
    /\ phase \in {"sort", "eval", "done"} => Discovered /\ Sorting /\ failure = NoFailure
    /\ phase \in {"discover", "sort"} => evaluated = {}
    /\ phase \in {"eval", "done"} => Evaluating /\ Load!WellFormed
    /\ phase = "done" => Cardinality(evaluated) = Len(order)

(* Whether a program is well formed depends on the disk only.              *)
LEMMA WellFormedFixed ==
    ASSUME disk' = disk
    PROVE  Load!WellFormed' <=> Load!WellFormed
  BY DiskFixed DEF Load!WellFormed, Load!ImportedBy

(* What holds of the order holds as long as nothing is put in order.       *)
LEMMA SortingFixed ==
    ASSUME Discovered, Sorting, disk' = disk, loaded' = loaded,
           order' = order, indegree' = indegree, ready' = ready
    PROVE  Discovered' /\ Sorting'
  <1>1. /\ Modules' = Modules /\ Discovered'
        /\ \A m : ImportsOf(m)' = ImportsOf(m)
    BY FilesFixed
  <1>2. \A i : ImportsOf(order[i])' = ImportsOf(order[i])
    BY DEF ImportsOf, Imports, FileOf, SeqRange, Declared
  <1>3. SeqRange(order)' = SeqRange(order)
    BY DEF SeqRange
  <1>4. IsTopological(order)'
    BY <1>2 DEF Sorting, IsTopological, SeqRange
  <1>5. \A i, m : FreeAt(order, m, i)' <=> FreeAt(order, m, i)
    BY <1>1 DEF FreeAt, SeqRange
  <1>6. \A m : Unmet(m, SeqRange(order))' = Unmet(m, SeqRange(order))
    BY <1>1 DEF Unmet, SeqRange
  <1>7. \A i \in DOMAIN order', m \in Modules' : FreeAt(order, m, i)' => order'[i] <= m
    BY <1>1, <1>5 DEF Sorting
  <1>8. \A m \in Modules' : indegree'[m] = Cardinality(Unmet(m, SeqRange(order)))'
    BY <1>1, <1>6 DEF Sorting
  <1>9. DOMAIN indegree' = Modules' /\ ready' = {m \in Modules' : indegree'[m] = 0 /\ m \notin SeqRange(order)'}
    BY <1>1, <1>3 DEF Sorting
  <1>10. /\ \A i \in DOMAIN order' : order'[i] \in Modules'
         /\ \A i, j \in DOMAIN order' : order'[i] = order'[j] => i = j
    BY <1>1 DEF Sorting
  <1>11. QED
    BY <1>1, <1>4, <1>7, <1>8, <1>9, <1>10 DEF Sorting

(* As many modules are evaluated as the part of the order is long.         *)
LEMMA EvaluatedCount ==
    ASSUME Typed, Sorting, NEW k \in 0..Len(order), evaluated = {order[i] : i \in 1..k}
    PROVE  Cardinality(evaluated) = k
  <1>1. Len(order) \in Nat /\ DOMAIN order = 1..Len(order) /\ k \in Nat
    BY OrderFull
  <1>2. 1..k \subseteq DOMAIN order
    BY <1>1
  <1> DEFINE g == [i \in 1..k |-> order[i]]
  <1>3. g \in Surjection(1..k, evaluated)
    BY DEF Surjection
  <1>4. g \in Injection(1..k, evaluated)
    BY <1>2 DEF Sorting, Injection, IsInjective
  <1> HIDE DEF g
  <1>5. IsFiniteSet(1..k) /\ Cardinality(1..k) = k
    BY <1>1, CardinalityUpTo
  <1>6. QED
    BY <1>3, <1>4, <1>5, FS_Surjection

(* At first nothing is known to be wrong but the entry.                    *)
LEMMA LoaderInit == Init => LoaderInv
  <1> SUFFICES ASSUME Init
               PROVE  LoaderInv
    OBVIOUS
  <1>1. Entry \in Names /\ disk \in Disk /\ Declared(Entry) \in Names
    BY EntryAssumption, FileTyped DEF Init
  <1>2. <<Entry>> \in Seq(Names) /\ <<>> \in Seq(Names) /\ DOMAIN <<>> = {}
    BY <1>1
  <1>3. failure.kind \in {"none", "load"} /\ failure.modules \subseteq Names
    BY <1>1 DEF Init, NoFailure
  <1>4. Typed
    BY <1>1, <1>2, <1>3 DEF Init, Typed, TypeOK
  <1>5. phase = "discover" => Discovering /\ failure = NoFailure
    BY DiscoveryStart DEF Init
  <1>6. phase \in {"discover", "error"} /\ evaluated = {}
    BY DEF Init
  <1>7. QED
    BY <1>4, <1>5, <1>6 DEF LoaderInv

(* Following an import keeps the invariant.                                *)
LEMMA FollowKeeps ==
    ASSUME LoaderInv, SkipImport \/ LoadImport
    PROVE  LoaderInv'
  <1>1. /\ phase = "discover" /\ Following /\ disk' = disk /\ loaded' = loaded
        /\ indegree' = indegree /\ ready' = ready /\ order' = order /\ evaluated' = evaluated
    BY DEF SkipImport, LoadImport, Following, sorting
  <1>2. Typed /\ Discovering /\ failure = NoFailure /\ evaluated = {}
    BY <1>1 DEF LoaderInv
  <1>3. Import \in Names /\ next \in Nat \ {0} /\ queue \in Seq(Names) /\ seen \subseteq Names
    BY <1>1, <1>2, ImportNamed DEF Typed, TypeOK
  <1>4. CASE SkipImport
    <2>1. /\ phase' = "discover" /\ failure' = failure /\ next' = next + 1
          /\ queue' = queue /\ seen' = seen
      BY <1>1, <1>4 DEF SkipImport
    <2>2. Typed'
      BY <1>1, <1>2, <1>3, <2>1 DEF Typed, TypeOK
    <2>3. Discovering'
      BY <1>2, <1>4, DiscoverySkip
    <2>4. QED
      BY <1>1, <1>2, <2>1, <2>2, <2>3 DEF LoaderInv
  <1>5. CASE LoadImport /\ disk[Import].loads
    <2>1. /\ phase' = "discover" /\ failure' = failure /\ next' = next + 1
          /\ queue' = Append(queue, Import) /\ seen' = seen \union {Import}
      BY <1>1, <1>5 DEF LoadImport
    <2>2. queue' \in Seq(Names) /\ seen' \subseteq Names
      BY <1>3, <2>1, AppendProperties
    <2>3. Typed'
      BY <1>1, <1>2, <1>3, <2>1, <2>2 DEF Typed, TypeOK
    <2>4. Discovering'
      BY <1>2, <1>5, DiscoveryLoad
    <2>5. QED
      BY <1>1, <1>2, <2>1, <2>3, <2>4 DEF LoaderInv
  <1>6. CASE LoadImport /\ ~disk[Import].loads
    <2>1. /\ phase' = "error" /\ failure' = [kind |-> "load", modules |-> {Import}]
          /\ next' = next /\ queue' = queue /\ seen' = seen \union {Import}
      BY <1>1, <1>6 DEF LoadImport, Fail
    <2>2. Typed'
      BY <1>1, <1>2, <1>3, <2>1 DEF Typed, TypeOK
    <2>3. QED
      BY <2>1, <2>2 DEF LoaderInv
  <1>7. QED
    BY <1>4, <1>5, <1>6

(* Being done with a file keeps the invariant.                             *)
LEMMA FinishModuleKeeps ==
    ASSUME LoaderInv, FinishModule
    PROVE  LoaderInv'
  <1>1. /\ phase = "discover" /\ phase' = "discover" /\ queue # <<>>
        /\ loaded' = Append(loaded, Head(queue)) /\ queue' = Tail(queue) /\ next' = 1
        /\ disk' = disk /\ failure' = failure /\ seen' = seen
        /\ indegree' = indegree /\ ready' = ready /\ order' = order /\ evaluated' = evaluated
    BY DEF FinishModule, sorting
  <1>2. Typed /\ Discovering /\ failure = NoFailure /\ evaluated = {}
    BY <1>1 DEF LoaderInv
  <1>3. loaded' \in Seq(Names) /\ queue' \in Seq(Names)
    <2>1. loaded \in Seq(Names) /\ queue \in Seq(Names)
      BY <1>2 DEF Typed, TypeOK
    <2>2. Head(queue) \in Names /\ Tail(queue) \in Seq(Names)
      BY <1>1, <2>1, HeadTailProperties
    <2>3. QED
      BY <1>1, <2>1, <2>2, AppendProperties
  <1>4. Typed'
    BY <1>1, <1>2, <1>3 DEF Typed, TypeOK
  <1>5. Discovering'
    BY <1>2, DiscoveryFinish
  <1>6. QED
    BY <1>1, <1>2, <1>4, <1>5 DEF LoaderInv

(* So does the graph of the modules, or the error that there is none.      *)
LEMMA BuildGraphKeeps ==
    ASSUME LoaderInv, BuildGraph
    PROVE  LoaderInv'
  <1>1. /\ phase = "discover" /\ queue = <<>> /\ disk' = disk /\ evaluated' = evaluated
        /\ seen' = seen /\ queue' = queue /\ next' = next /\ loaded' = loaded
    BY DEF BuildGraph, discovery
  <1>2. Typed /\ Discovering /\ failure = NoFailure /\ evaluated = {}
    BY <1>1 DEF LoaderInv
  <1>3. CASE phase' = "sort"
    <2>1. /\ ~\E i, j \in DOMAIN loaded : i # j /\ Declared(loaded[i]) = Declared(loaded[j])
          /\ indegree' = [m \in Modules |-> Indegree(m)]
          /\ ready' = {m \in Modules : Indegree(m) = 0}
          /\ order' = <<>> /\ failure' = failure
      BY <1>3 DEF BuildGraph, Fail
    <2>2. Discovered
      BY <1>1, <1>2, <2>1, DiscoveryEnds
    <2>3. \A m \in Modules : Indegree(m) \in Nat
      BY <1>2, <2>2, ModuleFile, LenProperties DEF Indegree
    <2>4. Modules \subseteq Names
      BY <1>2, ModulesFinite
    <2>5. Typed'
      BY <1>1, <1>2, <1>3, <2>1, <2>3, <2>4 DEF Typed, TypeOK
    <2>6. Discovered' /\ Sorting'
      BY <1>2, <1>3, <2>5, SortStart
    <2>7. QED
      BY <1>1, <1>2, <1>3, <2>1, <2>5, <2>6 DEF LoaderInv
  <1>4. CASE phase' # "sort"
    <2>1. /\ phase' = "error" /\ failure' = [kind |-> "duplicate", modules |-> {}]
          /\ indegree' = indegree /\ ready' = ready /\ order' = order
      BY <1>4 DEF BuildGraph, Fail, sorting
    <2>2. Typed'
      BY <1>1, <1>2, <2>1 DEF Typed, TypeOK
    <2>3. QED
      BY <2>1, <2>2 DEF LoaderInv
  <1>5. QED
    BY <1>3, <1>4

(* So does an error in a module's macros.                                  *)
LEMMA MacroFailsKeeps ==
    ASSUME LoaderInv, MacroFails
    PROVE  LoaderInv'
  <1>1. /\ phase = "discover" /\ phase' = "error" /\ disk' = disk /\ evaluated' = evaluated
        /\ seen' = seen /\ queue' = queue /\ next' = next /\ loaded' = loaded
        /\ indegree' = indegree /\ ready' = ready /\ order' = order
    BY DEF MacroFails, Fail, discovery, sorting
  <1>2. PICK i \in DOMAIN loaded : failure' = [kind |-> "macro", modules |-> {Declared(loaded[i])}]
    BY DEF MacroFails, Fail
  <1>3. Typed
    BY DEF LoaderInv
  <1>4. Declared(loaded[i]) \in Names
    BY <1>2, <1>3, DiskAssumption DEF Typed, TypeOK, Declared
  <1>5. Typed'
    BY <1>1, <1>2, <1>3, <1>4 DEF Typed, TypeOK
  <1>6. QED
    BY <1>1, <1>5 DEF LoaderInv

(* So does putting a module in order.                                      *)
LEMMA PopReadyKeeps ==
    ASSUME LoaderInv, PopReady
    PROVE  LoaderInv'
  <1>1. /\ phase = "sort" /\ phase' = "sort" /\ ready # {}
        /\ order' = Append(order, Least(ready))
        /\ disk' = disk /\ failure' = failure /\ evaluated' = evaluated
        /\ seen' = seen /\ queue' = queue /\ next' = next /\ loaded' = loaded
    BY DEF PopReady, discovery
  <1>2. Typed /\ Discovered /\ Sorting /\ failure = NoFailure /\ evaluated = {}
    BY <1>1 DEF LoaderInv
  <1>3. Discovered' /\ Sorting'
    BY <1>2, SortPop
  <1>4. Modules' = Modules /\ (\A m : ImportsOf(m)' = ImportsOf(m)) /\ Modules \subseteq Names
    BY <1>1, <1>2, FilesFixed, ModulesFinite
  <1>5. \A m \in DOMAIN indegree' : m \in Names /\ indegree'[m] \in Nat
    <2>1. ASSUME NEW m \in Modules
          PROVE  indegree'[m] \in Nat
      <3>1. indegree'[m] = Cardinality(Unmet(m, SeqRange(order')))
        BY <1>3, <1>4, <2>1 DEF Sorting, Unmet, SeqRange
      <3>2. QED
        BY <1>2, <2>1, <3>1, UnmetCount
    <2>2. QED
      BY <1>3, <1>4, <2>1 DEF Sorting
  <1>6. ready' \subseteq Names
    BY <1>3, <1>4 DEF Sorting
  <1>7. order' \in Seq(Names)
    <2>1. Least(ready) \in Names
      <3>1. ready \in SUBSET Nat /\ ready \subseteq Names
        BY <1>2, NamesAssumption DEF Typed, TypeOK
      <3>2. QED
        BY <1>1, <3>1, LeastIn
    <2>2. QED
      BY <1>1, <1>2, <2>1, AppendProperties DEF Typed, TypeOK
  <1>8. Typed'
    BY <1>1, <1>2, <1>5, <1>6, <1>7 DEF Typed, TypeOK
  <1>9. QED
    BY <1>1, <1>2, <1>3, <1>8 DEF LoaderInv

(* The end of sorting keeps it: all modules are in order and the program   *)
(* is well formed, or it is an error.                                      *)
LEMMA FinishSortKeeps ==
    ASSUME LoaderInv, FinishSort
    PROVE  LoaderInv'
  <1>1. /\ phase = "sort" /\ disk' = disk /\ evaluated' = evaluated
        /\ seen' = seen /\ queue' = queue /\ next' = next /\ loaded' = loaded
        /\ indegree' = indegree /\ ready' = ready /\ order' = order
    BY DEF FinishSort, discovery, sorting
  <1>2. Typed /\ Discovered /\ Sorting /\ failure = NoFailure /\ evaluated = {}
    BY <1>1 DEF LoaderInv
  <1>3. Modules \subseteq Names /\ Modules' = Modules
    BY <1>1, <1>2, ModulesFinite, FilesFixed
  <1>4. CASE Len(order) = Cardinality(Modules)
    <2>1. phase' = "eval" /\ failure' = failure
      BY <1>4 DEF FinishSort
    <2>2. Typed'
      BY <1>1, <1>2, <2>1 DEF Typed, TypeOK
    <2>3. Discovered' /\ Sorting'
      BY <1>1, <1>2, SortingFixed
    <2>4. Load!WellFormed'
      BY <1>1, <1>2, <1>4, SortDone, WellFormedFixed
    <2>5. Evaluating'
      <3>1. 0 \in 0..Len(order) /\ 1..0 = {}
        BY <1>2, OrderFull
      <3>2. evaluated' = {order'[i] : i \in 1..0}
        BY <1>1, <1>2, <3>1
      <3>3. Len(order') = Cardinality(Modules') /\ 0 \in 0..Len(order')
        BY <1>1, <1>3, <1>4, <3>1
      <3>4. QED
        BY <3>2, <3>3 DEF Evaluating
    <2>6. QED
      BY <1>1, <1>2, <2>1, <2>2, <2>3, <2>4, <2>5 DEF LoaderInv
  <1>5. CASE Len(order) # Cardinality(Modules)
    <2>1. phase' = "error" /\ failure' = [kind |-> "cycle", modules |-> {m \in Modules : indegree[m] > 0}]
      BY <1>5 DEF FinishSort, Fail
    <2>2. Typed'
      BY <1>1, <1>2, <1>3, <2>1 DEF Typed, TypeOK
    <2>3. QED
      BY <2>1, <2>2 DEF LoaderInv
  <1>6. QED
    BY <1>4, <1>5

(* The module that is evaluated next: a file of the program declares it,   *)
(* it has not been evaluated, and what it imports has.                     *)
LEMMA NextModule ==
    ASSUME LoaderInv, phase = "eval", Cardinality(evaluated) < Len(order),
           NEW m, m = order[Cardinality(evaluated) + 1]
    PROVE  /\ m \in Modules /\ m \in Names /\ m \notin evaluated
           /\ SeqRange(ImportsOf(m)) \subseteq evaluated
           /\ \E k \in 0..Len(order) : evaluated \union {m} = {order[i] : i \in 1..k}
  <1>1. Typed /\ Discovered /\ Sorting /\ Evaluating
    BY DEF LoaderInv
  <1>2. Len(order) \in Nat /\ DOMAIN order = 1..Len(order)
    BY <1>1, OrderFull
  <1>3. PICK k \in 0..Len(order) : evaluated = {order[i] : i \in 1..k}
    BY <1>1 DEF Evaluating
  <1>4. Cardinality(evaluated) = k
    BY <1>1, <1>3, EvaluatedCount
  <1>5. /\ k \in Nat /\ k + 1 \in 1..Len(order) /\ k + 1 \in 0..Len(order)
        /\ 1..k \subseteq 1..Len(order) /\ (k + 1) - 1 = k
        /\ k + 1 \notin 1..k /\ 1..(k + 1) = 1..k \union {k + 1}
    BY <1>2, <1>4
  <1>6. m = order[k + 1]
    BY <1>4
  <1>7. m \in Modules /\ m \in Names
    BY <1>1, <1>2, <1>5, <1>6, ModulesFinite DEF Sorting
  <1>8. m \notin evaluated
    BY <1>1, <1>2, <1>3, <1>5, <1>6 DEF Sorting
  <1>9. SeqRange(ImportsOf(m)) \subseteq evaluated
    <2>1. \A n \in SeqRange(ImportsOf(m)) : \E j \in 1 .. ((k + 1) - 1) : order[j] = n
      BY <1>1, <1>2, <1>5, <1>6 DEF Sorting, IsTopological
    <2>2. QED
      BY <1>3, <1>5, <2>1
  <1>10. evaluated \union {m} = {order[i] : i \in 1..(k + 1)}
    BY <1>3, <1>5, <1>6
  <1>11. QED
    BY <1>5, <1>7, <1>8, <1>9, <1>10

(* Evaluating a module keeps the invariant, and so does its failure.       *)
LEMMA EvalModuleKeeps ==
    ASSUME LoaderInv, EvalModule
    PROVE  LoaderInv'
  <1> DEFINE m == order[Cardinality(evaluated) + 1]
  <1>1. /\ phase = "eval" /\ Cardinality(evaluated) < Len(order) /\ disk' = disk
        /\ seen' = seen /\ queue' = queue /\ next' = next /\ loaded' = loaded
        /\ indegree' = indegree /\ ready' = ready /\ order' = order
    BY DEF EvalModule, discovery, sorting
  <1>2. Typed /\ Discovered /\ Sorting /\ failure = NoFailure /\ Evaluating /\ Load!WellFormed
    BY <1>1 DEF LoaderInv
  <1>3. /\ m \in Names /\ SeqRange(ImportsOf(m)) \subseteq evaluated
        /\ \E k \in 0..Len(order) : evaluated \union {m} = {order[i] : i \in 1..k}
    BY <1>1, NextModule
  <1>4. SeqRange(ImportsOf(m)) \ evaluated = {}
    BY <1>3
  <1> HIDE DEF m
  <1>5. Discovered' /\ Sorting' /\ Load!WellFormed' /\ Modules' = Modules
    BY <1>1, <1>2, SortingFixed, WellFormedFixed, FilesFixed
  <1>6. CASE evaluated' = evaluated \union {m} /\ phase' = phase /\ failure' = failure
    <2>1. Typed'
      BY <1>1, <1>2, <1>3, <1>6 DEF Typed, TypeOK
    <2>2. Evaluating'
      <3>1. PICK k \in 0..Len(order) : evaluated \union {m} = {order[i] : i \in 1..k}
        BY <1>3
      <3>2. k \in 0..Len(order') /\ evaluated' = {order'[i] : i \in 1..k}
        BY <1>1, <1>6, <3>1
      <3>3. Len(order') = Cardinality(Modules')
        BY <1>1, <1>2, <1>5 DEF Evaluating
      <3>4. QED
        BY <3>2, <3>3 DEF Evaluating
    <2>3. QED
      BY <1>1, <1>2, <1>5, <1>6, <2>1, <2>2 DEF LoaderInv
  <1>7. CASE phase' = "error" /\ failure' = [kind |-> "eval", modules |-> {m}] /\ evaluated' = evaluated
    <2>1. Typed'
      BY <1>1, <1>2, <1>3, <1>7 DEF Typed, TypeOK
    <2>2. QED
      BY <1>7, <2>1 DEF LoaderInv
  <1>8. QED
    BY <1>4, <1>6, <1>7 DEF EvalModule, Fail, m

(* The end of evaluation keeps it.                                         *)
LEMMA FinishEvalKeeps ==
    ASSUME LoaderInv, FinishEval
    PROVE  LoaderInv'
  <1>1. /\ phase = "eval" /\ phase' = "done" /\ Cardinality(evaluated) = Len(order)
        /\ disk' = disk /\ failure' = failure /\ evaluated' = evaluated
        /\ seen' = seen /\ queue' = queue /\ next' = next /\ loaded' = loaded
        /\ indegree' = indegree /\ ready' = ready /\ order' = order
    BY DEF FinishEval, discovery, sorting
  <1>2. Typed /\ Discovered /\ Sorting /\ failure = NoFailure /\ Evaluating /\ Load!WellFormed
    BY <1>1 DEF LoaderInv
  <1>3. Discovered' /\ Sorting' /\ Load!WellFormed' /\ Modules' = Modules
    BY <1>1, <1>2, SortingFixed, WellFormedFixed, FilesFixed
  <1>4. Typed'
    BY <1>1, <1>2 DEF Typed, TypeOK
  <1>5. Evaluating'
    BY <1>1, <1>2, <1>3 DEF Evaluating
  <1>6. QED
    BY <1>1, <1>2, <1>3, <1>4, <1>5 DEF LoaderInv

(* The invariant is one.                                                   *)
LEMMA LoaderStep == LoaderInv /\ [Next]_vars => LoaderInv'
  <1> SUFFICES ASSUME LoaderInv, [Next]_vars
               PROVE  LoaderInv'
    OBVIOUS
  <1>1. CASE SkipImport \/ LoadImport
    BY <1>1, FollowKeeps
  <1>2. CASE FinishModule
    BY <1>2, FinishModuleKeeps
  <1>3. CASE BuildGraph
    BY <1>3, BuildGraphKeeps
  <1>4. CASE PopReady
    BY <1>4, PopReadyKeeps
  <1>5. CASE FinishSort
    BY <1>5, FinishSortKeeps
  <1>6. CASE EvalModule
    BY <1>6, EvalModuleKeeps
  <1>7. CASE FinishEval
    BY <1>7, FinishEvalKeeps
  <1>8. CASE UNCHANGED vars
    <2>1. /\ disk' = disk /\ phase' = phase /\ failure' = failure /\ evaluated' = evaluated
          /\ seen' = seen /\ queue' = queue /\ next' = next /\ loaded' = loaded
          /\ indegree' = indegree /\ ready' = ready /\ order' = order
      BY <1>8 DEF vars, discovery, sorting
    <2>2. Typed'
      BY <2>1 DEF LoaderInv, Typed, TypeOK
    <2>3. Load!Program' = Load!Program /\ Modules' = Modules /\ Found' = Found
      BY <2>1, DiskFixed, FilesFixed DEF Found
    <2>4. phase = "discover" => Discovering'
      BY <2>1, <2>3 DEF LoaderInv, Discovering, SeqRange, Imports, Declared
    <2>5. phase \in {"sort", "eval", "done"} => Discovered' /\ Sorting'
      BY <2>1, SortingFixed DEF LoaderInv
    <2>6. phase \in {"eval", "done"} => Evaluating' /\ Load!WellFormed'
      BY <2>1, <2>3, WellFormedFixed DEF LoaderInv, Evaluating
    <2>7. QED
      BY <2>1, <2>2, <2>4, <2>5, <2>6 DEF LoaderInv
  <1>9. QED
    BY <1>1, <1>2, <1>3, <1>4, <1>5, <1>6, <1>7, <1>8, MacroFailsKeeps DEF Next

(* The invariant holds of the loader.                                      *)
LEMMA LoaderInvariant == Spec => []LoaderInv
  BY LoaderInit, LoaderStep, PTL DEF Spec

(***************************************************************************)
(* TypeOK holds of the loader (discover_and_load_modules, topo_sort and    *)
(* eval_modules): in particular an in-degree never goes below zero, as it  *)
(* would if an import was counted down twice.                              *)
(***************************************************************************)
THEOREM TypeCorrect == Spec => []TypeOK
  <1>1. LoaderInv => TypeOK
    BY DEF LoaderInv, Typed
  <1>2. QED
    BY <1>1, LoaderInvariant, PTL

-----------------------------------------------------------------------------
(* The least order.                                                        *)

(* A permutation of the modules has none twice.                            *)
LEMMA PermutationInjective ==
    ASSUME Typed, NEW s \in Permutations(Modules)
    PROVE  /\ DOMAIN s = 1..Cardinality(Modules)
           /\ \A i, j \in DOMAIN s : s[i] = s[j] => i = j
           /\ \A i \in DOMAIN s : s[i] \in Modules
  <1> DEFINE c == Cardinality(Modules)
  <1>1. c \in Nat /\ IsFiniteSet(Modules)
    BY ModulesFinite
  <1>2. s \in [1..c -> Modules] /\ SeqRange(s) = Modules
    BY DEF Permutations
  <1> HIDE DEF c
  <1>3. s \in Surjection(1..c, Modules)
    BY <1>2 DEF Surjection, SeqRange
  <1>4. IsFiniteSet(1..c) /\ Cardinality(1..c) = c
    BY <1>1, CardinalityUpTo
  <1>5. s \in Injection(1..c, Modules)
    BY <1>3, <1>4, FS_SurjSameCardinalityImpliesInj DEF c
  <1>6. QED
    BY <1>2, <1>5 DEF Injection, IsInjective, c

(* A full order is a permutation of the modules.                           *)
LEMMA OrderPermutation ==
    ASSUME Typed, Sorting, Len(order) = Cardinality(Modules)
    PROVE  order \in Permutations(Modules)
  <1>1. DOMAIN order = 1..Cardinality(Modules) /\ SeqRange(order) = Modules
    BY OrderFull
  <1>2. order = [i \in DOMAIN order |-> order[i]]
    BY LenProperties DEF Typed, TypeOK
  <1>3. order \in [1..Cardinality(Modules) -> Modules]
    BY <1>1, <1>2 DEF Sorting
  <1>4. QED
    BY <1>1, <1>3 DEF Permutations

(* No topological order is before it: at the first place where they differ *)
(* the other's module could have stood there too, and is greater.          *)
LEMMA OrderFirst ==
    ASSUME Typed, Sorting, Len(order) = Cardinality(Modules),
           NEW s \in Permutations(Modules), IsTopological(s), Precedes(s, order)
    PROVE  FALSE
  <1>1. /\ DOMAIN s = 1..Cardinality(Modules)
        /\ \A i, j \in DOMAIN s : s[i] = s[j] => i = j
        /\ \A i \in DOMAIN s : s[i] \in Modules
    BY PermutationInjective
  <1>2. DOMAIN order = DOMAIN s
    BY <1>1, OrderFull
  <1>3. PICK i \in DOMAIN s : s[i] < order[i] /\ \A j \in 1 .. (i - 1) : s[j] = order[j]
    BY DEF Precedes
  <1>4. Cardinality(Modules) \in Nat
    BY ModulesFinite
  <1>5. i \notin 1 .. (i - 1) /\ 1 .. (i - 1) \subseteq DOMAIN s
    BY <1>1, <1>4
  <1>6. FreeAt(order, s[i], i)
    <2>1. \A j \in 1 .. (i - 1) : order[j] # s[i]
      BY <1>1, <1>3, <1>5
    <2>2. \A n \in SeqRange(ImportsOf(s[i])) : \E j \in 1 .. (i - 1) : order[j] = n
      BY <1>3 DEF IsTopological
    <2>3. QED
      BY <2>1, <2>2 DEF FreeAt
  <1>7. order[i] <= s[i]
    BY <1>1, <1>2, <1>6 DEF Sorting
  <1>8. s[i] \in Nat /\ order[i] \in Nat
    BY <1>1, <1>2, ModulesFinite, NamesAssumption DEF Sorting
  <1>9. QED
    BY <1>3, <1>7, <1>8

(***************************************************************************)
(* OrderIsLeast holds for any modules: ModuleGraph::topo_sort puts each    *)
(* module once, after its imports, and of all such orders it finds the one *)
(* that is first in the order of the names; none of it depends on how the  *)
(* hash maps of the graph are iterated.                                    *)
(***************************************************************************)
THEOREM OrderLeast == Spec => []OrderIsLeast
  <1>1. LoaderInv => OrderIsLeast
    <2> SUFFICES ASSUME LoaderInv, phase \in {"eval", "done"}
                 PROVE  /\ order \in Permutations(Modules) /\ IsTopological(order)
                        /\ ~\E s \in Permutations(Modules) : IsTopological(s) /\ Precedes(s, order)
      BY DEF OrderIsLeast
    <2>1. Typed /\ Sorting /\ Len(order) = Cardinality(Modules)
      BY DEF LoaderInv, Evaluating
    <2>2. order \in Permutations(Modules)
      BY <2>1, OrderPermutation
    <2>3. \A s \in Permutations(Modules) : ~(IsTopological(s) /\ Precedes(s, order))
      BY <2>1, OrderFirst
    <2>4. QED
      BY <2>1, <2>2, <2>3 DEF Sorting
  <1>2. QED
    BY <1>1, LoaderInvariant, PTL

-----------------------------------------------------------------------------
(* What loading promises.                                                  *)

(* At first it promises to go on, or the entry cannot be loaded.           *)
LEMMA LoadInit == Init => Load!Init
  BY DEF Init, Load!Init, Status, NoFailure

(* While it is discovering and sorting it may reject a program, but only   *)
(* one that is not well formed.                                            *)
LEMMA RejectStep ==
    ASSUME LoaderInv, SkipImport \/ LoadImport \/ FinishModule \/ BuildGraph \/ PopReady \/ FinishSort
    PROVE  [Load!Next]_(Load!vars)
  <1>1. /\ phase \in {"discover", "sort"} /\ evaluated = {} /\ Status = "running"
        /\ disk' = disk /\ evaluated' = evaluated
    BY DEF SkipImport, LoadImport, FinishModule, BuildGraph, PopReady, FinishSort, Following,
           LoaderInv, Status
  <1>2. Typed
    BY DEF LoaderInv
  <1>3. CASE phase' \in {"discover", "sort", "eval"}
    <2>1. Status' = "running"
      BY <1>3 DEF Status
    <2>2. QED
      BY <1>1, <2>1 DEF Load!vars
  <1>4. CASE phase' \notin {"discover", "sort", "eval"}
    <2>1. phase' = "error" /\ failure'.kind \in {"load", "duplicate", "cycle"} /\ ~Load!WellFormed
      <3>1. CASE LoadImport
        <4>1. ~disk[Import].loads /\ phase' = "error" /\ failure' = [kind |-> "load", modules |-> {Import}]
          BY <1>1, <1>4, <3>1 DEF LoadImport, Fail
        <4>2. Discovering
          BY <3>1 DEF LoadImport, Following, LoaderInv
        <4>3. QED
          BY <1>2, <3>1, <4>1, <4>2, LoadFailure
      <3>2. CASE BuildGraph
        <4>1. /\ queue = <<>> /\ phase' = "error" /\ failure' = [kind |-> "duplicate", modules |-> {}]
              /\ \E i, j \in DOMAIN loaded : i # j /\ Declared(loaded[i]) = Declared(loaded[j])
          BY <1>4, <3>2 DEF BuildGraph, Fail
        <4>2. Discovering
          BY <3>2 DEF BuildGraph, LoaderInv
        <4>3. QED
          BY <1>2, <4>1, <4>2, DuplicateFailure
      <3>3. CASE FinishSort
        <4>1. /\ ready = {} /\ Len(order) # Cardinality(Modules)
              /\ phase' = "error" /\ failure'.kind = "cycle"
          BY <1>4, <3>3 DEF FinishSort, Fail
        <4>2. Discovered /\ Sorting
          BY <3>3 DEF FinishSort, LoaderInv
        <4>3. QED
          BY <1>2, <4>1, <4>2, SortFailure
      <3>4. CASE SkipImport \/ FinishModule \/ PopReady
        BY <1>4, <3>4 DEF SkipImport, FinishModule, PopReady, Following
      <3>5. QED
        BY <3>1, <3>2, <3>3, <3>4
    <2>2. Status' = "rejected"
      BY <2>1 DEF Status
    <2>3. Load!Reject
      BY <1>1, <2>1, <2>2 DEF Load!Reject
    <2>4. QED
      BY <2>3 DEF Load!Next
  <1>5. QED
    BY <1>3, <1>4

(* An error in a module's macros is promised while nothing is evaluated.   *)
LEMMA MacroStep ==
    ASSUME LoaderInv, MacroFails
    PROVE  Load!Next
  <1>1. /\ phase = "discover" /\ phase' = "error" /\ failure'.kind = "macro" /\ queue = <<>>
        /\ disk' = disk /\ evaluated' = evaluated
    BY DEF MacroFails, Fail
  <1>2. Typed /\ Discovering /\ evaluated = {}
    BY <1>1 DEF LoaderInv
  <1>3. Status = "running" /\ Status' = "failed"
    BY <1>1 DEF Status
  <1>4. Load!FailToExpand
    BY <1>1, <1>2, <1>3, AllLoad DEF Load!FailToExpand
  <1>5. QED
    BY <1>4 DEF Load!Next

(* Evaluating a module is one of the steps promised for it.                *)
LEMMA EvaluateStep ==
    ASSUME LoaderInv, EvalModule
    PROVE  Load!Next
  <1> DEFINE m == order[Cardinality(evaluated) + 1]
             f == FileOf(m)
  <1>1. phase = "eval" /\ Cardinality(evaluated) < Len(order) /\ disk' = disk /\ Status = "running"
    BY DEF EvalModule, Status
  <1>2. Typed /\ Discovered /\ Load!WellFormed
    BY <1>1 DEF LoaderInv
  <1>3. m \in Modules /\ m \notin evaluated /\ SeqRange(ImportsOf(m)) \subseteq evaluated
    BY <1>1, NextModule
  <1>4. SeqRange(ImportsOf(m)) \ evaluated = {}
    BY <1>3
  <1>5. \/ evaluated' = evaluated \union {m} /\ phase' = phase /\ failure' = failure
        \/ phase' = "error" /\ failure' = [kind |-> "eval", modules |-> {m}] /\ evaluated' = evaluated
    BY <1>4 DEF EvalModule, Fail
  <1> HIDE DEF m
  <1>6. f \in Load!Program /\ f \in Names /\ disk[f].module = m
    BY <1>2, <1>3, ModuleFile DEF Discovered, Declared
  <1>7. Load!ImportedBy(f) = SeqRange(ImportsOf(m))
    BY SameImports DEF ImportsOf
  <1> HIDE DEF f
  <1>8. Load!Due(f)
    BY <1>2, <1>3, <1>6, <1>7 DEF Load!Due
  <1>9. Load!Evaluate(f) \/ Load!Fail(f)
    BY <1>1, <1>5, <1>6, <1>8 DEF Load!Evaluate, Load!Fail, Status
  <1>10. QED
    BY <1>6, <1>9 DEF Load!Next

(* The loader is done when all of the program is.                          *)
LEMMA FinishStep ==
    ASSUME LoaderInv, FinishEval
    PROVE  Load!Next
  <1>1. /\ phase = "eval" /\ phase' = "done" /\ disk' = disk /\ evaluated' = evaluated
        /\ Cardinality(evaluated) = Len(order)
        /\ Status = "running" /\ Status' = "done"
    BY DEF FinishEval, Status
  <1>2. Typed /\ Discovered /\ Sorting /\ Evaluating /\ Load!WellFormed
    BY <1>1 DEF LoaderInv
  <1>3. DOMAIN order = 1..Len(order) /\ SeqRange(order) = Modules
    BY <1>2, OrderFull DEF Evaluating
  <1>4. PICK k \in 0..Len(order) : evaluated = {order[i] : i \in 1..k}
    BY <1>2 DEF Evaluating
  <1>5. k = Len(order)
    BY <1>1, <1>2, <1>4, EvaluatedCount
  <1>6. evaluated = Modules
    BY <1>3, <1>4, <1>5 DEF SeqRange
  <1>7. Modules = {disk[g].module : g \in Load!Program}
    BY <1>2 DEF Discovered, Modules, SeqRange, Declared
  <1>8. Load!Finish
    BY <1>1, <1>2, <1>6, <1>7 DEF Load!Finish
  <1>9. QED
    BY <1>8 DEF Load!Next

(***************************************************************************)
(* The loader takes only the steps ProgramLoad promises: a well-formed     *)
(* program is never rejected, modules are evaluated once and after what    *)
(* they import, a program that is not well formed is rejected before       *)
(* anything of it is evaluated, and it is done when all of it is.  That it *)
(* ends (the fairness of Load!Spec) the run checks.                        *)
(***************************************************************************)
THEOREM LoadsAsPromised == Spec => Load!Init /\ [][Load!Next]_(Load!vars)
  <1>1. LoaderInv /\ [Next]_vars => [Load!Next]_(Load!vars)
    <2> SUFFICES ASSUME LoaderInv, [Next]_vars
                 PROVE  [Load!Next]_(Load!vars)
      OBVIOUS
    <2>1. CASE SkipImport \/ LoadImport \/ FinishModule \/ BuildGraph \/ PopReady \/ FinishSort
      BY <2>1, RejectStep
    <2>2. CASE EvalModule
      BY <2>2, EvaluateStep
    <2>3. CASE FinishEval
      BY <2>3, FinishStep
    <2>4. CASE UNCHANGED vars
      BY <2>4 DEF vars, Load!vars, Status
    <2>5. QED
      BY <2>1, <2>2, <2>3, <2>4, MacroStep DEF Next
  <1>2. QED
    BY <1>1, LoadInit, LoaderInvariant, PTL DEF Spec
===============================================================================
