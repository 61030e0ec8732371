------------------------------ MODULE Nvm_proofs ------------------------------
(***************************************************************************)
(* Proofs about Nvm, for every size of a sector and of a configuration,    *)
(* and any number of saves, resets and failures.                           *)
(***************************************************************************)
EXTENDS Nvm, WellFoundedInduction, TLAPS

-----------------------------------------------------------------------------
(* The inductive invariants.                                               *)

\* where the block that is saved next begins
Begin == index[write_sector]

\* a save is under way; its block is being written
Saving == pc \in {"erase", "allocate", "write", "mark"}
Busy == pc \in {"allocate", "write", "mark"}

\* what the variables in RAM say of each other
Ranges ==
    /\ Saving => tag \in 1 .. MaxSaves
    /\ Busy => Begin + Length < NData
    /\ pc \in {"write", "mark"} => n_staging_area_ = Length
    /\ ~Erasing => n_valid_ <= index[read_sector_]

Types == TypeOK /\ Ranges

\* What they say of the allocation table: nothing is programmed from the index
\* of a sector on, but for the block of a save, whether it was ended or not.
Unused(states, from) == \A i \in Field : i >= from => states[i] = ERASED
Claimed(states, from, n) == \A i \in 0 .. n - 1 : states[from + i] # ERASED
Marked(states, from, n) == \A i \in 0 .. n - 1 : states[from + i] = VALID

Table ==
    /\ ~Erasing => Unused(alloc[read_sector_], index[read_sector_])
    /\ ~Erasing => Unused(alloc[write_sector],
                          IF pc = "retire" THEN Begin ELSE Begin + Length)
    /\ pc = "allocate" => Claimed(alloc[write_sector], Begin, pos)
    /\ pc \in {"write", "mark"} => Claimed(alloc[write_sector], Begin, Length)
    /\ pc = "mark" => Marked(alloc[write_sector], Begin, pos)

\* What they say of the data, as long as no save failed after it had begun to
\* write: a run of valid fields begins with a whole block, and a block is
\* complete before its first field is valid.
RunStart(states, p) == states[p] = VALID /\ (p = 0 \/ states[p - 1] # VALID)
Filled(fields, p, v) == \A i \in 0 .. Length - 1 : fields[p + i] = v

Sound(states, fields) ==
    /\ \A i \in Field : fields[i] # Blank => states[i] # ERASED
    /\ \A p \in Field : RunStart(states, p)
           => p + Length <= NData /\ \E v \in 1 .. MaxSaves : Filled(fields, p, v)

WholeRead ==
    ~Erasing /\ n_valid_ >= Length
        => \E v \in 1 .. MaxSaves : Filled(data[read_sector_], index[read_sector_] - n_valid_, v)

Contents ==
    /\ \A s \in Sector : Sound(alloc[s], data[s])
    /\ WholeRead
    /\ ~Erasing /\ pc \notin {"write", "mark"}
           => \A i \in Field : i >= Begin => data[write_sector][i] = Blank
    /\ pc = "write" => \A i \in 0 .. Length - 1 :
                           data[write_sector][Begin + i] = IF i < pos THEN tag ELSE Blank
    /\ pc = "mark" => Filled(data[write_sector], Begin, tag)

\* As long as every commit has retired the old block, too: nothing but the
\* latest block, if there is one, ends what is programmed in a sector, so
\* NVM_init finds it.
Closed(states, p) == p = 0 \/ states[p - 1] = INVALID
NoneValid(states, from) == \A i \in Field : i >= from => states[i] # VALID
Quiet(states) ==
    \A i \in Field : states[i] = VALID => \E j \in Field : j > i /\ states[j] = INVALID

BlockAt(states, fields, e, v) ==
    /\ e >= Length
    /\ Marked(states, e - Length, Length) /\ Filled(fields, e - Length, v)
    /\ e = Length \/ states[e - Length - 1] # VALID

Holds(states, fields, v) ==
    \E e \in 0 .. NData : Unused(states, e) /\ BlockAt(states, fields, e, v)

\* flash that NVM_init makes configuration v of, or nothing if v is 0
SettledFlash(a, d, v) ==
    IF v = 0 THEN \A s \in Sector : Quiet(a[s])
    ELSE \E s \in Sector : Holds(a[s], d[s], v) /\ Quiet(a[1 - s])

SettledRead ==
    IF latest = 0 THEN n_valid_ = 0 /\ Quiet(alloc[read_sector_])
    ELSE /\ n_valid_ = Length
         /\ BlockAt(alloc[read_sector_], data[read_sector_], index[read_sector_], latest)

SettledWrite ==
    /\ Closed(alloc[write_sector], Begin)
    /\ NoneValid(alloc[write_sector], IF pc = "mark" THEN Begin + pos ELSE Begin)

Settled ==
    /\ ~Erasing => SettledRead
    /\ ~Erasing /\ pc # "retire" => SettledWrite
    /\ pc = "erase0" => SettledFlash(alloc, data, latest)
    /\ pc = "erase1" => SettledFlash(alloc, data, latest) \/ SettledFlash(alloc, data, 0)

-----------------------------------------------------------------------------
(* Scanning the allocation table.                                          *)

\* a set of natural numbers has a least element
LEMMA Least ==
    ASSUME NEW S, S \subseteq Nat, S # {}
    PROVE  \E x \in S : \A y \in S : x <= y
<1> DEFINE R == OpToRel(<, Nat)
<1>1. IsWellFoundedOn(R, Nat)
  BY NatLessThanWellFounded
<1>2. \A x \in Nat, y \in Nat : <<y, x>> \in R <=> y < x
  BY DEF OpToRel
<1> HIDE DEF R
<1>3. PICK x \in S : \A y \in S : ~(<<y, x>> \in R)
  BY <1>1, WFMin
<1>4. ASSUME NEW y \in S PROVE x <= y
  <2>1. x \in Nat /\ y \in Nat
    OBVIOUS
  <2>2. ~(y < x)
    BY <1>2, <1>3, <2>1
  <2> QED
    BY <2>1, <2>2
<1> QED
  BY <1>4

\* Scan stops at the last field in another state.
LEMMA ScanStops ==
    ASSUME NEW states, NEW max \in Nat, NEW ref
    PROVE  LET e == Scan(states, max, ref) IN
               /\ e \in 0 .. max
               /\ \A j \in e .. max - 1 : states[j] = ref
               /\ e = 0 \/ states[e - 1] # ref
<1> DEFINE S == {i \in 0 .. max : \A j \in i .. max - 1 : states[j] = ref}
           e == Scan(states, max, ref)
<1>1. max \in S
  OBVIOUS
<1>2. e \in S /\ \A i \in S : e <= i
  <2>1. S \subseteq Nat /\ S # {}
    BY <1>1
  <2>2. e = Min(S)
    BY DEF Scan
  <2> HIDE DEF S, e
  <2>3. \E x \in S : \A y \in S : x <= y
    BY <2>1, Least
  <2> QED
    BY <2>2, <2>3 DEF Min
<1>3. e \in 0 .. max /\ \A j \in e .. max - 1 : states[j] = ref
  BY <1>2
<1>4. ASSUME e # 0, states[e - 1] = ref PROVE FALSE
  <2> HIDE DEF e
  <2>1. \A j \in e - 1 .. max - 1 : states[j] = ref
    BY <1>3, <1>4
  <2>2. e - 1 \in S
    BY <1>3, <1>4, <2>1
  <2> QED
    BY <1>2, <1>3, <2>2
<1> QED
  BY <1>3, <1>4

\* and only there
LEMMA ScanIs ==
    ASSUME NEW states, NEW max \in Nat, NEW ref, NEW i \in 0 .. max,
           \A j \in i .. max - 1 : states[j] = ref,
           i = 0 \/ states[i - 1] # ref
    PROVE  Scan(states, max, ref) = i
<1> DEFINE e == Scan(states, max, ref)
<1>1. /\ e \in 0 .. max
      /\ \A j \in e .. max - 1 : states[j] = ref
      /\ e = 0 \/ states[e - 1] # ref
  BY ScanStops
<1> HIDE DEF e
<1>2. ~(e < i)
  <2> SUFFICES ASSUME e < i PROVE FALSE
    OBVIOUS
  <2>1. i - 1 \in e .. max - 1
    BY <1>1
  <2> QED
    BY <1>1, <2>1
<1>3. ~(i < e)
  <2> SUFFICES ASSUME i < e PROVE FALSE
    OBVIOUS
  <2>1. e - 1 \in i .. max - 1
    BY <1>1
  <2> QED
    BY <1>1, <2>1
<1>4. e = i
  BY <1>1, <1>2, <1>3
<1> QED
  BY <1>4 DEF e

\* what load_configuration gets is nothing or a saved configuration
LEMMA LoadedType ==
    ASSUME NEW d, NEW ix, NEW rs, NEW nv
    PROVE  Loaded(d, ix, rs, nv) \in 0 .. MaxSaves
<1>1. 0 \in 0 .. Length - 1 /\ 0 \in 0 .. MaxSaves
  BY SizeAssumption, BoundAssumption
<1>2. CASE Length <= nv /\ \E v \in 1 .. MaxSaves : Whole(Block(d, ix, rs, nv), v)
  <2>1. PICK v \in 1 .. MaxSaves : Whole(Block(d, ix, rs, nv), v)
    BY <1>2
  <2>2. Block(d, ix, rs, nv)[0] = v
    BY <1>1, <2>1 DEF Whole
  <2> QED
    BY <1>2, <2>2, BoundAssumption DEF Loaded
<1> QED
  BY <1>1, <1>2 DEF Loaded

AllocType == [Sector -> [Field -> {VALID, INVALID, ERASED}]]
DataType == [Sector -> [Field -> Content]]

\* what NVM_init finds
LEMMA InitFinds ==
    ASSUME alloc' \in AllocType, NVM_init
    PROVE  /\ index' \in [Sector -> 0 .. NData]
           /\ \A s \in Sector : Unused(alloc'[s], index'[s])
           /\ \A s \in Sector : index'[s] = 0 \/ alloc'[s][index'[s] - 1] # ERASED
           /\ read_sector_' \in Sector
           /\ read_sector_' = 1 <=> index'[1] # 0 /\ alloc'[1][index'[1] - 1] = VALID
           /\ n_valid_' = index'[read_sector_']
                              - Scan(alloc'[read_sector_'], index'[read_sector_'], VALID)
           /\ n_valid_' \in 0 .. index'[read_sector_']
           /\ n_staging_area_' = 0
<1>1. ASSUME NEW s \in Sector
      PROVE  /\ index'[s] \in 0 .. NData
             /\ \A i \in index'[s] .. NData - 1 : alloc'[s][i] = ERASED
             /\ index'[s] = 0 \/ alloc'[s][index'[s] - 1] # ERASED
  <2>1. index'[s] = Scan(alloc'[s], NData, ERASED)
    BY DEF NVM_init
  <2> QED
    BY <2>1, ScanStops, SizeAssumption
<1>2. index' \in [Sector -> 0 .. NData]
  BY <1>1 DEF NVM_init
<1>3. \A s \in Sector : Unused(alloc'[s], index'[s])
  BY <1>1, SizeAssumption DEF Unused, Field
<1>4. read_sector_' = IF StateBelow(alloc'[1], index'[1], ERASED) = VALID THEN 1 ELSE 0
  BY DEF NVM_init
<1>5. read_sector_' \in Sector
  BY <1>4 DEF Sector
<1>6. read_sector_' = 1 <=> index'[1] # 0 /\ alloc'[1][index'[1] - 1] = VALID
  BY <1>4 DEF StateBelow, VALID, ERASED
<1> DEFINE e == index'[read_sector_']
           v == Scan(alloc'[read_sector_'], e, VALID)
<1>7. n_valid_' = e - v /\ n_staging_area_' = 0
  BY DEF NVM_init
<1>8. e \in Nat
  BY <1>2, <1>5, SizeAssumption
<1>9. v \in 0 .. e
  BY <1>8, ScanStops
<1> HIDE DEF e, v
<1>10. e - v \in 0 .. e
  BY <1>8, <1>9
<1> QED
  BY <1>1, <1>2, <1>3, <1>5, <1>6, <1>7, <1>10 DEF e, v

-----------------------------------------------------------------------------
(* What the flash operations do.                                           *)

LEMMA Sectors ==
    ASSUME TypeOK
    PROVE  /\ read_sector_ \in Sector /\ write_sector \in Sector
           /\ write_sector # read_sector_ /\ Sector = {read_sector_, write_sector}
           /\ Begin \in 0 .. NData
BY DEF TypeOK, write_sector, Sector, Begin

\* one field of a sector is programmed
LEMMA FieldEffect ==
    ASSUME NEW T, NEW f \in [Sector -> [Field -> T]], NEW g, NEW w \in Sector, NEW k \in Field,
           NEW v \in T, g = [f EXCEPT ![w][k] = v]
    PROVE  /\ g \in [Sector -> [Field -> T]]
           /\ \A s \in Sector, i \in Field :
                  g[s][i] = IF s = w /\ i = k THEN v ELSE f[s][i]
OBVIOUS

\* set_allocation_state lowers one field
LEMMA SetStateEffect ==
    ASSUME TypeOK, NEW count \in 0 .. Length, NEW to \in {VALID, INVALID},
           SetState(count, to), Begin + count <= NData
    PROVE  /\ alloc' \in AllocType
           /\ pos \in Nat /\ pos < count /\ pos' = pos + 1 /\ pos' \in 0 .. Length
           /\ Begin + pos \in Field
           /\ \A s \in Sector, i \in Field :
                  alloc'[s][i] = IF s = write_sector /\ i = Begin + pos
                                 THEN Lower(alloc[s][i], to) ELSE alloc[s][i]
<1>1. pos \in Nat /\ pos < count /\ pos' = pos + 1 /\ pos' \in 0 .. Length
  BY SizeAssumption DEF SetState, TypeOK
<1>2. Begin + pos \in Field
  BY <1>1, Sectors, SizeAssumption DEF Field
<1>3. alloc \in AllocType
  BY DEF TypeOK, AllocType
<1>4. \A a \in {VALID, INVALID, ERASED} : Lower(a, to) \in {VALID, INVALID, ERASED}
  BY DEF Lower
<1> DEFINE w == write_sector
           k == Begin + pos
<1>5. alloc' = [alloc EXCEPT ![w][k] = Lower(alloc[w][k], to)]
  BY DEF SetState, Begin
<1>6. w \in Sector /\ k \in Field
  BY <1>2, Sectors
<1> HIDE DEF w, k
<1>7. Lower(alloc[w][k], to) \in {VALID, INVALID, ERASED}
  BY <1>3, <1>4, <1>6 DEF AllocType
<1>8. /\ alloc' \in AllocType
      /\ \A s \in Sector, i \in Field :
             alloc'[s][i] = IF s = w /\ i = k THEN Lower(alloc[w][k], to) ELSE alloc[s][i]
  BY <1>3, <1>5, <1>6, <1>7, FieldEffect DEF AllocType
<1> QED
  BY <1>1, <1>2, <1>8 DEF w, k

\* an erase raises all fields of its sector
LEMMA EraseEffect ==
    ASSUME TypeOK, NEW s \in Sector, EraseFlash(s)
    PROVE  /\ alloc' \in AllocType /\ data' \in DataType
           /\ \A r \in Sector, i \in Field :
                  /\ alloc'[r][i] = IF r = s THEN ERASED ELSE alloc[r][i]
                  /\ data'[r][i] = IF r = s THEN Blank ELSE data[r][i]
<1>1. Blank \in Content
  BY BoundAssumption DEF Blank, Content, Mixed
<1> QED
  BY <1>1 DEF EraseFlash, TypeOK, AllocType, DataType

\* one field is written
LEMMA WriteEffect ==
    ASSUME TypeOK, Ranges, NVM_write
    PROVE  /\ data' \in DataType
           /\ pos \in 0 .. Length - 1 /\ pos' = pos + 1
           /\ Begin + pos \in Field
           /\ \A s \in Sector, i \in Field :
                  data'[s][i] = IF s = write_sector /\ i = Begin + pos
                                THEN Overwrite(data[s][i], tag) ELSE data[s][i]
<1>1. pos \in 0 .. Length - 1 /\ pos' = pos + 1
  BY SizeAssumption DEF NVM_write, Ranges, TypeOK
<1>2. Begin + pos \in Field
  BY <1>1, Sectors, SizeAssumption DEF Field, Ranges, Busy, NVM_write
<1>3. data \in DataType
  BY DEF TypeOK, DataType
<1>4. \A c \in Content : Overwrite(c, tag) \in Content
  BY BoundAssumption DEF Overwrite, Content, Mixed, TypeOK
<1> DEFINE w == write_sector
           k == Begin + pos
<1>5. data' = [data EXCEPT ![w][k] = Overwrite(data[w][k], tag)]
  BY DEF NVM_write, Begin
<1>6. w \in Sector /\ k \in Field
  BY <1>2, Sectors
<1> HIDE DEF w, k
<1>7. Overwrite(data[w][k], tag) \in Content
  BY <1>3, <1>4, <1>6 DEF DataType
<1>8. /\ data' \in DataType
      /\ \A s \in Sector, i \in Field :
             data'[s][i] = IF s = w /\ i = k THEN Overwrite(data[w][k], tag) ELSE data[s][i]
  BY <1>3, <1>5, <1>6, <1>7, FieldEffect DEF DataType
<1> QED
  BY <1>1, <1>2, <1>8 DEF w, k

-----------------------------------------------------------------------------
(* The ranges of the indices.                                              *)

\* a boot finds consistent indices, whatever the flash holds
LEMMA BootTypes ==
    ASSUME Types, alloc' \in AllocType, data' \in DataType, Boot,
           saves' \in 0 .. MaxSaves, resets' \in 0 .. MaxResets,
           failures' \in 0 .. MaxFailures, UNCHANGED <<previous, given_up>>,
           interrupted' \in BOOLEAN
    PROVE  Types'
<1>1. /\ index' \in [Sector -> 0 .. NData] /\ read_sector_' \in Sector
      /\ n_valid_' \in 0 .. index'[read_sector_'] /\ n_staging_area_' = 0
  BY InitFinds DEF Boot
<1>2. n_valid_' \in 0 .. NData /\ n_valid_' <= index'[read_sector_']
  BY <1>1, SizeAssumption
<1>3. pc' = "idle" /\ tag' = 0 /\ pos' = 0
  BY DEF Boot
<1>4. latest' \in 0 .. MaxSaves
  BY LoadedType DEF Boot, Types, TypeOK
<1>5. TypeOK'
  BY <1>1, <1>2, <1>3, <1>4, SizeAssumption, BoundAssumption
     DEF Types, TypeOK, AllocType, DataType, PC
<1>6. Ranges'
  BY <1>2, <1>3 DEF Ranges, Saving, Busy
<1> QED
  BY <1>5, <1>6 DEF Types

LEMMA TypesInit == Init => Types
<1> SUFFICES ASSUME Init PROVE Types
  OBVIOUS
<1>1. 0 \in 0 .. NData /\ 0 \in 0 .. Length /\ 0 \in 0 .. MaxSaves
      /\ 0 \in 0 .. MaxResets /\ 0 \in 0 .. MaxFailures /\ Blank \in Content
  BY SizeAssumption, BoundAssumption DEF Blank, Content, Mixed
<1>2. TypeOK
  BY <1>1 DEF Init, TypeOK, PC, Sector
<1>3. Ranges
  BY DEF Init, Ranges, Saving, Busy, Sector
<1> QED
  BY <1>2, <1>3 DEF Types

\* the beginning and the middle of a save
LEMMA TypesStart ==
    ASSUME Types, NVM_start_write \/ EraseForRoom
    PROVE  Types'
<1> USE DEF Types
<1>1. CASE NVM_start_write
  <2>1. /\ pc = "idle" /\ saves' \in 1 .. MaxSaves
        /\ UNCHANGED <<alloc, data, index, read_sector_, n_staging_area_, n_valid_, resets,
                       failures, latest, previous, interrupted, given_up>>
    BY <1>1, BoundAssumption DEF NVM_start_write, flash, ram, history, TypeOK
  <2>2. \/ pc' = "erase" /\ tag' = saves' /\ pos' = pos
        \/ pc' = "allocate" /\ tag' = saves' /\ pos' = 0 /\ Begin + Length < NData
        \/ pc' = "idle" /\ tag' = 0 /\ pos' = 0
    BY <1>1 DEF NVM_start_write, Allocate, Done, InRange, Begin
  <2>3. tag' \in 0 .. MaxSaves /\ pos' \in 0 .. Length /\ pc' \in PC
    BY <2>1, <2>2, SizeAssumption, BoundAssumption DEF PC, TypeOK
  <2>4. TypeOK'
    BY <2>1, <2>3 DEF TypeOK
  <2>5. Ranges'
    BY <2>1, <2>2 DEF Ranges, Saving, Busy, Erasing, Begin, write_sector
  <2> QED
    BY <2>4, <2>5
<1>2. CASE EraseForRoom
  <2>1. /\ pc = "erase" /\ EraseFlash(write_sector)
        /\ index' = [index EXCEPT ![write_sector] = 0]
        /\ UNCHANGED <<read_sector_, n_staging_area_, n_valid_, saves, resets, failures,
                       latest, previous, interrupted, given_up>>
    BY <1>2 DEF EraseForRoom, Erase, bounds, history
  <2>2. alloc' \in AllocType /\ data' \in DataType
    BY <2>1, Sectors, EraseEffect
  <2>3. \/ pc' = "allocate" /\ tag' = tag /\ pos' = 0 /\ Length < NData
        \/ pc' = "idle" /\ tag' = 0 /\ pos' = 0
    BY <1>2, SizeAssumption DEF EraseForRoom, Allocate, Done, InRange
  <2>4. tag' \in 0 .. MaxSaves /\ pos' \in 0 .. Length /\ pc' \in PC
    BY <2>3, SizeAssumption, BoundAssumption DEF PC, TypeOK
  <2>5. /\ index' \in [Sector -> 0 .. NData] /\ index'[write_sector] = 0
        /\ index'[read_sector_] = index[read_sector_]
    BY <2>1, Sectors, SizeAssumption DEF TypeOK
  <2>6. TypeOK'
    BY <2>1, <2>2, <2>4, <2>5 DEF TypeOK, AllocType, DataType
  <2>7. Begin' = 0
    BY <2>1, <2>5 DEF Begin, write_sector
  <2>8. Ranges'
    BY <2>1, <2>3, <2>5, <2>7, SizeAssumption DEF Ranges, Saving, Busy, Erasing
  <2> QED
    BY <2>6, <2>8
<1> QED
  BY <1>1, <1>2

\* the loops that program a block
LEMMA TypesLoops ==
    ASSUME Types, Invalidate \/ Allocated \/ NVM_write \/ NVM_commit \/ MarkValid
    PROVE  Types'
<1> USE DEF Types
<1>1. Busy /\ Begin + Length < NData /\ UNCHANGED <<index, read_sector_, n_valid_, tag>>
  BY DEF Invalidate, Allocated, NVM_write, NVM_commit, MarkValid, Busy, Ranges, ram
<1>2. Begin + Length <= NData /\ Length \in 0 .. Length /\ 0 \in 0 .. Length
  BY <1>1, Sectors, SizeAssumption
<1>3. alloc' \in AllocType /\ data' \in DataType /\ pos' \in 0 .. Length
  <2>1. CASE Invalidate
    BY <1>2, <2>1, SetStateEffect DEF Invalidate, TypeOK, DataType
  <2>2. CASE MarkValid
    <3>1. n_staging_area_ = Length
      BY <2>2 DEF MarkValid, Ranges
    <3> QED
      BY <1>2, <2>2, <3>1, SetStateEffect DEF MarkValid, TypeOK, DataType
  <2>3. CASE NVM_write
    BY <2>3, WriteEffect, SizeAssumption DEF NVM_write, TypeOK, AllocType
  <2>4. CASE Allocated \/ NVM_commit
    BY <1>2, <2>4 DEF Allocated, NVM_commit, flash, TypeOK, AllocType, DataType
  <2> QED
    BY <2>1, <2>2, <2>3, <2>4
<1>4. /\ pc' \in {"allocate", "write", "mark"}
      /\ n_staging_area_' \in {0, Length}
      /\ pc' \in {"write", "mark"} => n_staging_area_' = Length
      /\ UNCHANGED <<saves, resets, failures, latest, previous, interrupted, given_up>>
  BY DEF Invalidate, Allocated, NVM_write, NVM_commit, MarkValid, TypeOK, Ranges, ram, bounds,
         history
<1>5. TypeOK'
  BY <1>1, <1>3, <1>4 DEF TypeOK, AllocType, DataType, PC
<1>6. Ranges'
  BY <1>1, <1>4 DEF Ranges, Saving, Busy, Erasing, Begin, write_sector
<1> QED
  BY <1>5, <1>6

\* what a flip leaves and sets
LEMMA FlipEffect ==
    ASSUME Types, Flip
    PROVE  /\ pc = "mark" /\ pc' = "retire" /\ pos = Length /\ tag \in 1 .. MaxSaves
           /\ read_sector_' = write_sector /\ write_sector' = read_sector_
           /\ index'[read_sector_] = index[read_sector_]
           /\ index'[write_sector] = Begin + Length
           /\ Begin + Length < NData /\ index' \in [Sector -> 0 .. NData]
           /\ n_valid_' = Length /\ latest' = tag /\ previous' = latest
           /\ UNCHANGED <<alloc, data, interrupted, given_up>>
<1> USE DEF Types
<1>1. /\ pc = "mark" /\ n_staging_area_ = Length /\ pos = Length
      /\ Begin + Length < NData /\ tag \in 1 .. MaxSaves
  BY DEF Flip, Ranges, Busy, Saving
<1>2. /\ index' = [index EXCEPT ![write_sector] = Begin + Length]
      /\ read_sector_' = write_sector
  BY <1>1 DEF Flip, Begin
<1>3. Begin + Length \in 0 .. NData
  BY <1>1, Sectors, SizeAssumption
<1>4. write_sector' = read_sector_
  BY <1>2 DEF write_sector, TypeOK, Sector
<1> HIDE DEF Types
<1>5. /\ index' \in [Sector -> 0 .. NData]
      /\ index'[read_sector_] = index[read_sector_] /\ index'[write_sector] = Begin + Length
  BY <1>2, <1>3, Sectors DEF TypeOK, Types
<1> QED
  BY <1>1, <1>2, <1>4, <1>5 DEF Flip, flash

\* a retirement moves the index of the other sector only
LEMMA RetireEffect ==
    ASSUME Types, Retire \/ RetireFails
    PROVE  /\ pc = "retire" /\ pc' = "idle" /\ pos' = 0 /\ tag' = 0
           /\ UNCHANGED <<read_sector_, n_staging_area_, n_valid_, saves, resets,
                          latest, previous, given_up>>
           /\ index' \in [Sector -> 0 .. NData]
           /\ index'[read_sector_] = index[read_sector_]
           /\ alloc' \in AllocType /\ data' \in DataType
           /\ \/ /\ Begin + 1 < NData /\ index'[write_sector] = Begin + 1
                 /\ \A s \in Sector, i \in Field :
                        alloc'[s][i] = IF s = write_sector /\ i = Begin
                                       THEN Lower(alloc[s][i], INVALID) ELSE alloc[s][i]
                 /\ UNCHANGED <<data, interrupted>>
              \/ /\ index'[write_sector] = 0 /\ EraseFlash(write_sector)
                 /\ UNCHANGED interrupted
              \/ /\ index'[write_sector] >= Begin /\ UNCHANGED <<alloc, data>>
                 /\ interrupted'
           /\ interrupted' \in BOOLEAN
<1> DEFINE w == write_sector
<1>1. /\ w \in Sector /\ read_sector_ \in Sector /\ w # read_sector_
      /\ Begin \in 0 .. NData /\ Begin = index[w]
  BY Sectors DEF Types, Begin
<1>2. /\ pc = "retire" /\ pc' = "idle" /\ pos' = 0 /\ tag' = 0
      /\ UNCHANGED <<read_sector_, n_staging_area_, n_valid_, saves, resets,
                     latest, previous, given_up>>
  BY DEF Retire, RetireFails, Done, bounds
<1> DEFINE T == {VALID, INVALID, ERASED}
           v == Lower(alloc[w][Begin], INVALID)
<1>3. /\ index \in [Sector -> 0 .. NData] /\ interrupted \in BOOLEAN
      /\ alloc \in [Sector -> [Field -> T]] /\ data \in DataType
      /\ AllocType = [Sector -> [Field -> T]]
  BY DEF Types, TypeOK, AllocType, DataType
<1>4. CASE Retire /\ Begin < NData
  <2>1. /\ index' = [index EXCEPT ![w] = Begin + 1]
        /\ alloc' = IF Begin + 1 < NData THEN [alloc EXCEPT ![w][Begin] = v] ELSE alloc
        /\ interrupted' = (interrupted \/ ~(Begin + 1 < NData))
        /\ UNCHANGED data
    BY <1>4 DEF Retire, InRange, Begin
  <2>2. Begin \in Field /\ Begin + 1 \in 0 .. NData
    BY <1>1, <1>4, SizeAssumption DEF Field
  <2>3. v \in T
    <3>1. alloc[w][Begin] \in T
      BY <1>1, <1>3, <2>2
    <3> QED
      BY <3>1 DEF Lower
  <2>4. index' \in [Sector -> 0 .. NData] /\ index'[w] = Begin + 1
        /\ index'[read_sector_] = index[read_sector_]
    BY <1>1, <1>3, <2>1, <2>2
  <2>5. CASE Begin + 1 < NData
    <3> HIDE DEF v, T, w
    <3>1. alloc' = [alloc EXCEPT ![w][Begin] = v]
      BY <2>1, <2>5
    <3>2. /\ alloc' \in [Sector -> [Field -> T]]
          /\ \A s \in Sector, i \in Field :
                 alloc'[s][i] = IF s = w /\ i = Begin THEN v ELSE alloc[s][i]
      BY <1>1, <1>3, <2>2, <2>3, <3>1, FieldEffect
    <3>3. interrupted' = interrupted
      BY <1>3, <2>1, <2>5
    <3> QED
      BY <1>2, <1>3, <2>1, <2>4, <2>5, <3>2, <3>3 DEF w, v
  <2>6. CASE ~(Begin + 1 < NData)
    <3>1. interrupted' /\ interrupted' \in BOOLEAN
      BY <2>1, <2>6
    <3>2. alloc' = alloc /\ Begin + 1 >= Begin
      BY <1>1, <2>1, <2>6, SizeAssumption
    <3> QED
      BY <1>2, <1>3, <2>1, <2>4, <3>1, <3>2
  <2> QED
    BY <2>5, <2>6
<1>5. CASE Retire /\ ~(Begin < NData)
  <2>1. EraseFlash(w) /\ index' = [index EXCEPT ![w] = 0] /\ UNCHANGED interrupted
    BY <1>5 DEF Retire, Erase, Begin
  <2>2. index' \in [Sector -> 0 .. NData] /\ index'[w] = 0
        /\ index'[read_sector_] = index[read_sector_]
    BY <1>1, <1>3, <2>1, SizeAssumption
  <2>3. alloc' \in AllocType /\ data' \in DataType
    BY <1>1, <2>1, EraseEffect DEF Types
  <2> QED
    BY <1>2, <1>3, <2>1, <2>2, <2>3
<1>6. CASE RetireFails
  <2>1. /\ index' = [index EXCEPT ![w] = IF Begin < NData THEN Begin + 1 ELSE Begin]
        /\ interrupted' = TRUE /\ UNCHANGED <<alloc, data>>
    BY <1>6 DEF RetireFails, flash, Begin
  <2>2. index' \in [Sector -> 0 .. NData] /\ index'[w] >= Begin
        /\ index'[read_sector_] = index[read_sector_]
    BY <1>1, <1>3, <2>1, SizeAssumption
  <2> QED
    BY <1>2, <1>3, <2>1, <2>2
<1> QED
  BY <1>4, <1>5, <1>6

\* the end of a save
LEMMA TypesEnd ==
    ASSUME Types, Flip \/ Retire \/ RetireFails \/ HalError
    PROVE  Types'
<1>1. CASE Flip
  <2>1. UNCHANGED <<saves, resets, failures>> /\ n_staging_area_' = 0 /\ pos' = 0 /\ tag' = tag
    BY <1>1 DEF Flip, bounds
  <2>2. Length \in 0 .. NData /\ 0 \in 0 .. Length
    BY SizeAssumption
  <2>3. TypeOK'
    BY <1>1, <2>1, <2>2, FlipEffect, Sectors DEF Types, TypeOK, PC
  <2>4. Begin + Length >= Length
    BY Sectors, SizeAssumption DEF Types
  <2>5. Ranges'
    BY <1>1, <2>1, <2>4, FlipEffect DEF Ranges, Saving, Busy
  <2> QED
    BY <2>3, <2>5 DEF Types
<1>2. CASE Retire \/ RetireFails
  <2>1. failures' \in 0 .. MaxFailures
    BY <1>2, BoundAssumption DEF Retire, RetireFails, FlashFails, bounds, Types, TypeOK
  <2>2. 0 \in 0 .. MaxSaves /\ 0 \in 0 .. Length
    BY SizeAssumption, BoundAssumption
  <2>3. TypeOK'
    BY <1>2, <2>1, <2>2, RetireEffect DEF Types, TypeOK, PC, AllocType, DataType
  <2>4. Ranges'
    BY <1>2, RetireEffect DEF Types, Ranges, Saving, Busy, Erasing
  <2> QED
    BY <2>3, <2>4 DEF Types
<1>3. CASE HalError
  <2>1. /\ pc \in {"erase", "allocate", "write", "mark"}
        /\ pc' = "idle" /\ pos' = 0 /\ tag' = 0 /\ given_up' \in BOOLEAN
        /\ UNCHANGED <<alloc, data, index, read_sector_, n_staging_area_, n_valid_, saves,
                       resets, latest, previous, interrupted>>
    BY <1>3 DEF HalError, Done, flash, ram, Types, TypeOK
  <2>2. failures' \in 0 .. MaxFailures
    BY <1>3, BoundAssumption DEF HalError, FlashFails, Types, TypeOK
  <2>3. 0 \in 0 .. MaxSaves /\ 0 \in 0 .. Length
    BY SizeAssumption, BoundAssumption
  <2>4. TypeOK'
    BY <2>1, <2>2, <2>3 DEF Types, TypeOK, PC
  <2>5. Ranges'
    BY <2>1 DEF Types, Ranges, Saving, Busy, Erasing
  <2> QED
    BY <2>4, <2>5 DEF Types
<1> QED
  BY <1>1, <1>2, <1>3

\* erase_configuration, and resets
LEMMA TypesErase ==
    ASSUME Types, EraseConfiguration \/ Reset
    PROVE  Types'
<1>0. /\ alloc \in AllocType /\ data \in DataType
      /\ saves \in 0 .. MaxSaves /\ resets \in 0 .. MaxResets /\ failures \in 0 .. MaxFailures
      /\ given_up \in BOOLEAN /\ interrupted \in BOOLEAN
  BY DEF Types, TypeOK, AllocType, DataType
<1>1. CASE NVM_erase
  <2>1. saves' \in 0 .. MaxSaves
    BY <1>0, <1>1, BoundAssumption DEF NVM_erase
  <2>2. index' \in [Sector -> 0 .. NData] /\ 0 \in Sector
    BY <1>1, SizeAssumption DEF NVM_erase, Sector
  <2>3. TypeOK'
    BY <1>1, <2>1, <2>2 DEF NVM_erase, flash, history, Types, TypeOK, PC
  <2>4. Ranges'
    BY <1>1 DEF NVM_erase, Ranges, Saving, Busy, Erasing
  <2> QED
    BY <2>3, <2>4 DEF Types
<1>2. CASE EraseFirst \/ EraseSecond
  <2>1. /\ alloc' \in AllocType /\ data' \in DataType
    BY <1>0, <1>2, EraseEffect DEF EraseFirst, EraseSecond, flash, Types, Sector
  <2>2. failures' \in 0 .. MaxFailures
    BY <1>0, <1>2, BoundAssumption DEF EraseFirst, EraseSecond, FlashFails
  <2>3. CASE EraseFirst
    <3>1. /\ pc' = "erase1"
          /\ UNCHANGED <<index, read_sector_, n_staging_area_, n_valid_, tag, pos, saves, resets,
                         latest, previous, interrupted, given_up>>
      BY <2>3 DEF EraseFirst, ram, history
    <3>2. TypeOK'
      BY <2>1, <2>2, <3>1 DEF Types, TypeOK, PC, AllocType, DataType
    <3>3. Ranges'
      BY <3>1 DEF Ranges, Saving, Busy, Erasing
    <3> QED
      BY <3>2, <3>3 DEF Types
  <2>4. CASE EraseSecond
    BY <1>0, <2>1, <2>2, <2>4, BootTypes DEF EraseSecond
  <2> QED
    BY <1>2, <2>3, <2>4
<1>3. CASE Reset
  <2>1. resets' \in 0 .. MaxResets /\ interrupted' \in BOOLEAN
    BY <1>0, <1>3, BoundAssumption DEF Reset
  <2> QED
    BY <1>0, <1>3, <2>1, BootTypes DEF Reset, flash
<1> QED
  BY <1>1, <1>2, <1>3 DEF EraseConfiguration

LEMMA TypesStep == Types /\ [Next]_vars => Types'
<1> SUFFICES ASSUME Types, [Next]_vars PROVE Types'
  OBVIOUS
<1>1. CASE UNCHANGED vars
  BY <1>1 DEF vars, Types, TypeOK, Ranges, Saving, Busy, Erasing, Begin, write_sector
<1> QED
  BY <1>1, TypesStart, TypesLoops, TypesEnd, TypesErase DEF Next, Save

THEOREM TypesInvariant == Spec => []Types
BY TypesInit, TypesStep, PTL DEF Spec

\* The indices stay within a sector, for every size of it, wherever a reset or
\* a failure ends a save, and whatever NVM_init finds in the flash.
THEOREM TypeCorrect == Spec => []TypeOK
<1>1. Types => TypeOK
  BY DEF Types
<1> QED
  BY <1>1, TypesInvariant, PTL

-----------------------------------------------------------------------------
(* The sector that is read.                                                *)

\* A step that only works on the write sector.
KeepsReadSector ==
    /\ UNCHANGED <<read_sector_, n_valid_>>
    /\ index'[read_sector_] = index[read_sector_]
    /\ \A i \in Field : /\ data'[read_sector_][i] = data[read_sector_][i]
                        /\ alloc'[read_sector_][i] = alloc[read_sector_][i]

LEMMA KeptReadSector ==
    ASSUME Types, Types', KeepsReadSector
    PROVE  data'[read_sector_] = data[read_sector_] /\ alloc'[read_sector_] = alloc[read_sector_]
<1> DEFINE T == {VALID, INVALID, ERASED}
           r == read_sector_
<1>1. /\ data[r] \in [Field -> Content] /\ data'[r] \in [Field -> Content]
      /\ alloc[r] \in [Field -> T] /\ alloc'[r] \in [Field -> T]
  BY DEF Types, TypeOK, KeepsReadSector
<1> HIDE DEF T
<1> QED
  BY <1>1 DEF KeepsReadSector

LEMMA KeepsReadable ==
    ASSUME Types, Types', KeepsReadSector
    PROVE  Readable' = Readable
<1>1. data'[read_sector_] = data[read_sector_]
  BY KeptReadSector
<1>2. Block(data', index', read_sector_, n_valid_) = Block(data, index, read_sector_, n_valid_)
  BY <1>1 DEF Block, KeepsReadSector
<1> QED
  BY <1>2 DEF Readable, Loaded, KeepsReadSector

\* A save works on the write sector, until it flips the two.
LEMMA SaveKeepsReadSector ==
    ASSUME Types, Save, ~Flip
    PROVE  KeepsReadSector
<1>1. /\ TypeOK /\ read_sector_ \in Sector /\ write_sector \in Sector
      /\ write_sector # read_sector_ /\ Begin \in 0 .. NData
  BY Sectors DEF Types
<1>2. CASE \/ NVM_start_write \/ Allocated \/ NVM_commit \/ HalError
  BY <1>2 DEF NVM_start_write, Allocated, NVM_commit, HalError, flash, ram, KeepsReadSector
<1>3. CASE EraseForRoom
  <2>1. /\ EraseFlash(write_sector) /\ index' = [index EXCEPT ![write_sector] = 0]
        /\ UNCHANGED <<read_sector_, n_valid_>>
    BY <1>3 DEF EraseForRoom, Erase
  <2>2. index'[read_sector_] = index[read_sector_]
    BY <1>1, <2>1 DEF TypeOK
  <2> QED
    BY <1>1, <2>1, <2>2, EraseEffect DEF KeepsReadSector
<1>4. CASE Invalidate
  <2>1. SetState(Length, INVALID) /\ Begin + Length < NData
    BY <1>4 DEF Invalidate, Types, Ranges, Busy
  <2>2. Begin + Length <= NData /\ Length \in 0 .. Length
    BY <1>1, <2>1, SizeAssumption
  <2> QED
    BY <1>1, <1>4, <2>1, <2>2, SetStateEffect DEF Invalidate, ram, KeepsReadSector
<1>5. CASE MarkValid
  <2>1. SetState(Length, VALID) /\ Begin + Length < NData
    BY <1>5 DEF MarkValid, Types, Ranges, Busy
  <2>2. Begin + Length <= NData /\ Length \in 0 .. Length
    BY <1>1, <2>1, SizeAssumption
  <2> QED
    BY <1>1, <1>5, <2>1, <2>2, SetStateEffect DEF MarkValid, ram, KeepsReadSector
<1>6. CASE NVM_write
  BY <1>1, <1>6, WriteEffect DEF NVM_write, ram, Types, KeepsReadSector
<1>7. CASE Retire \/ RetireFails
  BY <1>1, <1>7, RetireEffect, EraseEffect DEF KeepsReadSector
<1> QED
  BY <1>2, <1>3, <1>4, <1>5, <1>6, <1>7 DEF Save

\* Until a save commits, what would be read stays as it is: no step of a save
\* but its flip, also none that fails, touches the sector that is read.
THEOREM ReadSideHolds == Spec => ReadSideUntouched
<1>1. Types /\ Types' /\ [Next]_vars
          => [~Erasing /\ ~Erasing' /\ read_sector_' = read_sector_ /\ resets' = resets
                  => Readable' = Readable]_vars
  <2> SUFFICES ASSUME Types, Types', Next, ~Erasing, ~Erasing', read_sector_' = read_sector_,
                      resets' = resets
               PROVE  Readable' = Readable
    OBVIOUS
  <2>1. ~EraseConfiguration
    BY DEF EraseConfiguration, NVM_erase, EraseFirst, EraseSecond, Erasing
  <2>2. ~Reset
    BY DEF Reset, Types, TypeOK
  <2>3. ~Flip
    BY FlipEffect, Sectors DEF Types
  <2> QED
    BY <2>1, <2>2, <2>3, SaveKeepsReadSector, KeepsReadable DEF Next
<1> QED
  BY <1>1, TypesInvariant, PTL DEF Spec, ReadSideUntouched

-----------------------------------------------------------------------------
(* The allocation table.                                                   *)

LEMMA TableInit == Init => Table
BY DEF Init, Table, Unused, Sector, write_sector, Begin, Erasing

\* a boot puts the indices behind all that is programmed
LEMMA BootTable ==
    ASSUME alloc' \in AllocType, Boot
    PROVE  Table'
<1> DEFINE r == read_sector_'
           w == write_sector'
<1>1. /\ pc' = "idle" /\ r \in Sector /\ index' \in [Sector -> 0 .. NData]
      /\ \A s \in Sector : Unused(alloc'[s], index'[s])
  BY InitFinds DEF Boot
<1>2. w \in Sector
  <2>1. w = 1 - r
    BY DEF write_sector
  <2> HIDE DEF w, r
  <2> QED
    BY <1>1, <2>1 DEF Sector
<1> HIDE DEF r, w
<1>3. index'[w] \in Nat /\ Unused(alloc'[w], index'[w])
  BY <1>1, <1>2, SizeAssumption
<1>4. Unused(alloc'[w], index'[w] + Length)
  BY <1>3, SizeAssumption DEF Unused, Field
<1> QED
  BY <1>1, <1>4 DEF Table, Begin, r, w

\* the fields of a block are programmed in turn
LEMMA TableLoops ==
    ASSUME Types, Table, Invalidate \/ MarkValid
    PROVE  Table'
<1> DEFINE w == write_sector
           b == Begin
           old == alloc[w]
           new == alloc'[w]
           to == IF pc = "mark" THEN VALID ELSE INVALID
<1>1. /\ TypeOK /\ w \in Sector /\ read_sector_ \in Sector /\ w # read_sector_
      /\ b \in Nat /\ Length \in Nat /\ NData \in Nat
  BY Sectors, SizeAssumption DEF Types, TypeOK
<1>2. /\ pc \in {"allocate", "write", "mark"} /\ b + Length < NData
      /\ UNCHANGED <<index, read_sector_, pc>>
  BY DEF Invalidate, MarkValid, Busy, Types, Ranges, ram
<1>3. b + Length <= NData /\ Length \in 0 .. Length
  BY <1>1, <1>2
<1>4. write_sector' = w /\ Begin' = b
  BY <1>2 DEF write_sector, Begin
<1>5. SetState(Length, to) /\ to \in {VALID, INVALID}
  BY DEF Invalidate, MarkValid, Types, Ranges
<1>6. /\ pos \in Nat /\ pos < Length /\ pos' = pos + 1 /\ b + pos \in Field
      /\ \A s \in Sector, i \in Field :
             alloc'[s][i] = IF s = w /\ i = b + pos THEN Lower(alloc[s][i], to)
                            ELSE alloc[s][i]
  BY <1>1, <1>3, <1>5, SetStateEffect
<1>7. \A a \in {VALID, INVALID, ERASED} :
          Lower(a, to) # ERASED /\ (pc = "mark" => Lower(a, to) = VALID)
  BY DEF Lower, VALID, INVALID, ERASED
<1>8. \A i \in Field : old[i] \in {VALID, INVALID, ERASED}
  BY <1>1 DEF TypeOK
<1>9. Unused(alloc'[read_sector_], index[read_sector_])
  BY <1>1, <1>2, <1>6 DEF Table, Unused, Erasing
<1>10. Unused(old, b + Length)
  BY <1>2 DEF Table, Erasing
<1>11. \A i \in Field : new[i] = IF i = b + pos THEN Lower(old[i], to) ELSE old[i]
  BY <1>1, <1>6
<1>12. new[b + pos] # ERASED /\ (pc = "mark" => new[b + pos] = VALID)
  BY <1>6, <1>7, <1>8, <1>11
<1>13. /\ pc = "allocate" => Claimed(old, b, pos)
       /\ pc \in {"write", "mark"} => Claimed(old, b, Length)
       /\ pc = "mark" => Marked(old, b, pos)
  BY DEF Table
<1> HIDE DEF w, b, old, new, to
<1>14. Unused(new, b + Length)
  BY <1>1, <1>6, <1>10, <1>11 DEF Unused, Field
<1>15. \A i \in 0 .. Length - 1 : b + i \in Field
  BY <1>1, <1>2 DEF Field
<1>16. \A i \in 0 .. (pos + 1) - 1 : i \in 0 .. pos - 1 \/ i = pos
  BY <1>6
<1>17. \A i \in 0 .. Length - 1 : i # pos => new[b + i] = old[b + i]
  <2>1. \A i \in 0 .. Length - 1 : i # pos => b + i # b + pos
    BY <1>1, <1>6
  <2> QED
    BY <1>11, <1>15, <2>1
<1>18. \A i \in 0 .. pos - 1 : i \in 0 .. Length - 1 /\ i # pos
  BY <1>1, <1>6
<1>19. pc = "allocate" => Claimed(new, b, pos + 1)
  BY <1>12, <1>13, <1>16, <1>17, <1>18 DEF Claimed
<1>20. pc \in {"write", "mark"} => Claimed(new, b, Length)
  BY <1>12, <1>13, <1>17 DEF Claimed
<1>21. pc = "mark" => Marked(new, b, pos + 1)
  BY <1>12, <1>13, <1>16, <1>17, <1>18 DEF Marked
<1> QED
  BY <1>2, <1>4, <1>6, <1>9, <1>14, <1>19, <1>20, <1>21 DEF Table, new, w

\* the steps of a save that program no field of a block
LEMMA TableSaves ==
    ASSUME Types, Table, \/ NVM_start_write \/ EraseForRoom \/ Allocated \/ NVM_write
                         \/ NVM_commit \/ HalError
    PROVE  Table'
<1> USE DEF Types
<1>0. /\ read_sector_ \in Sector /\ write_sector \in Sector /\ write_sector # read_sector_
      /\ Begin \in Nat /\ Length \in Nat
  BY Sectors, SizeAssumption
<1>1. CASE EraseForRoom
  <2> DEFINE w == write_sector
             r == read_sector_
  <2>1. /\ EraseFlash(w) /\ index' = [index EXCEPT ![w] = 0] /\ read_sector_' = r
        /\ (pc' = "allocate" /\ pos' = 0) \/ pc' = "idle"
        /\ ~Erasing
    BY <1>1 DEF EraseForRoom, Erase, Allocate, Done, Erasing
  <2>2. write_sector' = w /\ index'[w] = 0 /\ index'[r] = index[r]
    BY <1>0, <2>1 DEF write_sector, TypeOK
  <2>3. /\ \A i \in Field : alloc'[w][i] = ERASED
        /\ \A i \in Field : alloc'[r][i] = alloc[r][i]
    BY <1>0, <2>1, EraseEffect
  <2>4. Unused(alloc'[r], index'[r])
    BY <2>1, <2>2, <2>3 DEF Table, Unused
  <2> HIDE DEF w, r
  <2>5. Unused(alloc'[w], 0 + Length)
    BY <2>3 DEF Unused
  <2>6. pos' = 0 => Claimed(alloc'[w], 0, pos')
    BY DEF Claimed
  <2> QED
    BY <2>1, <2>2, <2>4, <2>5, <2>6 DEF Table, Begin, r
<1>2. CASE NVM_start_write \/ Allocated \/ NVM_write \/ NVM_commit \/ HalError
  <2>1. /\ UNCHANGED <<alloc, index, read_sector_>> /\ ~Erasing /\ pc # "retire"
        /\ pc' # "retire"
    BY <1>2 DEF NVM_start_write, Allocated, NVM_write, NVM_commit, HalError, Erasing, flash, ram,
                Allocate, Done
  <2>2. write_sector' = write_sector /\ Begin' = Begin
    BY <2>1 DEF write_sector, Begin
  <2>3. pc' = "allocate" => pos' = 0
    BY <1>2 DEF NVM_start_write, Allocated, NVM_write, NVM_commit, HalError, Allocate, Done
  <2>4. pos' = 0 => \A a, b : Claimed(a, b, pos') /\ Marked(a, b, pos')
    BY DEF Claimed, Marked
  <2>5. pc' = "mark" => pos' = 0 /\ pc = "write"
    BY <1>2 DEF NVM_start_write, Allocated, NVM_write, NVM_commit, HalError, Allocate, Done
  <2>6. pc' = "write" => pc = "write" \/ (pc = "allocate" /\ pos = Length)
    BY <1>2 DEF NVM_start_write, Allocated, NVM_write, NVM_commit, HalError, Allocate, Done
  <2> QED
    BY <2>1, <2>2, <2>3, <2>4, <2>5, <2>6 DEF Table
<1> QED
  BY <1>1, <1>2

\* The sectors change their roles, and the block that was read is retired.
LEMMA TableEnd ==
    ASSUME Types, Table, Flip \/ Retire \/ RetireFails
    PROVE  Table'
<1> DEFINE w == write_sector
           r == read_sector_
<1>0. /\ r \in Sector /\ w \in Sector /\ w # r
      /\ Begin \in Nat /\ Length \in Nat /\ NData \in Nat
  BY Sectors, SizeAssumption DEF Types
<1>1. CASE Flip
  <2>1. Unused(alloc[r], index[r]) /\ Unused(alloc[w], Begin + Length)
    BY <1>1, FlipEffect DEF Table, Erasing
  <2>2. /\ pc' = "retire" /\ alloc' = alloc /\ read_sector_' = w /\ write_sector' = r
        /\ index'[r] = index[r] /\ index'[w] = Begin + Length
    BY <1>1, FlipEffect
  <2> QED
    BY <2>1, <2>2 DEF Table, Begin
<1>2. CASE Retire \/ RetireFails
  <2>1. /\ pc' = "idle" /\ read_sector_' = r /\ index'[r] = index[r]
        /\ Unused(alloc[r], index[r]) /\ Unused(alloc[w], Begin)
    BY <1>2, RetireEffect DEF Table, Erasing
  <2>2. write_sector' = w
    BY <2>1 DEF write_sector
  <2>3. index'[w] \in Nat
    BY <1>0, <1>2, RetireEffect
  <2>4. /\ \A i \in Field : alloc'[r][i] = alloc[r][i]
        /\ \/ /\ \A i \in Field : i # Begin => alloc'[w][i] = alloc[w][i]
              /\ index'[w] = Begin + 1
           \/ \A i \in Field : alloc'[w][i] = ERASED
           \/ \A i \in Field : alloc'[w][i] = alloc[w][i] /\ index'[w] >= Begin
    BY <1>0, <1>2, RetireEffect, EraseEffect DEF Types
  <2> HIDE DEF w, r
  <2>5. Unused(alloc'[r], index'[r])
    BY <2>1, <2>4 DEF Unused
  <2>6. \A i \in Field : i \in Nat
    BY <1>0 DEF Field
  <2>7. Length >= 1
    BY SizeAssumption
  <2>8. Unused(alloc'[w], index'[w] + Length)
    BY <1>0, <2>1, <2>3, <2>4, <2>6, <2>7 DEF Unused
  <2> QED
    BY <2>1, <2>2, <2>5, <2>8 DEF Table, Begin, r
<1> QED
  BY <1>1, <1>2

LEMMA TableStep == Types /\ Types' /\ Table /\ [Next]_vars => Table'
<1> SUFFICES ASSUME Types, Types', Table, [Next]_vars PROVE Table'
  OBVIOUS
<1>0. alloc' \in AllocType
  BY DEF Types, TypeOK, AllocType
<1>1. CASE UNCHANGED vars
  BY <1>1 DEF vars, Table, Begin, write_sector, Erasing
<1>2. CASE NVM_erase \/ EraseFirst
  BY <1>2 DEF NVM_erase, EraseFirst, Table, Erasing
<1>3. CASE EraseSecond \/ Reset
  BY <1>0, <1>3, BootTable DEF EraseSecond, Reset
<1> QED
  BY <1>1, <1>2, <1>3, TableLoops, TableSaves, TableEnd DEF Next, Save, EraseConfiguration

\* Behind the index of a sector nothing is programmed but the block of a save
\* that was not committed; the next block begins there.
THEOREM TableInvariant == Spec => []Table
BY TableInit, TableStep, TypesInvariant, PTL DEF Spec

-----------------------------------------------------------------------------
(* What the two sectors hold.                                              *)

LEMMA SoundErased ==
    ASSUME NEW states, NEW fields, \A i \in Field : states[i] = ERASED /\ fields[i] = Blank
    PROVE  Sound(states, fields)
BY DEF Sound, RunStart, VALID, ERASED

LEMMA SoundInvalid ==
    ASSUME NEW old, NEW new, NEW fields, NEW k \in Field, Sound(old, fields),
           \A i \in Field : old[i] \in {VALID, INVALID, ERASED},
           \A i \in Field : new[i] = IF i = k THEN Lower(old[i], INVALID) ELSE old[i]
    PROVE  Sound(new, fields)
<1>1. \A a \in {VALID, INVALID, ERASED} :
          Lower(a, INVALID) # ERASED /\ (Lower(a, INVALID) = VALID <=> a = VALID)
  BY DEF Lower, VALID, INVALID, ERASED
<1>2. \A i \in Field : /\ new[i] = VALID <=> old[i] = VALID
                       /\ old[i] # ERASED => new[i] # ERASED
  BY <1>1
<1>3. \A p \in Field : p # 0 => p - 1 \in Field
  BY SizeAssumption DEF Field
<1> QED
  BY <1>2, <1>3 DEF Sound, RunStart

\* a field becomes valid: it begins a block, or follows a valid field
LEMMA SoundValid ==
    ASSUME NEW old, NEW new, NEW fields, NEW k \in Field, Sound(old, fields),
           \A i \in Field : new[i] = IF i = k THEN VALID ELSE old[i],
           \/ k # 0 /\ old[k - 1] = VALID
           \/ k + Length <= NData /\ \E v \in 1 .. MaxSaves : Filled(fields, k, v)
    PROVE  Sound(new, fields)
<1>1. \A i \in Field : old[i] # ERASED => new[i] # ERASED
  BY DEF VALID, ERASED
<1>2. \A p \in Field : p # 0 => p - 1 \in Field /\ p - 1 # p
  BY SizeAssumption DEF Field
<1>3. ASSUME NEW p \in Field, RunStart(new, p)
      PROVE  p + Length <= NData /\ \E v \in 1 .. MaxSaves : Filled(fields, p, v)
  <2>1. CASE p = k
    <3>1. k = 0 \/ old[k - 1] # VALID
      BY <1>2, <1>3, <2>1 DEF RunStart
    <3> QED
      BY <2>1, <3>1
  <2>2. CASE p # k
    <3>1. old[p] = VALID /\ (p = 0 \/ old[p - 1] # VALID)
      BY <1>2, <1>3, <2>2 DEF RunStart
    <3> QED
      BY <3>1 DEF Sound, RunStart
  <2> QED
    BY <2>1, <2>2
<1> QED
  BY <1>1, <1>3 DEF Sound

\* a blank field is written, in a block that is claimed
LEMMA SoundWritten ==
    ASSUME NEW states, NEW old, NEW new, NEW k \in Field, Sound(states, old),
           states[k] # ERASED, old[k] = Blank,
           \A i \in Field : i # k => new[i] = old[i]
    PROVE  Sound(states, new)
<1>1. \A i \in Field : new[i] # Blank => states[i] # ERASED
  BY DEF Sound
<1>2. ASSUME NEW p \in Field, p + Length <= NData, NEW v \in 1 .. MaxSaves, Filled(old, p, v)
      PROVE  Filled(new, p, v)
  <2>1. v # Blank
    BY DEF Blank
  <2>2. \A i \in 0 .. Length - 1 : p + i \in Field
    BY <1>2, SizeAssumption DEF Field
  <2> QED
    BY <1>2, <2>1, <2>2 DEF Filled
<1> QED
  BY <1>1, <1>2 DEF Sound

\* What NVM_init takes for the latest block is a whole one.
LEMMA BootContents ==
    ASSUME Types', Boot, \A s \in Sector : Sound(alloc'[s], data'[s])
    PROVE  Contents'
<1> DEFINE r == read_sector_'
           w == write_sector'
           e == index'[r]
           p == Scan(alloc'[r], e, VALID)
<1>1. alloc' \in AllocType
  BY DEF Types, TypeOK, AllocType
<1>2. /\ pc' = "idle" /\ r \in Sector /\ n_valid_' = e - p
      /\ index' \in [Sector -> 0 .. NData]
      /\ \A s \in Sector : Unused(alloc'[s], index'[s])
  BY <1>1, InitFinds DEF Boot
<1>3. w \in Sector
  <2>1. w = 1 - r
    BY DEF write_sector
  <2> HIDE DEF w, r
  <2> QED
    BY <1>2, <2>1 DEF Sector
<1>4. \A i \in Field : i >= index'[w] => data'[w][i] = Blank
  BY <1>2, <1>3 DEF Unused, Sound
<1>5. /\ e \in 0 .. NData /\ p \in 0 .. e
      /\ \A j \in p .. e - 1 : alloc'[r][j] = VALID
      /\ p = 0 \/ alloc'[r][p - 1] # VALID
  <2>1. e \in 0 .. NData /\ e \in Nat
    BY <1>2, SizeAssumption
  <2> QED
    BY <2>1, ScanStops
<1>6. Sound(alloc'[r], data'[r])
  BY <1>2
<1> HIDE DEF p, e, r, w
<1>7. ASSUME e - p >= Length PROVE \E v \in 1 .. MaxSaves : Filled(data'[r], p, v)
  <2>1. p \in Field /\ p \in p .. e - 1
    BY <1>5, <1>7, SizeAssumption DEF Field
  <2>2. RunStart(alloc'[r], p)
    BY <1>5, <2>1 DEF RunStart
  <2> QED
    BY <1>6, <2>1, <2>2 DEF Sound
<1>8. e - (e - p) = p
  BY <1>5, SizeAssumption
<1>9. WholeRead'
  BY <1>2, <1>7, <1>8 DEF WholeRead, e, r
<1>10. \A i \in Field : i >= Begin' => data'[w][i] = Blank
  BY <1>4 DEF Begin, w
<1> QED
  BY <1>2, <1>9, <1>10 DEF Contents, w

\* a step on the write sector leaves what is read whole
LEMMA ContentsKept ==
    ASSUME Types, Types', Contents, KeepsReadSector, ~Erasing,
           Sound(alloc'[write_sector], data'[write_sector])
    PROVE  (\A s \in Sector : Sound(alloc'[s], data'[s])) /\ WholeRead'
<1>1. data'[read_sector_] = data[read_sector_] /\ alloc'[read_sector_] = alloc[read_sector_]
  BY KeptReadSector
<1>2. \A s \in Sector : s = read_sector_ \/ s = write_sector
  BY Sectors DEF Types
<1>3. Sound(alloc[read_sector_], data[read_sector_])
  BY Sectors DEF Types, Contents
<1>4. WholeRead'
  BY <1>1 DEF Contents, WholeRead, KeepsReadSector
<1> QED
  BY <1>1, <1>2, <1>3, <1>4

\* the fields of the block that is saved
LEMMA BlockFields ==
    ASSUME Types, Busy
    PROVE  /\ TypeOK /\ write_sector \in Sector /\ Begin \in Nat /\ Length \in Nat \ {0}
           /\ Begin + Length < NData
           /\ \A i \in 0 .. Length - 1 : Begin + i \in Field /\ Begin + i >= Begin
<1>1. Begin \in Nat /\ Length \in Nat \ {0} /\ NData \in Nat /\ Begin + Length < NData
  BY Sectors, SizeAssumption DEF Types, Ranges
<1> HIDE DEF Begin
<1>2. \A i \in 0 .. Length - 1 : Begin + i \in Field /\ Begin + i >= Begin
  BY <1>1 DEF Field
<1> QED
  BY <1>1, <1>2, Sectors DEF Types

LEMMA ContentsLoops ==
    ASSUME Types, Types', Table, Contents, Invalidate \/ NVM_write \/ MarkValid
    PROVE  Contents'
<1> DEFINE w == write_sector
           b == Begin
           k == b + pos
<1>1. /\ Busy /\ ~Erasing /\ UNCHANGED <<index, read_sector_, pc, tag>>
  BY DEF Invalidate, NVM_write, MarkValid, Busy, Erasing, ram
<1>2. /\ TypeOK /\ w \in Sector /\ b \in Nat /\ Length \in Nat \ {0} /\ b + Length < NData
      /\ \A i \in 0 .. Length - 1 : b + i \in Field /\ b + i >= b
  BY <1>1, BlockFields
<1>3. write_sector' = w /\ Begin' = b
  BY <1>1 DEF write_sector, Begin
<1>4. KeepsReadSector
  BY SaveKeepsReadSector DEF Save, Flip, Invalidate, NVM_write, MarkValid
<1>5. b + Length <= NData /\ Length \in 0 .. Length
  <2> HIDE DEF b
  <2> QED
    BY <1>2, SizeAssumption
<1>6. Sound(alloc[w], data[w]) /\ \A i \in Field : alloc[w][i] \in {VALID, INVALID, ERASED}
  BY <1>2 DEF Contents, TypeOK
<1>7. CASE Invalidate
  <2>1. /\ pc = "allocate" /\ SetState(Length, INVALID) /\ data' = data
    BY <1>7 DEF Invalidate
  <2>2. /\ k \in Field
        /\ \A i \in Field : alloc'[w][i] = IF i = k THEN Lower(alloc[w][i], INVALID)
                                           ELSE alloc[w][i]
    BY <1>2, <1>5, <2>1, SetStateEffect
  <2>3. Sound(alloc'[w], data'[w])
    BY <1>6, <2>1, <2>2, SoundInvalid
  <2> QED
    BY <1>1, <1>3, <1>4, <2>1, <2>3, ContentsKept DEF Contents
<1>8. CASE MarkValid
  <2>1. /\ pc = "mark" /\ SetState(Length, VALID) /\ data' = data
    BY <1>8 DEF MarkValid, Types, Ranges
  <2>2. /\ k \in Field /\ pos \in Nat /\ pos < Length
        /\ \A i \in Field : alloc'[w][i] = IF i = k THEN Lower(alloc[w][i], VALID)
                                           ELSE alloc[w][i]
    BY <1>2, <1>5, <2>1, SetStateEffect
  <2>3. \A a \in {VALID, INVALID, ERASED} : Lower(a, VALID) = VALID
    BY DEF Lower, VALID, INVALID, ERASED
  <2>4. Filled(data[w], b, tag) /\ Marked(alloc[w], b, pos) /\ tag \in 1 .. MaxSaves
    BY <2>1 DEF Contents, Table, Types, Ranges, Saving
  <2> DEFINE old == alloc[w]
             new == alloc'[w]
             fields == data[w]
  <2> HIDE DEF w, b, old, new, fields
  <2>5. ASSUME pos = 0 PROVE Sound(new, fields)
    <3>1. k = b
      BY <1>2, <2>5
    <3> HIDE DEF k
    <3>2. \A i \in Field : new[i] = IF i = k THEN VALID ELSE old[i]
      BY <1>6, <2>2, <2>3 DEF old, new
    <3>3. Sound(old, fields) /\ Filled(fields, k, tag)
      BY <1>6, <2>4, <3>1 DEF old, fields
    <3>4. k + Length <= NData /\ \E v \in 1 .. MaxSaves : Filled(fields, k, v)
      BY <1>5, <2>4, <3>1, <3>3
    <3> QED
      BY <2>2, <3>2, <3>3, <3>4, SoundValid
  <2>6. ASSUME pos # 0 PROVE Sound(new, fields)
    <3>1. k # 0 /\ k - 1 = b + (pos - 1) /\ pos - 1 \in 0 .. pos - 1
      BY <1>2, <2>2, <2>6
    <3> HIDE DEF k
    <3>2. \A i \in Field : new[i] = IF i = k THEN VALID ELSE old[i]
      BY <1>6, <2>2, <2>3 DEF old, new
    <3>3. Sound(old, fields) /\ old[k - 1] = VALID
      BY <1>6, <2>4, <3>1 DEF old, fields, Marked
    <3> QED
      BY <2>2, <3>1, <3>2, <3>3, SoundValid
  <2>7. Sound(alloc'[w], data[w])
    BY <2>5, <2>6 DEF new, fields
  <2>8. (\A s \in Sector : Sound(alloc'[s], data'[s])) /\ WholeRead'
    BY <1>1, <1>4, <2>1, <2>7, ContentsKept DEF w
  <2> QED
    BY <1>1, <1>3, <2>1, <2>4, <2>8 DEF Contents
<1>9. CASE NVM_write
  <2>1. /\ pc = "write" /\ alloc' = alloc /\ pos \in 0 .. Length - 1 /\ pos' = pos + 1
        /\ k \in Field
        /\ \A i \in Field : data'[w][i] = IF i = k THEN Overwrite(data[w][i], tag)
                                          ELSE data[w][i]
    BY <1>2, <1>9, WriteEffect DEF NVM_write, Types
  <2>2. \A i \in 0 .. Length - 1 : data[w][b + i] = IF i < pos THEN tag ELSE Blank
    BY <2>1 DEF Contents
  <2>3. Claimed(alloc[w], b, Length)
    BY <2>1 DEF Table
  <2> DEFINE old == data[w]
             new == data'[w]
             states == alloc[w]
  <2>4. old[k] = Blank /\ states[k] # ERASED
    BY <2>1, <2>2, <2>3 DEF Claimed
  <2>5. new[k] = tag
    BY <2>1, <2>4 DEF Overwrite
  <2> HIDE DEF w, b, old, new, states
  <2>6. Sound(states, new)
    BY <1>6, <2>1, <2>4, SoundWritten DEF old, new, states
  <2>7. ASSUME NEW i \in 0 .. Length - 1
        PROVE  new[b + i] = IF i < pos + 1 THEN tag ELSE Blank
    <3>1. CASE i = pos
      BY <2>1, <2>5, <3>1
    <3>2. CASE i # pos
      <4>1. b + i # k
        BY <1>2, <2>1, <3>2
      <4>2. new[b + i] = old[b + i]
        BY <1>2, <2>1, <4>1 DEF old, new
      <4>3. i < pos + 1 <=> i < pos
        BY <2>1, <3>2
      <4> QED
        BY <2>2, <4>2, <4>3 DEF old
    <3> QED
      BY <3>1, <3>2
  <2>8. (\A s \in Sector : Sound(alloc'[s], data'[s])) /\ WholeRead'
    BY <1>1, <1>4, <2>1, <2>6, ContentsKept DEF w, new, states
  <2> QED
    BY <1>1, <1>3, <2>1, <2>7, <2>8 DEF Contents, new
<1> QED
  BY <1>7, <1>8, <1>9

LEMMA ContentsSaves ==
    ASSUME Types, Types', Contents, ~given_up',
           NVM_start_write \/ EraseForRoom \/ Allocated \/ NVM_commit \/ HalError
    PROVE  Contents'
<1> DEFINE w == write_sector
           b == Begin
<1>1. Saving \/ pc = "idle"
  BY DEF NVM_start_write, EraseForRoom, Allocated, NVM_commit, HalError, Saving
<1>2. ~Erasing /\ read_sector_' = read_sector_
  BY DEF NVM_start_write, EraseForRoom, Allocated, NVM_commit, HalError, Erasing, ram
<1>3. KeepsReadSector
  BY SaveKeepsReadSector DEF Save, Flip, NVM_start_write, EraseForRoom, Allocated, NVM_commit,
                             HalError
<1>4. w \in Sector /\ write_sector' = w /\ Sound(alloc[w], data[w])
  BY <1>2, Sectors DEF Types, Contents, write_sector
<1>5. CASE EraseForRoom
  <2>1. EraseFlash(w) /\ pc' \in {"idle", "allocate"}
    BY <1>5 DEF EraseForRoom, Erase, Allocate, Done
  <2>2. \A i \in Field : alloc'[w][i] = ERASED /\ data'[w][i] = Blank
    BY <1>4, <2>1, EraseEffect DEF Types
  <2>3. Sound(alloc'[w], data'[w])
    BY <2>2, SoundErased
  <2>4. (\A s \in Sector : Sound(alloc'[s], data'[s])) /\ WholeRead'
    BY <1>2, <1>3, <2>3, ContentsKept
  <2> QED
    BY <1>4, <2>1, <2>2, <2>4 DEF Contents
<1>6. CASE NVM_start_write \/ Allocated \/ NVM_commit \/ HalError
  <2>1. UNCHANGED <<alloc, data, index>> /\ Begin' = b
    BY <1>2, <1>6 DEF NVM_start_write, Allocated, NVM_commit, HalError, flash, ram, Begin,
                      write_sector
  <2>2. (\A s \in Sector : Sound(alloc'[s], data'[s])) /\ WholeRead'
    BY <1>2, <1>3, <1>4, <2>1, ContentsKept
  <2>3. CASE NVM_start_write
    <3>1. pc = "idle" /\ pc' \in {"erase", "allocate", "idle"}
      BY <2>3 DEF NVM_start_write, Allocate, Done
    <3> QED
      BY <1>2, <1>4, <2>1, <2>2, <3>1 DEF Contents
  <2>4. CASE Allocated
    <3>1. pc = "allocate" /\ pc' = "write" /\ pos' = 0
      BY <2>4 DEF Allocated
    <3>2. \A i \in 0 .. Length - 1 : b + i \in Field /\ b + i >= b /\ ~(i < 0)
      BY <3>1, BlockFields DEF Busy
    <3>3. \A i \in Field : i >= b => data[w][i] = Blank
      BY <1>2, <3>1 DEF Contents
    <3>4. \A i \in 0 .. Length - 1 : data[w][b + i] = Blank
      BY <3>2, <3>3
    <3> QED
      BY <1>4, <2>1, <2>2, <3>1, <3>2, <3>4 DEF Contents
  <2>5. CASE NVM_commit
    <3>1. pc = "write" /\ pc' = "mark" /\ pos = Length /\ tag' = tag
      BY <2>5 DEF NVM_commit
    <3>2. \A i \in 0 .. Length - 1 : i < Length
      BY SizeAssumption
    <3>3. Filled(data[w], b, tag)
      BY <3>1, <3>2 DEF Contents, Filled
    <3> QED
      BY <1>4, <2>1, <2>2, <3>1, <3>3 DEF Contents
  <2>6. CASE HalError
    <3>1. pc \in {"erase", "allocate"} /\ pc' = "idle"
      BY <2>6 DEF HalError, Done
    <3> QED
      BY <1>2, <1>4, <2>1, <2>2, <3>1 DEF Contents
  <2> QED
    BY <1>6, <2>3, <2>4, <2>5, <2>6
<1> QED
  BY <1>5, <1>6

\* the block that was marked becomes the one that is read
LEMMA ContentsFlip ==
    ASSUME Types, Table, Contents, Flip
    PROVE  Contents'
<1> DEFINE w == write_sector
           r == read_sector_
<1>1. /\ r \in Sector /\ w \in Sector /\ Begin \in Nat /\ Length \in Nat
  BY Sectors, SizeAssumption DEF Types
<1>2. /\ pc = "mark" /\ pc' = "retire" /\ alloc' = alloc /\ data' = data
      /\ read_sector_' = w /\ write_sector' = r /\ n_valid_' = Length
      /\ index'[r] = index[r] /\ index'[w] = Begin + Length
      /\ tag \in 1 .. MaxSaves
  BY FlipEffect
<1>3. (Begin + Length) - Length = Begin
  BY <1>1
<1>4. Filled(data[w], Begin, tag)
  BY <1>2 DEF Contents
<1>5. WholeRead'
  BY <1>2, <1>3, <1>4 DEF WholeRead
<1>6. Unused(alloc[r], index[r]) /\ Sound(alloc[r], data[r])
  BY <1>1, <1>2 DEF Table, Contents, Erasing
<1>7. \A i \in Field : i >= index[r] => data[r][i] = Blank
  BY <1>6 DEF Unused, Sound
<1> QED
  BY <1>2, <1>5, <1>7 DEF Contents, Begin

LEMMA ContentsRetire ==
    ASSUME Types, Types', Contents, Retire \/ RetireFails
    PROVE  Contents'
<1> DEFINE w == write_sector
<1>1. /\ w \in Sector /\ Begin \in Nat /\ TypeOK /\ NData \in Nat
  BY Sectors, SizeAssumption DEF Types
<1>2. /\ pc = "retire" /\ pc' = "idle" /\ read_sector_' = read_sector_ /\ ~Erasing
      /\ index' \in [Sector -> 0 .. NData]
  BY RetireEffect DEF Erasing
<1>3. KeepsReadSector
  BY SaveKeepsReadSector DEF Save, Flip, Retire, RetireFails
<1>4. write_sector' = w /\ index'[w] \in Nat
  BY <1>1, <1>2 DEF write_sector
<1>5. /\ \A i \in Field : i >= Begin => data[w][i] = Blank
      /\ Sound(alloc[w], data[w])
      /\ \A i \in Field : alloc[w][i] \in {VALID, INVALID, ERASED} /\ i \in Nat
  BY <1>1, <1>2 DEF Contents, TypeOK, Field
<1>6. /\ Sound(alloc'[w], data'[w])
      /\ \A i \in Field : i >= index'[w] => data'[w][i] = Blank
  <2>1. CASE /\ Begin + 1 < NData /\ index'[w] = Begin + 1 /\ UNCHANGED data
             /\ \A i \in Field : alloc'[w][i] = IF i = Begin THEN Lower(alloc[w][i], INVALID)
                                                ELSE alloc[w][i]
    <3>1. Begin \in Field
      BY <1>1, <2>1 DEF Field
    <3> HIDE DEF w
    <3>2. Sound(alloc'[w], data'[w])
      BY <1>5, <2>1, <3>1, SoundInvalid
    <3>3. \A i \in Field : i >= Begin + 1 => i >= Begin
      BY <1>1, <1>5
    <3> QED
      BY <1>5, <2>1, <3>2, <3>3
  <2>2. CASE EraseFlash(w)
    BY <1>1, <2>2, EraseEffect, SoundErased
  <2>3. CASE index'[w] >= Begin /\ UNCHANGED <<alloc, data>>
    <3>1. \A i \in Field : i >= index'[w] => i >= Begin
      BY <1>1, <1>4, <1>5, <2>3
    <3> QED
      BY <1>5, <2>3, <3>1
  <2> QED
    BY <1>1, <2>1, <2>2, <2>3, RetireEffect
<1>7. (\A s \in Sector : Sound(alloc'[s], data'[s])) /\ WholeRead'
  BY <1>2, <1>3, <1>6, ContentsKept
<1> QED
  BY <1>2, <1>4, <1>6, <1>7 DEF Contents, Begin

\* erase_configuration and resets
LEMMA ContentsErase ==
    ASSUME Types, Types', Contents, EraseConfiguration \/ Reset
    PROVE  Contents'
<1>1. \A s \in Sector : Sound(alloc'[s], data'[s])
  <2>1. CASE UNCHANGED flash
    BY <2>1 DEF flash, Contents
  <2>2. ASSUME NEW s \in Sector, EraseFlash(s), NEW r \in Sector PROVE Sound(alloc'[r], data'[r])
    <3>1. CASE r = s
      BY <2>2, <3>1, EraseEffect, SoundErased DEF Types
    <3>2. CASE r # s
      BY <2>2, <3>2 DEF EraseFlash, Contents
    <3> QED
      BY <3>1, <3>2
  <2> QED
    BY <2>1, <2>2 DEF EraseConfiguration, NVM_erase, EraseFirst, EraseSecond, Reset, Sector
<1>2. CASE NVM_erase \/ EraseFirst
  BY <1>1, <1>2 DEF NVM_erase, EraseFirst, Contents, WholeRead, Erasing
<1>3. CASE EraseSecond \/ Reset
  BY <1>1, <1>3, BootContents DEF EraseSecond, Reset
<1> QED
  BY <1>2, <1>3 DEF EraseConfiguration

LEMMA ContentsInit == Init => Contents
<1> SUFFICES ASSUME Init PROVE Contents
  OBVIOUS
<1>1. write_sector \in Sector
  BY DEF Init, write_sector, Sector
<1>2. \A s \in Sector : Sound(alloc[s], data[s])
  BY SoundErased DEF Init
<1>3. WholeRead
  BY SizeAssumption DEF Init, WholeRead
<1> QED
  BY <1>1, <1>2, <1>3 DEF Init, Contents

LEMMA ContentsStep ==
    Types /\ Types' /\ Table /\ [Next]_vars /\ (~given_up => Contents)
        => (~given_up' => Contents')
<1> SUFFICES ASSUME Types, Types', Table, [Next]_vars, ~given_up => Contents, ~given_up'
             PROVE  Contents'
  OBVIOUS
<1>1. ~given_up
  BY DEF Next, vars, Save, NVM_start_write, EraseForRoom, Invalidate, Allocated, NVM_write,
         NVM_commit, MarkValid, Flip, Retire, RetireFails, HalError, EraseConfiguration,
         NVM_erase, EraseFirst, EraseSecond, Reset, history
<1>2. CASE UNCHANGED vars
  BY <1>1, <1>2 DEF vars, Contents, WholeRead, Erasing, Begin, write_sector
<1> QED
  BY <1>1, <1>2, ContentsLoops, ContentsSaves, ContentsFlip, ContentsRetire, ContentsErase
     DEF Next, Save

THEOREM ContentsInvariant == Spec => [](~given_up => Contents)
<1>1. Init => (~given_up => Contents)
  BY ContentsInit
<1> QED
  BY <1>1, ContentsStep, TypesInvariant, TableInvariant, PTL DEF Spec

\* The allocation table alone keeps half written blocks from being read, for
\* every size of a sector and of a configuration, wherever resets interrupt the
\* saves: a run of valid fields begins with a block that was written whole.
THEOREM WholeBlocksHolds == Spec => []WholeBlocks
<1>1. ASSUME Types, ~given_up => Contents PROVE WholeBlocks
  <2> SUFFICES ASSUME ~Erasing, ~given_up, n_valid_ >= Length
               PROVE  \E v \in 1 .. MaxSaves :
                          Whole(Block(data, index, read_sector_, n_valid_), v)
    BY DEF WholeBlocks
  <2>1. PICK v \in 1 .. MaxSaves :
            Filled(data[read_sector_], index[read_sector_] - n_valid_, v)
    BY <1>1 DEF Contents, WholeRead
  <2>2. Whole(Block(data, index, read_sector_, n_valid_), v)
    BY <2>1 DEF Whole, Block, Filled
  <2> QED
    BY <2>2
<1> QED
  BY <1>1, TypesInvariant, ContentsInvariant, PTL

-----------------------------------------------------------------------------
(* What a boot finds in settled flash.                                     *)

\* the fields of a block that was committed are what load_configuration gets
LEMMA LoadsBlock ==
    ASSUME NEW d, NEW ix, NEW rs, NEW v \in 1 .. MaxSaves,
           Filled(d[rs], ix[rs] - Length, v)
    PROVE  Loaded(d, ix, rs, Length) = v
<1>1. Whole(Block(d, ix, rs, Length), v)
  BY DEF Whole, Block, Filled
<1>2. Block(d, ix, rs, Length)[0] = v
  BY <1>1, SizeAssumption DEF Whole
<1> QED
  BY <1>1, <1>2, SizeAssumption DEF Loaded

LEMMA LoadsNothing ==
    ASSUME NEW d, NEW ix, NEW rs
    PROVE  Loaded(d, ix, rs, 0) = 0
BY SizeAssumption DEF Loaded

\* A quiet sector ends with an invalid field.
LEMMA QuietEnd ==
    ASSUME NEW states \in [Field -> {VALID, INVALID, ERASED}], Quiet(states),
           NEW e \in 0 .. NData, Unused(states, e), e = 0 \/ states[e - 1] # ERASED
    PROVE  Closed(states, e) /\ NoneValid(states, e)
<1>1. NoneValid(states, e)
  BY DEF NoneValid, Unused, VALID, ERASED
<1>2. ASSUME e # 0 PROVE states[e - 1] = INVALID
  <2>1. e - 1 \in Field /\ \A j \in Field : j > e - 1 => j >= e
    BY <1>2, SizeAssumption DEF Field
  <2>2. states[e - 1] # VALID
    BY <2>1 DEF Quiet, Unused, INVALID, ERASED
  <2> QED
    BY <1>2, <2>1, <2>2
<1> QED
  BY <1>1, <1>2 DEF Closed

\* two ends of what is programmed are the same, if a field is there
LEMMA SameEnd ==
    ASSUME NEW states, NEW e \in 0 .. NData, NEW f \in 0 .. NData,
           Unused(states, e), Unused(states, f),
           e = 0 \/ states[e - 1] # ERASED, f = 0 \/ states[f - 1] # ERASED
    PROVE  e = f
<1>1. \A x \in 0 .. NData : x # 0 => x - 1 \in Field
  BY SizeAssumption DEF Field
<1>2. ASSUME e < f PROVE FALSE
  <2>1. f # 0 /\ f - 1 >= e
    BY <1>2, SizeAssumption
  <2> QED
    BY <1>1, <2>1 DEF Unused
<1>3. ASSUME f < e PROVE FALSE
  <2>1. e # 0 /\ e - 1 >= f
    BY <1>3, SizeAssumption
  <2> QED
    BY <1>1, <2>1 DEF Unused
<1> QED
  BY <1>2, <1>3, SizeAssumption

\* a block at the end of what is programmed: where NVM_init sees it begin
LEMMA BlockEnd ==
    ASSUME NEW states, NEW fields, NEW e \in 0 .. NData, NEW v, BlockAt(states, fields, e, v)
    PROVE  /\ e # 0 /\ states[e - 1] = VALID
           /\ Scan(states, e, VALID) = e - Length
           /\ Filled(fields, e - Length, v)
<1>1. /\ e \in Nat /\ Length \in Nat \ {0} /\ e >= Length
      /\ Marked(states, e - Length, Length)
      /\ e = Length \/ states[e - Length - 1] # VALID
  BY SizeAssumption DEF BlockAt
<1>2. ASSUME NEW j \in e - Length .. e - 1 PROVE states[j] = VALID
  <2>1. j - (e - Length) \in 0 .. Length - 1 /\ (e - Length) + (j - (e - Length)) = j
    BY <1>1
  <2> QED
    BY <1>1, <2>1 DEF Marked
<1>3. e - Length \in 0 .. e /\ e - 1 \in e - Length .. e - 1 /\ e # 0
  BY <1>1
<1>4. e - Length = 0 \/ states[(e - Length) - 1] # VALID
  BY <1>1
<1> DEFINE p == e - Length
<1> HIDE DEF p
<1>5. Scan(states, e, VALID) = p
  <2>1. p \in 0 .. e /\ (\A j \in p .. e - 1 : states[j] = VALID)
        /\ (p = 0 \/ states[p - 1] # VALID)
    BY <1>2, <1>3, <1>4 DEF p
  <2> QED
    BY <1>1, <2>1, ScanIs
<1> QED
  BY <1>2, <1>3, <1>5 DEF p, BlockAt

\* NVM_init finds the configuration that settled flash holds.
LEMMA BootSettled ==
    ASSUME Types, Types', NEW v \in 0 .. MaxSaves, v \in Outcomes, Boot,
           SettledFlash(alloc', data', v)
    PROVE  latest' = v /\ Settled'
<1> DEFINE r == read_sector_'
           w == write_sector'
           T == {VALID, INVALID, ERASED}
<1>1. alloc' \in AllocType /\ \A s \in Sector : alloc'[s] \in [Field -> T]
  BY DEF Types, TypeOK, AllocType
<1>2. /\ pc' = "idle" /\ r \in Sector /\ index' \in [Sector -> 0 .. NData]
      /\ r = 1 <=> index'[1] # 0 /\ alloc'[1][index'[1] - 1] = VALID
      /\ n_valid_' = index'[r] - Scan(alloc'[r], index'[r], VALID)
  BY <1>1, InitFinds DEF Boot
<1>3. ASSUME NEW s \in Sector
      PROVE  /\ index'[s] \in 0 .. NData /\ Unused(alloc'[s], index'[s])
             /\ index'[s] = 0 \/ alloc'[s][index'[s] - 1] # ERASED
  BY <1>1, <1>2, InitFinds DEF Boot
<1>4. w = 1 - r /\ w \in Sector
  <2>1. w = 1 - r
    BY DEF write_sector
  <2> HIDE DEF w, r
  <2> QED
    BY <1>2, <2>1 DEF Sector
<1>5. Loaded(data', index', r, n_valid_') = v => latest' = v
  BY DEF Boot
<1> HIDE DEF r, w, T
<1>6. ASSUME NEW s \in Sector, Quiet(alloc'[s])
      PROVE  /\ Closed(alloc'[s], index'[s]) /\ NoneValid(alloc'[s], index'[s])
             /\ ~(index'[s] # 0 /\ alloc'[s][index'[s] - 1] = VALID)
  <2>1. Closed(alloc'[s], index'[s]) /\ NoneValid(alloc'[s], index'[s])
    BY <1>1, <1>3, <1>6, QuietEnd DEF T
  <2> QED
    BY <2>1 DEF Closed, VALID, INVALID
<1>7. CASE v = 0
  <2>1. \A s \in Sector : Quiet(alloc'[s])
    BY <1>7 DEF SettledFlash
  <2> DEFINE e == index'[r]
  <2>2. /\ e \in 0 .. NData /\ e \in Nat
        /\ Closed(alloc'[r], e) /\ Quiet(alloc'[r])
    BY <1>2, <1>6, <2>1, SizeAssumption
  <2> HIDE DEF e
  <2>3. Scan(alloc'[r], e, VALID) = e
    <3>1. e = 0 \/ alloc'[r][e - 1] # VALID
      BY <2>2 DEF Closed, VALID, INVALID
    <3>2. e \in 0 .. e /\ \A j \in e .. e - 1 : alloc'[r][j] = VALID
      BY <2>2
    <3> QED
      BY <2>2, <3>1, <3>2, ScanIs
  <2>4. n_valid_' = 0
    BY <1>2, <2>2, <2>3 DEF e
  <2>5. latest' = 0
    BY <1>5, <1>7, <2>4, LoadsNothing
  <2>6. Closed(alloc'[w], index'[w]) /\ NoneValid(alloc'[w], index'[w])
    BY <1>4, <1>6, <2>1
  <2>7. SettledRead'
    BY <2>2, <2>4, <2>5 DEF SettledRead, r
  <2>8. SettledWrite'
    BY <1>2, <2>6 DEF SettledWrite, Begin, w
  <2> QED
    BY <1>2, <1>7, <2>5, <2>7, <2>8 DEF Settled
<1>8. CASE v # 0
  <2>1. PICK s \in Sector : Holds(alloc'[s], data'[s], v) /\ Quiet(alloc'[1 - s])
    BY <1>8 DEF SettledFlash
  <2>2. PICK e \in 0 .. NData : Unused(alloc'[s], e) /\ BlockAt(alloc'[s], data'[s], e, v)
    BY <2>1 DEF Holds
  <2>3. /\ e # 0 /\ alloc'[s][e - 1] = VALID
        /\ Scan(alloc'[s], e, VALID) = e - Length
        /\ Filled(data'[s], e - Length, v)
    BY <2>2, BlockEnd
  <2>4. index'[s] = e
    BY <1>3, <2>2, <2>3, SameEnd DEF VALID, ERASED
  <2>5. 1 - s \in Sector
    BY DEF Sector
  <2>6. r = s
    <3>1. CASE s = 1
      BY <1>2, <2>3, <2>4, <3>1
    <3>2. CASE s = 0
      BY <1>2, <1>6, <2>1, <2>5, <3>2 DEF Sector
    <3> QED
      BY <3>1, <3>2 DEF Sector
  <2>7. n_valid_' = Length
    BY <1>2, <2>3, <2>4, <2>6, SizeAssumption
  <2>8. v \in 1 .. MaxSaves
    BY <1>8, BoundAssumption
  <2>9. latest' = v
    BY <1>5, <2>3, <2>4, <2>6, <2>7, <2>8, LoadsBlock
  <2>10. Closed(alloc'[w], index'[w]) /\ NoneValid(alloc'[w], index'[w])
    BY <1>4, <1>6, <2>1, <2>5, <2>6
  <2>11. SettledRead'
    BY <1>8, <2>2, <2>4, <2>6, <2>7, <2>9 DEF SettledRead, r
  <2>12. SettledWrite'
    BY <1>2, <2>10 DEF SettledWrite, Begin, w
  <2> QED
    BY <1>2, <2>9, <2>11, <2>12 DEF Settled
<1> QED
  BY <1>7, <1>8

\* Wherever a reset interrupts a save, before its last field is valid, the
\* flash still holds the latest configuration.
LEMMA SettledSectors ==
    ASSUME Types, Table, Settled, ~Erasing, pc # "retire", ~(pc = "mark" /\ pos = Length)
    PROVE  SettledFlash(alloc, data, latest)
<1> DEFINE w == write_sector
           r == read_sector_
           b == Begin
           states == alloc[w]
<1>1. /\ w \in Sector /\ r \in Sector /\ w = 1 - r /\ b \in 0 .. NData
      /\ index[r] \in 0 .. NData /\ \A i \in Field : states[i] \in {VALID, INVALID, ERASED}
  BY Sectors DEF Types, TypeOK, write_sector
<1>2. /\ Closed(states, b)
      /\ NoneValid(states, IF pc = "mark" THEN b + pos ELSE b)
  BY DEF Settled, SettledWrite
<1>3. ASSUME NEW i \in Field, states[i] = VALID
      PROVE  \E j \in Field : j > i /\ states[j] = INVALID
  <2> HIDE DEF w, r, b, states
  <2>1. i \in Nat /\ NData \in Nat /\ Length \in Nat \ {0} /\ b \in Nat
    BY <1>1, SizeAssumption DEF Field
  <2>2. CASE i < b
    <3>1. states[b - 1] = INVALID /\ b - 1 \in Field
      BY <1>1, <1>2, <2>1, <2>2 DEF Closed, Field
    <3>2. b - 1 # i
      BY <1>3, <3>1 DEF VALID, INVALID
    <3>3. b - 1 > i
      BY <2>1, <2>2, <3>2
    <3> QED
      BY <3>1, <3>3
  <2>3. CASE i >= b
    <3>1. pc = "mark" /\ i < b + pos /\ pos \in Nat
      <4>1. pc = "mark" /\ ~(i >= b + pos)
        BY <1>2, <1>3, <2>3 DEF NoneValid
      <4>2. pos \in Nat
        BY <2>1 DEF Types, TypeOK
      <4> QED
        BY <2>1, <4>1, <4>2
    <3>2. pos < Length /\ b + Length < NData
      <4>1. b + Length < NData /\ pos # Length /\ pos \in 0 .. Length
        BY <3>1 DEF Types, TypeOK, Ranges, Busy, b
      <4> QED
        BY <2>1, <3>1, <4>1
    <3> DEFINE j == b + (Length - 1)
    <3>3. /\ Length - 1 \in 0 .. Length - 1 /\ j \in Field /\ j > i /\ j >= b + pos
      BY <2>1, <3>1, <3>2 DEF Field
    <3>4. states[j] # ERASED
      BY <3>1, <3>3 DEF Table, Claimed, w, b, states
    <3>5. NoneValid(states, b + pos)
      BY <1>2, <3>1
    <3> HIDE DEF j
    <3>6. states[j] # VALID
      BY <3>3, <3>5 DEF NoneValid
    <3> QED
      BY <1>1, <3>3, <3>4, <3>6
  <2> QED
    BY <2>1, <2>2, <2>3
<1>4. Quiet(alloc[w])
  BY <1>3 DEF Quiet
<1>5. CASE latest = 0
  <2>1. Quiet(alloc[r])
    BY <1>5 DEF Settled, SettledRead
  <2>2. \A s \in Sector : s = r \/ s = w
    BY Sectors DEF Types
  <2> QED
    BY <1>4, <1>5, <2>1, <2>2 DEF SettledFlash
<1>6. CASE latest # 0
  <2>1. BlockAt(alloc[r], data[r], index[r], latest) /\ Unused(alloc[r], index[r])
    BY <1>6 DEF Settled, SettledRead, Table
  <2>2. Holds(alloc[r], data[r], latest)
    BY <1>1, <2>1 DEF Holds
  <2> HIDE DEF r
  <2>3. Quiet(alloc[1 - r])
    BY <1>1, <1>4
  <2> QED
    BY <1>1, <1>6, <2>2, <2>3 DEF SettledFlash
<1> QED
  BY <1>5, <1>6

-----------------------------------------------------------------------------
(* Settled saves.                                                          *)

LEMMA SettledReadKept ==
    ASSUME Types, Types', SettledRead, KeepsReadSector, UNCHANGED latest
    PROVE  SettledRead'
<1>1. data'[read_sector_] = data[read_sector_] /\ alloc'[read_sector_] = alloc[read_sector_]
  BY KeptReadSector
<1> QED
  BY <1>1 DEF SettledRead, KeepsReadSector

\* the steps of a save up to its commit
LEMMA SettledSaves ==
    ASSUME Types, Types', Settled, ~given_up',
           \/ NVM_start_write \/ EraseForRoom \/ Invalidate \/ Allocated \/ NVM_write
           \/ NVM_commit \/ MarkValid \/ HalError
    PROVE  Settled'
<1> DEFINE w == write_sector
           b == Begin
<1>1. /\ ~Erasing /\ pc # "retire" /\ UNCHANGED <<latest, read_sector_>>
      /\ pc' \in {"idle", "erase", "allocate", "write", "mark"}
  BY DEF NVM_start_write, EraseForRoom, Invalidate, Allocated, NVM_write, NVM_commit, MarkValid,
         HalError, Erasing, history, ram, Allocate, Done
<1>2. KeepsReadSector
  BY SaveKeepsReadSector DEF Save, Flip, NVM_start_write, EraseForRoom, Invalidate, Allocated,
         NVM_write, NVM_commit, MarkValid, HalError
<1>3. SettledRead'
  BY <1>1, <1>2, SettledReadKept DEF Settled
<1>4. /\ w \in Sector /\ write_sector' = w /\ TypeOK /\ b \in 0 .. NData
      /\ Length \in Nat \ {0} /\ NData \in Nat /\ b \in Nat
  BY <1>1, Sectors, SizeAssumption DEF Types, write_sector
<1>5. Closed(alloc[w], b) /\ NoneValid(alloc[w], IF pc = "mark" THEN b + pos ELSE b)
  BY <1>1 DEF Settled, SettledWrite
<1>6. SettledWrite'
  <2>1. CASE EraseForRoom
    <3>1. EraseFlash(w) /\ index' = [index EXCEPT ![w] = 0] /\ pc' # "mark"
      BY <2>1 DEF EraseForRoom, Erase, Allocate, Done
    <3>2. index'[w] = 0 /\ \A i \in Field : alloc'[w][i] = ERASED
      BY <1>4, <3>1, EraseEffect DEF TypeOK
    <3>3. Closed(alloc'[w], 0) /\ NoneValid(alloc'[w], 0)
      BY <3>2 DEF Closed, NoneValid, VALID, ERASED
    <3> QED
      BY <1>4, <3>1, <3>2, <3>3 DEF SettledWrite, Begin
  <2>2. CASE NVM_start_write \/ Allocated \/ NVM_write \/ NVM_commit \/ HalError
    <3>1. UNCHANGED <<alloc, index>> /\ Begin' = b
      BY <1>1, <2>2 DEF NVM_start_write, Allocated, NVM_write, NVM_commit, HalError, flash, ram,
                        Begin, write_sector
    <3>2. pc # "mark" /\ (pc' = "mark" => pos' = 0)
      BY <2>2 DEF NVM_start_write, Allocated, NVM_write, NVM_commit, HalError, Allocate, Done
    <3>3. b + 0 = b
      BY <1>4
    <3> HIDE DEF b
    <3> QED
      BY <1>4, <1>5, <3>1, <3>2, <3>3 DEF SettledWrite
  <2>3. CASE Invalidate \/ MarkValid
    <3> DEFINE to == IF pc = "mark" THEN VALID ELSE INVALID
               k == b + pos
    <3>1. SetState(Length, to) /\ to \in {VALID, INVALID} /\ UNCHANGED <<pc, index>>
          /\ pc \in {"allocate", "mark"} /\ b + Length < NData
      BY <2>3 DEF Invalidate, MarkValid, Types, Ranges, Busy, ram
    <3>2. b + Length <= NData /\ Length \in 0 .. Length
      BY <1>4, <3>1
    <3>3. /\ pos \in Nat /\ pos' = pos + 1 /\ k \in Field
          /\ \A i \in Field : alloc'[w][i] = IF i = k THEN Lower(alloc[w][i], to)
                                             ELSE alloc[w][i]
      BY <1>4, <3>1, <3>2, SetStateEffect
    <3>4. Begin' = b
      BY <1>1, <3>1 DEF Begin, write_sector
    <3>5. \A i \in Field : alloc[w][i] \in {VALID, INVALID, ERASED} /\ i \in Nat
      BY <1>4 DEF TypeOK, Field
    <3> DEFINE old == alloc[w]
               new == alloc'[w]
    <3> HIDE DEF w, b, old, new
    <3>6. Closed(new, b)
      <4>1. b # 0 => b - 1 \in Field /\ b - 1 # k
        BY <1>4, <3>3 DEF Field
      <4> QED
        BY <1>5, <3>3, <4>1 DEF Closed, old, new
    <3>7. CASE pc = "mark"
      <4>1. \A i \in Field : i >= b + (pos + 1) => i >= b + pos /\ i # k
        BY <1>4, <3>3, <3>5
      <4>2. NoneValid(new, b + (pos + 1))
        BY <1>5, <3>3, <3>7, <4>1 DEF NoneValid, old, new
      <4> QED
        BY <1>4, <3>1, <3>3, <3>4, <3>6, <3>7, <4>2 DEF SettledWrite, new, w
    <3>8. CASE pc # "mark"
      <4>1. to = INVALID
        BY <3>8
      <4>2. \A a \in {VALID, INVALID, ERASED} : a # VALID => Lower(a, to) # VALID
        BY <4>1 DEF Lower, VALID, INVALID, ERASED
      <4> HIDE DEF to
      <4>3. NoneValid(new, b)
        BY <1>5, <3>3, <3>5, <3>8, <4>2 DEF NoneValid, old, new
      <4> QED
        BY <1>4, <3>1, <3>4, <3>6, <3>8, <4>3 DEF SettledWrite, new, w
    <3> QED
      BY <3>7, <3>8
  <2> QED
    BY <2>1, <2>2, <2>3
<1> QED
  BY <1>1, <1>3, <1>6 DEF Settled, Erasing

\* a commit: the block that was marked is the latest one
LEMMA SettledFlip ==
    ASSUME Types, Table, Contents, Settled, Flip
    PROVE  Settled'
<1> DEFINE w == write_sector
           b == Begin
<1>1. w \in Sector /\ b \in Nat /\ Length \in Nat \ {0}
  BY Sectors, SizeAssumption DEF Types
<1>2. /\ pc = "mark" /\ pc' = "retire" /\ pos = Length /\ tag \in 1 .. MaxSaves
      /\ alloc' = alloc /\ data' = data /\ read_sector_' = w
      /\ index'[w] = b + Length /\ n_valid_' = Length /\ latest' = tag
  BY FlipEffect
<1>3. Marked(alloc[w], b, Length) /\ Filled(data[w], b, tag) /\ Closed(alloc[w], b)
  BY <1>2 DEF Table, Contents, Settled, SettledWrite, Erasing
<1> DEFINE e == b + Length
<1>4. e >= Length /\ e - Length = b /\ (e = Length <=> b = 0)
  BY <1>1
<1> HIDE DEF w, b, e
<1>5. b = 0 \/ alloc[w][b - 1] # VALID
  BY <1>3 DEF Closed, VALID, INVALID
<1>6. BlockAt(alloc[w], data[w], e, tag)
  BY <1>3, <1>4, <1>5 DEF BlockAt
<1>7. latest' # 0
  BY <1>2
<1>8. SettledRead'
  BY <1>2, <1>6, <1>7 DEF SettledRead, e
<1> QED
  BY <1>2, <1>8 DEF Settled

\* the retirement of the old block closes its sector
LEMMA SettledRetire ==
    ASSUME Types, Types', Table, Settled, Retire \/ RetireFails, ~interrupted'
    PROVE  Settled'
<1> DEFINE w == write_sector
           b == Begin
<1>1. w \in Sector /\ b \in 0 .. NData /\ b \in Nat /\ NData \in Nat /\ TypeOK
  BY Sectors, SizeAssumption DEF Types
<1>2. /\ pc = "retire" /\ pc' = "idle" /\ UNCHANGED <<latest, read_sector_>> /\ ~Erasing
  BY RetireEffect DEF Erasing
<1>3. KeepsReadSector
  BY SaveKeepsReadSector DEF Save, Flip, Retire, RetireFails
<1>4. SettledRead'
  BY <1>2, <1>3, SettledReadKept DEF Settled
<1>5. write_sector' = w /\ Unused(alloc[w], b)
  BY <1>2 DEF write_sector, Table
<1>6. \/ /\ b + 1 < NData /\ index'[w] = b + 1
         /\ \A i \in Field : alloc'[w][i] = IF i = b THEN Lower(alloc[w][i], INVALID)
                                            ELSE alloc[w][i]
      \/ index'[w] = 0 /\ EraseFlash(w)
  BY <1>1, RetireEffect
<1>7. Closed(alloc'[w], index'[w]) /\ NoneValid(alloc'[w], index'[w])
  <2>1. CASE /\ b + 1 < NData /\ index'[w] = b + 1
             /\ \A i \in Field : alloc'[w][i] = IF i = b THEN Lower(alloc[w][i], INVALID)
                                                ELSE alloc[w][i]
    <3> HIDE DEF w, b
    <3>1. b \in Field /\ (b + 1) - 1 = b /\ b + 1 # 0
      BY <1>1, <2>1 DEF Field
    <3>2. alloc[w][b] = ERASED
      BY <1>1, <1>5, <3>1 DEF Unused
    <3>3. alloc'[w][b] = INVALID
      BY <2>1, <3>1, <3>2 DEF Lower, INVALID, ERASED
    <3>4. \A i \in Field : i >= b + 1 => i >= b /\ i # b
      BY <1>1 DEF Field
    <3> QED
      BY <1>5, <2>1, <3>1, <3>3, <3>4 DEF Closed, NoneValid, Unused, VALID, ERASED
  <2>2. CASE index'[w] = 0 /\ EraseFlash(w)
    <3>1. \A i \in Field : alloc'[w][i] = ERASED
      BY <1>1, <2>2, EraseEffect
    <3> QED
      BY <2>2, <3>1 DEF Closed, NoneValid, VALID, ERASED
  <2> QED
    BY <1>6, <2>1, <2>2
<1>8. SettledWrite'
  BY <1>2, <1>5, <1>7 DEF SettledWrite, Begin
<1> QED
  BY <1>2, <1>4, <1>8 DEF Settled

\* erase_configuration leaves a configuration, or nothing
LEMMA SettledErased ==
    ASSUME Types, NEW s \in Sector, EraseFlash(s),
           NEW v, SettledFlash(alloc, data, v)
    PROVE  SettledFlash(alloc', data', v) \/ SettledFlash(alloc', data', 0)
<1>1. Quiet(alloc'[s])
  <2>1. \A i \in Field : alloc'[s][i] = ERASED
    BY EraseEffect DEF Types
  <2> QED
    BY <2>1 DEF Quiet, VALID, ERASED
<1>2. \A r \in Sector : r # s => alloc'[r] = alloc[r] /\ data'[r] = data[r]
  BY DEF EraseFlash, Types, TypeOK
<1>3. CASE \A r \in Sector : r # s => Quiet(alloc[r])
  BY <1>1, <1>2, <1>3 DEF SettledFlash
<1>4. CASE \E r \in Sector : r # s /\ ~Quiet(alloc[r])
  <2>1. PICK r \in Sector : r # s /\ ~Quiet(alloc[r])
    BY <1>4
  <2>2. v # 0
    BY <2>1 DEF SettledFlash
  <2>3. PICK h \in Sector : Holds(alloc[h], data[h], v) /\ Quiet(alloc[1 - h])
    BY <2>2 DEF SettledFlash
  <2>4. h = r /\ 1 - r = s
    BY <2>1, <2>3 DEF Sector
  <2> QED
    BY <1>1, <1>2, <2>1, <2>2, <2>3, <2>4 DEF SettledFlash
<1> QED
  BY <1>3, <1>4

LEMMA SettledErase ==
    ASSUME Types, Types', Table, Settled, ~interrupted', EraseConfiguration \/ Reset
    PROVE  Settled'
<1>1. latest \in 0 .. MaxSaves /\ 0 \in 0 .. MaxSaves /\ latest \in Outcomes
  BY BoundAssumption DEF Types, TypeOK, Outcomes
<1>2. CASE NVM_erase
  <2>1. SettledFlash(alloc, data, latest)
    BY <1>2, SettledSectors DEF NVM_erase, Erasing
  <2>2. pc' = "erase0" /\ UNCHANGED <<alloc, data, latest>>
    BY <1>2 DEF NVM_erase, flash, history
  <2> QED
    BY <2>1, <2>2 DEF Settled, Erasing
<1>3. CASE EraseFirst
  <2>1. pc = "erase0" /\ pc' = "erase1" /\ UNCHANGED latest
    BY <1>3 DEF EraseFirst, history
  <2>2. SettledFlash(alloc, data, latest)
    BY <2>1 DEF Settled
  <2>3. CASE EraseFlash(0)
    <3>1. 0 \in Sector
      BY DEF Sector
    <3>2. SettledFlash(alloc', data', latest) \/ SettledFlash(alloc', data', 0)
      BY <2>2, <2>3, <3>1, SettledErased
    <3> QED
      BY <2>1, <3>2 DEF Settled, Erasing
  <2>4. CASE UNCHANGED flash
    BY <2>1, <2>2, <2>4 DEF Settled, Erasing, flash
  <2> QED
    BY <1>3, <2>3, <2>4 DEF EraseFirst
<1>4. CASE EraseSecond
  <2>1. pc = "erase1" /\ Boot
    BY <1>4 DEF EraseSecond
  <2>2. SettledFlash(alloc, data, latest) \/ SettledFlash(alloc, data, 0)
    BY <2>1 DEF Settled
  <2>3. 0 \in Outcomes
    BY <2>1 DEF Outcomes
  <2>4. SettledFlash(alloc', data', latest) \/ SettledFlash(alloc', data', 0)
    <3>1. CASE UNCHANGED flash
      BY <2>2, <3>1 DEF flash
    <3>2. CASE EraseFlash(1)
      <4>1. 0 \in Sector /\ 1 \in Sector
        BY DEF Sector
      <4> QED
        BY <2>2, <3>2, <4>1, SettledErased
    <3> QED
      BY <1>4, <3>1, <3>2 DEF EraseSecond
  <2> QED
    BY <1>1, <2>1, <2>3, <2>4, BootSettled
<1>5. CASE Reset
  <2>1. /\ Boot /\ UNCHANGED <<alloc, data>>
        /\ pc # "retire" /\ ~(pc = "mark" /\ pos = n_staging_area_)
    BY <1>5 DEF Reset, flash
  <2>2. pc = "mark" => n_staging_area_ = Length
    BY DEF Types, Ranges
  <2>3. \/ SettledFlash(alloc, data, latest)
        \/ pc = "erase1" /\ SettledFlash(alloc, data, 0)
    <3>1. CASE Erasing
      BY <3>1 DEF Settled, Erasing
    <3>2. CASE ~Erasing
      BY <2>1, <2>2, <3>2, SettledSectors
    <3> QED
      BY <3>1, <3>2
  <2>4. PICK v \in {latest, 0} : v \in Outcomes /\ SettledFlash(alloc, data, v)
    <3>1. pc = "erase1" => 0 \in Outcomes
      BY DEF Outcomes
    <3> QED
      BY <1>1, <2>3, <3>1
  <2>5. v \in 0 .. MaxSaves /\ SettledFlash(alloc', data', v)
    BY <1>1, <2>1, <2>4
  <2> QED
    BY <2>1, <2>4, <2>5, BootSettled
<1> QED
  BY <1>2, <1>3, <1>4, <1>5 DEF EraseConfiguration

LEMMA SettledInit == Init => Settled
<1> SUFFICES ASSUME Init PROVE Settled
  OBVIOUS
<1>1. /\ pc = "idle" /\ latest = 0 /\ n_valid_ = 0 /\ read_sector_ = 0
      /\ \A s \in Sector : index[s] = 0 /\ \A i \in Field : alloc[s][i] = ERASED
  BY DEF Init
<1>2. write_sector \in Sector /\ read_sector_ \in Sector
  BY <1>1 DEF write_sector, Sector
<1>3. SettledRead
  BY <1>1, <1>2 DEF SettledRead, Quiet, VALID, ERASED
<1>4. SettledWrite
  BY <1>1, <1>2 DEF SettledWrite, Begin, Closed, NoneValid, VALID, ERASED
<1> QED
  BY <1>1, <1>3, <1>4 DEF Settled

\* what a settled save needs, once lost, is lost for good
LEMMA SettledStep ==
    ASSUME Types, Types', Table, ~given_up => Contents, [Next]_vars,
           ~given_up /\ ~interrupted => Settled, ~given_up', ~interrupted'
    PROVE  Settled'
<1>1. ~given_up /\ ~interrupted
  <2>1. given_up \in BOOLEAN /\ interrupted \in BOOLEAN
    BY DEF Types, TypeOK
  <2>2. CASE EraseConfiguration \/ UNCHANGED vars
    BY <2>2 DEF EraseConfiguration, NVM_erase, EraseFirst, EraseSecond, history, vars
  <2>3. CASE Reset
    BY <2>1, <2>3 DEF Reset
  <2>4. CASE Retire \/ RetireFails
    <3>1. given_up' = given_up
      BY <2>4 DEF Retire, RetireFails
    <3>2. interrupted' = interrupted \/ interrupted'
      BY <2>1, <2>4 DEF Retire, RetireFails
    <3> QED
      BY <2>1, <3>1, <3>2
  <2>5. CASE HalError
    BY <2>1, <2>5 DEF HalError
  <2>6. CASE \/ NVM_start_write \/ EraseForRoom \/ Invalidate \/ Allocated \/ NVM_write
             \/ NVM_commit \/ MarkValid \/ Flip
    BY <2>6 DEF NVM_start_write, EraseForRoom, Invalidate, Allocated, NVM_write, NVM_commit,
                MarkValid, Flip, history
  <2> QED
    BY <2>2, <2>3, <2>4, <2>5, <2>6 DEF Next, Save
<1>2. Settled /\ Contents
  BY <1>1
<1>3. CASE \/ NVM_start_write \/ EraseForRoom \/ Invalidate \/ Allocated \/ NVM_write
           \/ NVM_commit \/ MarkValid \/ HalError
  BY <1>2, <1>3, SettledSaves
<1>4. CASE Flip
  BY <1>2, <1>4, SettledFlip
<1>5. CASE Retire \/ RetireFails
  BY <1>2, <1>5, SettledRetire
<1>6. CASE EraseConfiguration \/ Reset
  BY <1>2, <1>6, SettledErase
<1>7. CASE UNCHANGED vars
  BY <1>2, <1>7 DEF vars, Settled, SettledRead, SettledWrite, Erasing, Begin, write_sector
<1> QED
  BY <1>3, <1>4, <1>5, <1>6, <1>7 DEF Next, Save

\* As long as every commit has retired the old block and no save failed after
\* it had begun to write, the flash holds the latest configuration and nothing
\* that NVM_init could take for it, whatever a reset interrupts.
THEOREM SettledInvariant == Spec => [](~given_up /\ ~interrupted => Settled)
<1>1. Init => (~given_up /\ ~interrupted => Settled)
  BY SettledInit
<1>2. /\ Types /\ Types' /\ Table /\ (~given_up => Contents)
      /\ (~given_up /\ ~interrupted => Settled) /\ [Next]_vars
      => (~given_up /\ ~interrupted => Settled)'
  BY SettledStep
<1> QED
  BY <1>1, <1>2, TypesInvariant, TableInvariant, ContentsInvariant, PTL DEF Spec

\* "Reads from the latest committed block" (nvm.c:264), under the same
\* conditions, before and after any reset.
THEOREM SettledReadsLatestHolds == Spec => []SettledReadsLatest
<1>1. Types /\ (~given_up /\ ~interrupted => Settled) => SettledReadsLatest
  <2> SUFFICES ASSUME Types, Settled, ~Erasing PROVE Readable = latest
    BY DEF SettledReadsLatest, ReadsLatestBlock
  <2>1. SettledRead
    BY DEF Settled
  <2>2. CASE latest = 0
    BY <2>1, <2>2, LoadsNothing DEF SettledRead, Readable
  <2>3. CASE latest # 0
    <3>1. latest \in 1 .. MaxSaves
      BY <2>3, BoundAssumption DEF Types, TypeOK
    <3>2. n_valid_ = Length /\ Filled(data[read_sector_], index[read_sector_] - Length, latest)
      BY <2>1, <2>3 DEF SettledRead, BlockAt
    <3> QED
      BY <3>1, <3>2, LoadsBlock DEF Readable
  <2> QED
    BY <2>2, <2>3
<1> QED
  BY <1>1, TypesInvariant, SettledInvariant, PTL
-----------------------------------------------------------------------------
(* The last field of a sector.                                             *)

LastErased(states) == states[NData - 1] = ERASED

\* It is never programmed, so the sector that a commit leaves has room for the
\* field that retires its block.
SectorNeverFull ==
    /\ \A s \in Sector : LastErased(alloc[s])
    /\ ~Erasing => index[read_sector_] < NData
    /\ pc = "retire" => Begin < NData

LEMMA NeverFullErased ==
    ASSUME Types, SectorNeverFull, NEW r \in Sector, EraseFlash(r)
    PROVE  \A s \in Sector : LastErased(alloc'[s])
<1>1. NData - 1 \in Field
  BY SizeAssumption DEF Field
<1> QED
  BY <1>1, EraseEffect DEF Types, SectorNeverFull, LastErased

LEMMA NeverFullSave ==
    ASSUME Types, SectorNeverFull, Save, ~Flip
    PROVE  SectorNeverFull'
<1>1. KeepsReadSector /\ ~Erasing /\ pc' # "retire"
  BY SaveKeepsReadSector
     DEF Save, Erasing, NVM_start_write, EraseForRoom, Invalidate, Allocated, NVM_write,
         NVM_commit, MarkValid, Retire, RetireFails, HalError, Allocate, Done
<1>2. index'[read_sector_'] < NData
  BY <1>1 DEF KeepsReadSector, SectorNeverFull
<1>3. /\ write_sector \in Sector /\ Begin \in 0 .. NData /\ NData - 1 \in Field
      /\ Length \in Nat \ {0} /\ NData \in Nat
  BY Sectors, SizeAssumption DEF Types, Field
<1>4. \A s \in Sector : LastErased(alloc'[s])
  <2>1. CASE \/ NVM_start_write \/ Allocated \/ NVM_write \/ NVM_commit \/ HalError
             \/ RetireFails
    BY <2>1 DEF NVM_start_write, Allocated, NVM_write, NVM_commit, HalError, RetireFails, flash,
                SectorNeverFull
  <2>2. CASE EraseForRoom
    BY <1>3, <2>2, NeverFullErased DEF EraseForRoom, Erase
  <2>3. CASE Invalidate \/ MarkValid
    <3>1. PICK to \in {VALID, INVALID} : SetState(Length, to)
      BY <2>3 DEF Invalidate, MarkValid, Types, Ranges
    <3>2. Begin + Length < NData
      BY <2>3 DEF Invalidate, MarkValid, Types, Ranges, Busy
    <3>3. Begin + Length <= NData /\ Length \in 0 .. Length
      BY <1>3, <3>2
    <3>4. /\ pos \in Nat /\ pos < Length
          /\ \A s \in Sector, i \in Field :
                 alloc'[s][i] = IF s = write_sector /\ i = Begin + pos
                                THEN Lower(alloc[s][i], to) ELSE alloc[s][i]
      BY <3>1, <3>3, SetStateEffect DEF Types
    <3>5. Begin + pos # NData - 1
      BY <1>3, <3>2, <3>4
    <3> QED
      BY <1>3, <3>4, <3>5 DEF SectorNeverFull, LastErased
  <2>4. CASE Retire
    <3>1. CASE EraseFlash(write_sector)
      BY <1>3, <3>1, NeverFullErased
    <3>2. CASE UNCHANGED alloc
      BY <3>2 DEF SectorNeverFull
    <3>3. CASE /\ Begin + 1 < NData
               /\ \A s \in Sector, i \in Field :
                      alloc'[s][i] = IF s = write_sector /\ i = Begin
                                     THEN Lower(alloc[s][i], INVALID) ELSE alloc[s][i]
      <4>1. Begin # NData - 1
        BY <1>3, <3>3
      <4> QED
        BY <1>3, <3>3, <4>1 DEF SectorNeverFull, LastErased
    <3> QED
      BY <2>4, <3>1, <3>2, <3>3, RetireEffect
  <2> QED
    BY <2>1, <2>2, <2>3, <2>4 DEF Save
<1> QED
  BY <1>1, <1>2, <1>4 DEF SectorNeverFull

LEMMA NeverFullBoot ==
    ASSUME Types', Boot, \A s \in Sector : LastErased(alloc'[s])
    PROVE  SectorNeverFull'
<1>1. alloc' \in AllocType
  BY DEF Types, TypeOK, AllocType
<1>2. /\ read_sector_' \in Sector /\ index' \in [Sector -> 0 .. NData]
      /\ \A s \in Sector : index'[s] = 0 \/ alloc'[s][index'[s] - 1] # ERASED
  BY <1>1, InitFinds DEF Boot
<1>3. \A s \in Sector : index'[s] # NData
  BY <1>2, SizeAssumption DEF LastErased
<1>4. index'[read_sector_'] < NData
  BY <1>2, <1>3, SizeAssumption
<1> QED
  BY <1>4 DEF SectorNeverFull, Boot

LEMMA NeverFullStep == Types /\ Types' /\ SectorNeverFull /\ [Next]_vars => SectorNeverFull'
<1> SUFFICES ASSUME Types, Types', SectorNeverFull, [Next]_vars PROVE SectorNeverFull'
  OBVIOUS
<1>1. CASE Flip
  <2>1. /\ pc = "mark" /\ pc' = "retire" /\ alloc' = alloc
        /\ index'[read_sector_'] < NData /\ Begin' = index[read_sector_]
    BY <1>1, FlipEffect DEF Begin
  <2> QED
    BY <2>1 DEF SectorNeverFull, Erasing
<1>2. CASE NVM_erase
  BY <1>2 DEF NVM_erase, flash, SectorNeverFull, Erasing
<1>3. CASE EraseFirst
  <2>1. 0 \in Sector /\ pc' = "erase1"
    BY <1>3 DEF Sector, EraseFirst
  <2>2. \A s \in Sector : LastErased(alloc'[s])
    BY <1>3, <2>1, NeverFullErased DEF EraseFirst, flash, SectorNeverFull
  <2> QED
    BY <2>1, <2>2 DEF SectorNeverFull, Erasing
<1>4. CASE EraseSecond
  <2>1. 1 \in Sector
    BY DEF Sector
  <2>2. \A s \in Sector : LastErased(alloc'[s])
    BY <1>4, <2>1, NeverFullErased DEF EraseSecond, flash, SectorNeverFull
  <2> QED
    BY <1>4, <2>2, NeverFullBoot DEF EraseSecond
<1>5. CASE Reset
  BY <1>5, NeverFullBoot DEF Reset, flash, SectorNeverFull
<1>6. CASE UNCHANGED vars
  BY <1>6 DEF vars, SectorNeverFull, Erasing, Begin, write_sector
<1> QED
  BY <1>1, <1>2, <1>3, <1>4, <1>5, <1>6, NeverFullSave DEF Next, EraseConfiguration

\* The last field of a sector is never programmed, because set_allocation_state
\* refuses a block that ends with it (nvm.c:120). So a sector that was committed
\* to is never full when a commit leaves it, and the branch of NVM_commit that
\* erases it instead (nvm.c:369) is never taken, whatever interrupts a save.
THEOREM NeverFull == Spec => []SectorNeverFull
<1>1. Init => SectorNeverFull
  <2> SUFFICES ASSUME Init PROVE SectorNeverFull
    OBVIOUS
  <2>1. NData - 1 \in Field /\ 0 < NData
    BY SizeAssumption DEF Field
  <2> QED
    BY <2>1 DEF Init, SectorNeverFull, LastErased, Begin, Sector
<1> QED
  BY <1>1, NeverFullStep, TypesInvariant, PTL DEF Spec
=============================================================================
