------------------------ MODULE SignalProfilerProofs ------------------------
(***************************************************************************)
(* Theorems about SignalProfiler, for every number of callers, threads,    *)
(* shards, starts and samples, and every capacity of a ring; and about     *)
(* what discover() finds in a process, however many images are loaded and  *)
(* wherever.                                                               *)
(***************************************************************************)
EXTENDS SignalProfiler, FiniteSetTheorems, TLAPS

-----------------------------------------------------------------------------
(* The memory map.                                                         *)

\* The first of the two lines of image i.
LineOf(images, i) ==
  [start |-> images[i].bias + images[i].file.base + 0, names |-> images[i].names,
   opens |-> ~ images[i].replaced, file |-> images[i].file]

\* Line k is of image (k + 1) \div 2.
LEMMA LinesOfImage ==
  ASSUME NEW n \in Nat, NEW k \in 1..(2 * n)
  PROVE  /\ (k + 1) \div 2 \in 1..n
         /\ k % 2 = 1 => k = 2 * ((k + 1) \div 2) - 1
         /\ k % 2 # 1 => /\ k - 1 \in 1..(2 * n) /\ k - 1 < k
                         /\ ((k - 1) + 1) \div 2 = (k + 1) \div 2
  OBVIOUS

LEMMA FirstLineOfImage ==
  ASSUME NEW n \in Nat, NEW i \in 1..n
  PROVE  /\ 2 * i - 1 \in 1..(2 * n) /\ ((2 * i - 1) + 1) \div 2 = i /\ (2 * i - 1) % 2 = 1
         /\ \A k \in 1..((2 * i - 1) - 1) : k \in 1..(2 * n) /\ (k + 1) \div 2 < i
         /\ \A k \in 1..(2 * n) : k < 2 * i - 1 => (k + 1) \div 2 < i
  OBVIOUS

LEMMA MapsOf ==
  ASSUME NEW images, IsLoaded(images)
  PROVE  LET maps == Loaded(images).maps
         IN  /\ DOMAIN maps = 1..(2 * Len(images))
             /\ \A k \in 1..(2 * Len(images)) :
                  /\ maps[k].names = images[(k + 1) \div 2].names
                  /\ k % 2 = 1 => maps[k] = LineOf(images, (k + 1) \div 2)
  BY DEF Loaded, Image, LineOf

\* A line that is taken is the first of an image of that name.
LEMMA TakenLine ==
  ASSUME NEW images, IsLoaded(images), NEW wanted,
         NEW line \in FirstLine(Loaded(images).maps, wanted)
  PROVE  \E i \in DOMAIN images : wanted \in images[i].names /\ line = LineOf(images, i)
<1> DEFINE maps == Loaded(images).maps
           n == Len(images)
<1>1. /\ DOMAIN maps = 1..(2 * n) /\ n \in Nat /\ DOMAIN images = 1..n
      /\ \A k \in 1..(2 * n) : /\ maps[k].names = images[(k + 1) \div 2].names
                               /\ k % 2 = 1 => maps[k] = LineOf(images, (k + 1) \div 2)
  BY MapsOf DEF IsLoaded
<1>2. PICK k \in DOMAIN maps : /\ wanted \in maps[k].names /\ line = maps[k]
                               /\ \A j \in 1..(k - 1) : wanted \notin maps[j].names
  BY DEF FirstLine
<1> HIDE DEF maps, n
<1>3. k % 2 = 1
  <2> SUFFICES ASSUME k % 2 # 1 PROVE FALSE
    OBVIOUS
  <2>1. k - 1 \in 1..(2 * n) /\ ((k - 1) + 1) \div 2 = (k + 1) \div 2
    BY <1>1, LinesOfImage
  <2>2. k - 1 \in 1..(k - 1)
    BY <1>1, <2>1
  <2>3. maps[k - 1].names = maps[k].names
    BY <1>1, <2>1
  <2> QED BY <1>2, <2>2, <2>3
<1>4. (k + 1) \div 2 \in 1..n
  BY <1>1, LinesOfImage
<1> QED BY <1>1, <1>2, <1>3, <1>4

\* The line of the first image of a name is taken, and no other.
LEMMA FirstImageTaken ==
  ASSUME NEW images, IsLoaded(images), NEW wanted, NEW i \in DOMAIN images,
         wanted \in images[i].names,
         \A j \in DOMAIN images : j < i => wanted \notin images[j].names
  PROVE  FirstLine(Loaded(images).maps, wanted) = {LineOf(images, i)}
<1> DEFINE maps == Loaded(images).maps
           n == Len(images)
           first(k) == /\ wanted \in maps[k].names
                       /\ \A j \in 1..(k - 1) : wanted \notin maps[j].names
<1>1. /\ DOMAIN maps = 1..(2 * n) /\ n \in Nat /\ DOMAIN images = 1..n
      /\ \A k \in 1..(2 * n) : /\ maps[k].names = images[(k + 1) \div 2].names
                               /\ k % 2 = 1 => maps[k] = LineOf(images, (k + 1) \div 2)
  BY MapsOf DEF IsLoaded
<1>2. FirstLine(maps, wanted) = {maps[k] : k \in {l \in DOMAIN maps : first(l)}}
  BY DEF FirstLine
<1> HIDE DEF maps, n
<1>3. /\ 2 * i - 1 \in 1..(2 * n) /\ ((2 * i - 1) + 1) \div 2 = i /\ (2 * i - 1) % 2 = 1
      /\ \A k \in 1..((2 * i - 1) - 1) : k \in 1..(2 * n) /\ (k + 1) \div 2 < i
      /\ \A k \in 1..(2 * n) : k < 2 * i - 1 => (k + 1) \div 2 < i
  BY <1>1, FirstLineOfImage
<1>4. \A k \in 1..(2 * n) : k < 2 * i - 1 => wanted \notin maps[k].names
  <2> SUFFICES ASSUME NEW k \in 1..(2 * n), k < 2 * i - 1 PROVE wanted \notin maps[k].names
    OBVIOUS
  <2>1. (k + 1) \div 2 \in 1..n /\ (k + 1) \div 2 < i
    BY <1>1, <1>3, LinesOfImage
  <2> QED BY <1>1, <2>1
<1>5. maps[2 * i - 1] = LineOf(images, i) /\ wanted \in maps[2 * i - 1].names
  BY <1>1, <1>3
<1>6. first(2 * i - 1)
  <2>1. \A k \in 1..((2 * i - 1) - 1) : k \in 1..(2 * n) /\ k < 2 * i - 1
    BY <1>1, <1>3
  <2> QED BY <1>4, <1>5, <2>1
<1>7. \A k \in 1..(2 * n) : first(k) => k = 2 * i - 1
  <2> SUFFICES ASSUME NEW k \in 1..(2 * n), first(k), k # 2 * i - 1 PROVE FALSE
    OBVIOUS
  <2>1. CASE k < 2 * i - 1
    BY <1>4, <2>1
  <2>2. CASE ~ (k < 2 * i - 1)
    <3>1. 2 * i - 1 \in 1..(k - 1)
      BY <1>1, <1>3, <2>2
    <3> QED BY <1>5, <3>1
  <2> QED BY <2>1, <2>2
<1> HIDE DEF first
<1>8. FirstLine(maps, wanted) = {maps[2 * i - 1]}
  BY <1>1, <1>2, <1>3, <1>6, <1>7
<1> QED BY <1>5, <1>8 DEF maps

\* No image of a name, no line.
LEMMA NoImageNoLine ==
  ASSUME NEW images, IsLoaded(images), NEW wanted,
         \A i \in DOMAIN images : wanted \notin images[i].names
  PROVE  FirstLine(Loaded(images).maps, wanted) = {}
  BY TakenLine

-----------------------------------------------------------------------------
(* What is read.                                                           *)

\* The load bias that is computed from the line is the loader's.
LEMMA BiasIsRight ==
  ASSUME NEW images, IsLoaded(images), NEW i \in DOMAIN images
  PROVE  load_bias(LineOf(images, i)) = images[i].bias
  BY DEF IsLoaded, load_bias, LineOf

\* What is read at an address of an image is of that image.
LEMMA MemoryIs ==
  ASSUME NEW images, IsLoaded(images), NEW i \in DOMAIN images,
         NEW b \in DOMAIN images[i].contents
  PROVE  ReadAt(Loaded(images), b + images[i].bias) = {images[i].contents[b]}
<1> DEFINE a == b + images[i].bias
<1>1. images[i].bias \in Int /\ b \in Int
  BY DEF IsLoaded
<1>2. a \in Span(images[i])
  BY <1>1 DEF Span
<1>3. \A j \in DOMAIN images : images[j].bias \in Int
  BY DEF IsLoaded
<1>4. a - images[i].bias = b /\ a \in Int
  BY <1>1
<1> HIDE DEF a
<1>5. Shared(images, a) = {i}
  <2>1. i \in Shared(images, a)
    BY <1>4 DEF Shared
  <2>2. ASSUME NEW j \in Shared(images, a) PROVE j = i
    <3>1. j \in DOMAIN images /\ a - images[j].bias \in DOMAIN images[j].contents
      BY <2>2 DEF Shared
    <3>2. images[j].bias + (a - images[j].bias) = a
      BY <1>3, <1>4, <3>1
    <3>3. a \in Span(images[j])
      BY <3>1, <3>2 DEF Span
    <3> QED BY <1>2, <3>1, <3>3 DEF IsLoaded
  <2> QED BY <2>1, <2>2
<1>6. Min(Shared(images, a)) = i
  <2>1. i \in Int
    BY DEF IsLoaded
  <2> QED BY <1>5, <2>1 DEF Min
<1>7. a \in DOMAIN Loaded(images).memory
      /\ Loaded(images).memory[a] = images[i].contents[b]
  BY <1>2, <1>4, <1>6 DEF Loaded
<1>8. ReadAt(Loaded(images), a) = {images[i].contents[b]}
  BY <1>7 DEF ReadAt
<1> QED BY <1>8 DEF a

-----------------------------------------------------------------------------
(* discover().                                                             *)

\* What discover() finds from the line of an image whose file has the wanted symbols.
LEMMA FromImage ==
  ASSUME NEW images, IsLoaded(images), NEW i \in DOMAIN images, ~ images[i].replaced,
         images[i].file.elf, Wanted \subseteq DOMAIN images[i].file.dynsym
  PROVE  LET p == Loaded(images)
             table == images[i].file.dynsym
             symbols == resolve_elf_symbols(LineOf(images, i))
         IN  /\ symbols = [name \in Wanted |-> table[name] + images[i].bias]
             /\ ReadAt(p, symbols["Py_Version"]) = {images[i].contents[table["Py_Version"]]}
             /\ ReadAt(p, symbols["_PyRuntime"]) = {images[i].contents[table["_PyRuntime"]]}
<1> DEFINE table == images[i].file.dynsym
           symbols == resolve_elf_symbols(LineOf(images, i))
<1>1. symbols = [name \in Wanted |-> table[name] + images[i].bias]
  <2>1. LineOf(images, i).file.dynsym = table
    BY DEF LineOf
  <2> QED BY <2>1, BiasIsRight DEF resolve_elf_symbols
<1>2. {table["Py_Version"], table["_PyRuntime"]} \subseteq DOMAIN images[i].contents
  BY DEF IsLoaded, IsOnDisk
<1>3. "Py_Version" \in Wanted /\ "_PyRuntime" \in Wanted
  BY DEF Wanted
<1> HIDE DEF table, symbols
<1>4. /\ symbols["Py_Version"] = table["Py_Version"] + images[i].bias
      /\ symbols["_PyRuntime"] = table["_PyRuntime"] + images[i].bias
  BY <1>1, <1>3
<1>5. /\ ReadAt(Loaded(images), symbols["Py_Version"]) = {images[i].contents[table["Py_Version"]]}
      /\ ReadAt(Loaded(images), symbols["_PyRuntime"]) = {images[i].contents[table["_PyRuntime"]]}
  <2>1. \A b \in DOMAIN images[i].contents :
          ReadAt(Loaded(images), b + images[i].bias) = {images[i].contents[b]}
    BY MemoryIs
  <2> QED BY <1>2, <1>4, <2>1
<1> USE DEF table, symbols
<1> QED BY <1>1, <1>5

\* A build that is not supported is refused by its version or by its header.
LEMMA OnlySupported ==
  ASSUME NEW images, IsLoaded(images), NEW i \in DOMAIN images, ~ images[i].replaced,
         images[i].file.elf, Wanted \subseteq DOMAIN images[i].file.dynsym
  PROVE  LET p == Loaded(images)
             d == FromSymbols(p, resolve_elf_symbols(LineOf(images, i)))
         IN  /\ d.error = "none" <=> images[i].supported
             /\ d.error = "none" =>
                  /\ d.symbols = resolve_elf_symbols(LineOf(images, i))
                  /\ d.asyncio = AsyncioOffsets(p)
<1> DEFINE p == Loaded(images)
           symbols == resolve_elf_symbols(LineOf(images, i))
           version == images[i].contents[images[i].file.dynsym["Py_Version"]]
           header == images[i].contents[images[i].file.dynsym["_PyRuntime"]]
           versions == VersionAt(p, symbols["Py_Version"])
           headers == UNION {HeaderAt(p, symbols["_PyRuntime"], v) : v \in versions}
           d == FromSymbols(p, symbols)
<1>1. /\ ReadAt(p, symbols["Py_Version"]) = {version}
      /\ ReadAt(p, symbols["_PyRuntime"]) = {header}
  BY FromImage
<1>2. images[i].supported <=>
        /\ version.major = 3 /\ version.minor = 14
        /\ header.cookie = "xdebugpy" /\ header.version = version /\ header.free_threaded = 0
  BY DEF IsLoaded, IsOnDisk, IsInterpreter
<1>3. d = IF versions = {} THEN [error |-> "UnsupportedVersion"]
          ELSE IF headers = {} THEN [error |-> "DebugOffsetsMismatch"]
          ELSE [error |-> "none", symbols |-> symbols, asyncio |-> AsyncioOffsets(p)]
  BY DEF FromSymbols
<1>4. \A v : v \in versions <=> v = version /\ v.major = 3 /\ v.minor = 14
  BY <1>1 DEF VersionAt
<1>5. \A h : h \in headers <=> /\ version \in versions /\ h = header
                               /\ h.cookie = "xdebugpy" /\ h.version = version
                               /\ h.free_threaded = 0
  BY <1>1, <1>4 DEF HeaderAt
<1> HIDE DEF p, symbols, version, header, versions, headers, d
<1>6. images[i].supported <=> versions # {} /\ headers # {}
  BY <1>2, <1>4, <1>5
<1>7. d.error = "none" <=> versions # {} /\ headers # {}
  <2>1. CASE versions = {}
    BY <1>3, <2>1
  <2>2. CASE versions # {} /\ headers = {}
    BY <1>3, <2>2
  <2>3. CASE versions # {} /\ headers # {}
    BY <1>3, <2>3
  <2> QED BY <2>1, <2>2, <2>3
<1>8. d.error = "none" => d.symbols = symbols /\ d.asyncio = AsyncioOffsets(p)
  BY <1>3, <1>7
<1> QED BY <1>6, <1>7, <1>8 DEF p, symbols, d

\* The address of asyncio's offsets, if any, is that of the module's section, whichever of
\* the three places it was found in.
LEMMA AsyncioIsRight ==
  ASSUME NEW images, IsLoaded(images), AsyncioOffsets(Loaded(images)) # NoAddress
  PROVE  \E i \in DOMAIN images :
           /\ "_asyncio.cpython-3" \in images[i].names
           /\ AsyncioOffsets(Loaded(images)) = images[i].file.sections[".AsyncioDebug"] + images[i].bias
<1> DEFINE lines == FirstLine(Loaded(images).maps, "_asyncio.cpython-3")
           places == {resolve_asyncio_debug_symbol(l) : l \in lines}
           a == AsyncioOffsets(Loaded(images))
<1>1. a \in places
  BY DEF AsyncioOffsets
<1>2. PICK line \in lines : a = resolve_asyncio_debug_symbol(line)
  BY <1>1
<1>3. PICK i \in DOMAIN images :
        "_asyncio.cpython-3" \in images[i].names /\ line = LineOf(images, i)
  BY <1>2, TakenLine
<1> DEFINE f == images[i].file
           where == IF ~ line.opens \/ ~ f.elf THEN NoAddress
                    ELSE IF "_AsyncioDebug" \in DOMAIN f.dynsym THEN f.dynsym["_AsyncioDebug"]
                    ELSE IF "_AsyncioDebug" \in DOMAIN f.symtab THEN f.symtab["_AsyncioDebug"]
                    ELSE IF ".AsyncioDebug" \in DOMAIN f.sections THEN f.sections[".AsyncioDebug"]
                    ELSE NoAddress
<1>4. line.file = f /\ (line.opens <=> ~ images[i].replaced) /\ load_bias(line) = images[i].bias
  BY <1>3, BiasIsRight DEF LineOf
<1>5. a = IF where = NoAddress THEN NoAddress ELSE where + images[i].bias
  BY <1>2, <1>4, Zenon DEF resolve_asyncio_debug_symbol
<1>6. where # NoAddress /\ a = where + images[i].bias
  BY <1>5
<1>7. line.opens /\ f.elf
  <2> SUFFICES ASSUME ~ line.opens \/ ~ f.elf PROVE FALSE
    OBVIOUS
  <2>1. where = NoAddress
    OBVIOUS
  <2> QED BY <1>6, <2>1
<1>8. \A table \in {f.dynsym, f.symtab} :
        "_AsyncioDebug" \in DOMAIN table => table["_AsyncioDebug"] = f.sections[".AsyncioDebug"]
  BY <1>3, <1>4, <1>7 DEF IsLoaded, IsOnDisk
<1>9. where = f.sections[".AsyncioDebug"]
  <2>1. CASE "_AsyncioDebug" \in DOMAIN f.dynsym
    BY <1>7, <1>8, <2>1
  <2>2. CASE "_AsyncioDebug" \notin DOMAIN f.dynsym /\ "_AsyncioDebug" \in DOMAIN f.symtab
    BY <1>7, <1>8, <2>2
  <2>3. CASE "_AsyncioDebug" \notin DOMAIN f.dynsym /\ "_AsyncioDebug" \notin DOMAIN f.symtab
    BY <1>6, <1>7, <2>3
  <2> QED BY <2>1, <2>2, <2>3
<1>10. a = f.sections[".AsyncioDebug"] + images[i].bias
  BY <1>6, <1>9
<1> QED BY <1>3, <1>10

\* What is found is an interpreter that start() can go on with, at the address it is loaded
\* at, and asyncio's offsets are its module's.
LEMMA DiscoverSound ==
  ASSUME NEW images, IsLoaded(images)
  PROVE  IsRight(images, discover(Loaded(images)))
<1> DEFINE p == Loaded(images)
           d == discover(p)
           hits == find_python_in_maps(p.maps)
           line == CHOOSE l \in hits : TRUE
<1> SUFFICES ASSUME d.error = "none"
             PROVE  IsRight(images, d)
  BY DEF IsRight
<1>1. d = IF hits = {} THEN NoPython
          ELSE IF ElfError(line) # "none" THEN [error |-> ElfError(line)]
          ELSE FromSymbols(p, resolve_elf_symbols(line))
  BY DEF discover
<1> HIDE DEF d
<1>2. hits # {}
  <2> SUFFICES ASSUME hits = {} PROVE FALSE
    OBVIOUS
  <2>1. d = NoPython
    BY <1>1
  <2> QED BY <2>1 DEF NoPython
<1>3. line \in hits
  BY <1>2
<1> HIDE DEF line
<1>4. ElfError(line) = "none"
  <2> SUFFICES ASSUME ElfError(line) # "none" PROVE FALSE
    OBVIOUS
  <2>1. d = [error |-> ElfError(line)]
    BY <1>1, <1>2
  <2> QED BY <2>1
<1>5. d = FromSymbols(p, resolve_elf_symbols(line))
  BY <1>1, <1>2, <1>4
<1>6. PICK i \in DOMAIN images : line = LineOf(images, i)
  BY <1>3, TakenLine DEF find_python_in_maps
<1>7. ~ images[i].replaced /\ images[i].file.elf
      /\ Wanted \subseteq DOMAIN images[i].file.dynsym
  <2>1. line.opens = ~ images[i].replaced /\ line.file = images[i].file
    BY <1>6 DEF LineOf
  <2>2. line.opens /\ line.file.elf /\ Wanted \subseteq DOMAIN line.file.dynsym
    BY <1>4 DEF ElfError
  <2> QED BY <2>1, <2>2
<1>8. /\ images[i].supported
      /\ d.symbols = resolve_elf_symbols(LineOf(images, i))
      /\ d.asyncio = AsyncioOffsets(p)
  BY <1>5, <1>6, <1>7, OnlySupported
<1>9. d.symbols = [name \in Wanted |-> images[i].file.dynsym[name] + images[i].bias]
  BY <1>7, <1>8, FromImage
<1>10. d.asyncio # NoAddress =>
         \E j \in DOMAIN images :
           /\ "_asyncio.cpython-3" \in images[j].names
           /\ d.asyncio = images[j].file.sections[".AsyncioDebug"] + images[j].bias
  BY <1>8, AsyncioIsRight
<1> QED BY <1>8, <1>9, <1>10 DEF IsRight

\* An interpreter in a shared library is hits behind any launcher, one in the executable
\* when no other image before it has its name.
LEMMA DiscoverFinds ==
  ASSUME NEW images, IsLoaded(images), HasOneInterpreter(images)
  PROVE  discover(Loaded(images)).error = "none"
<1> DEFINE p == Loaded(images)
           d == discover(p)
           hits == find_python_in_maps(p.maps)
           line == CHOOSE l \in hits : TRUE
<1>1. PICK i \in DOMAIN images :
        /\ images[i].supported /\ ~ images[i].replaced
        /\ \A j \in DOMAIN images \ {i} :
             /\ "libpython3" \notin images[j].names
             /\ "libpython3" \in images[i].names \/ j > i \/ "python3" \notin images[j].names
  BY DEF HasOneInterpreter
<1>2. /\ images[i].file.elf /\ Wanted \subseteq DOMAIN images[i].file.dynsym
      /\ "python3" \in images[i].names
  BY <1>1 DEF IsLoaded, IsOnDisk, IsInterpreter
<1>3. \A j, k \in DOMAIN images : ~ (j < k /\ j = k) /\ ~ (j < k /\ j > k)
  BY DEF IsLoaded
<1>4. hits = {LineOf(images, i)}
  <2>1. CASE "libpython3" \in images[i].names
    <3>1. \A j \in DOMAIN images : j < i => "libpython3" \notin images[j].names
      BY <1>1, <1>3
    <3>2. FirstLine(p.maps, "libpython3") = {LineOf(images, i)}
      BY <2>1, <3>1, FirstImageTaken
    <3> QED BY <3>2 DEF find_python_in_maps
  <2>2. CASE "libpython3" \notin images[i].names
    <3>1. \A j \in DOMAIN images : "libpython3" \notin images[j].names
      BY <1>1, <2>2
    <3>2. FirstLine(p.maps, "libpython3") = {}
      BY <3>1, NoImageNoLine
    <3>3. \A j \in DOMAIN images : j < i => "python3" \notin images[j].names
      BY <1>1, <1>3, <2>2
    <3>4. FirstLine(p.maps, "python3") = {LineOf(images, i)}
      BY <1>2, <3>3, FirstImageTaken
    <3> QED BY <3>2, <3>4 DEF find_python_in_maps
  <2> QED BY <2>1, <2>2
<1>5. line = LineOf(images, i) /\ hits # {}
  BY <1>4
<1>6. ElfError(LineOf(images, i)) = "none"
  <2>1. LineOf(images, i).opens /\ LineOf(images, i).file = images[i].file
    BY <1>1 DEF LineOf
  <2> QED BY <1>2, <2>1 DEF ElfError
<1>7. d = FromSymbols(p, resolve_elf_symbols(LineOf(images, i)))
  BY <1>5, <1>6 DEF discover
<1> QED BY <1>1, <1>2, <1>7, OnlySupported

-----------------------------------------------------------------------------
(* Arithmetic and bags                                                     *)

\* A shard's number is a number of threads or of tries modulo NumShards.
LEMMA ShardOf == \A x \in Nat : x % NumShards \in Shards
  BY SignalProfilerAssumption DEF SignalProfilerAssumption, Shards

LEMMA NextShard == \A i \in Shards : (i + 1) % NumShards \in Shards
<1> TAKE i \in Shards
<1>1. i + 1 \in Nat
  BY SignalProfilerAssumption DEF SignalProfilerAssumption, Shards
<1> QED BY <1>1, ShardOf

LEMMA CountType == \A x \in 0..(Interval - 1) : (x + 1) % Interval \in 0..(Interval - 1)
  BY SignalProfilerAssumption DEF SignalProfilerAssumption

LEMMA EmptyBagType == IsABagOfSamples(EmptyBag)
  BY DEF IsABagOfSamples, EmptyBag, SetToBag, IsABag, BagToSet

LEMMA AddType ==
  ASSUME NEW a, NEW b, IsABagOfSamples(a), IsABagOfSamples(b)
  PROVE  IsABagOfSamples(a (+) b)
  BY DEF IsABagOfSamples, IsABag, BagToSet, (+)

\* The positions of a value in a ring.
LEMMA PositionsFinite ==
  ASSUME NEW q \in Seq(AllRecords), NEW s
  PROVE  LET at_ == {i \in DOMAIN q : q[i].sample = s}
         IN  IsFiniteSet(at_) /\ Cardinality(at_) \in Nat /\ (at_ # {} => Cardinality(at_) > 0)
<1> DEFINE here == {i \in DOMAIN q : q[i].sample = s}
<1>1. DOMAIN q = 1..Len(q) /\ Len(q) \in Nat
  OBVIOUS
<1>2. IsFiniteSet(1..Len(q))
  BY <1>1, FS_Interval
<1>3. here \in SUBSET (1..Len(q))
  BY <1>1
<1>4. IsFiniteSet(here)
  BY <1>2, <1>3, FS_Subset
<1>5. Cardinality(here) \in Nat
  BY <1>4, FS_CardinalityType
<1>6. here # {} => Cardinality(here) # 0
  BY <1>4, FS_EmptySet
<1> QED BY <1>4, <1>5, <1>6

\* What is drained is a bag of the ring's samples.
LEMMA SamplesType ==
  ASSUME NEW q \in Seq(AllRecords)
  PROVE  IsABagOfSamples(Samples(q))
<1>1. \A i \in DOMAIN q : q[i] \in AllRecords
  OBVIOUS
<1>2. \A r \in AllRecords : r.sample \in AllSamples
  BY DEF AllRecords
<1>3. DOMAIN Samples(q) \subseteq AllSamples
  BY <1>1, <1>2 DEF Samples
<1>4. ASSUME NEW s \in DOMAIN Samples(q)
      PROVE  Samples(q)[s] \in Nat /\ Samples(q)[s] > 0
  <2>1. {i \in DOMAIN q : q[i].sample = s} # {}
    BY <1>4 DEF Samples
  <2>2. Samples(q)[s] = Cardinality({i \in DOMAIN q : q[i].sample = s})
    BY <1>4 DEF Samples
  <2> QED BY <2>1, <2>2, PositionsFinite
<1>5. Samples(q) = [s \in DOMAIN Samples(q) |-> Samples(q)[s]]
  BY DEF Samples
<1> HIDE DEF Samples
<1>6. Samples(q) \in [DOMAIN Samples(q) -> {n \in Nat : n > 0}]
  BY <1>4, <1>5
<1> QED BY <1>3, <1>6 DEF IsABagOfSamples, IsABag, BagToSet

-----------------------------------------------------------------------------
(* The inductive invariant of start()                                      *)

Active(c) == caller[c] # "out"
Started(c) == caller[c] \in {"spawn", "register", "sanity", "timer"}

\* One call at a time goes through init_sequence(), while LIFECYCLE says so and no timer runs.
OneStarts ==
  /\ \A c, d \in Callers : Active(c) /\ Active(d) => c = d
  /\ \A c \in Callers : Active(c) => lifecycle = "running" /\ ~ armed

\* What the call has behind it: crash recovery, its state, its reader thread, the handler.
StepsBehind ==
  \A c \in Callers :
    /\ caller[c] \notin {"out", "init"} => kindasafe = "ok"
    /\ Started(c) => mine[c] = current /\ mine[c] = made /\ made # 0
    /\ Started(c) /\ caller[c] # "spawn" => reader[current] # "none"
    /\ Started(c) /\ caller[c] \notin {"spawn", "register"} => installed

\* A state is made once in a call.
MadeByStarts ==
  /\ made <= starts
  /\ \A c \in Callers : Active(c) /\ ~ Started(c) => made < starts

\* The timer runs over the state of the one call that returned Ok.
ReadyInv ==
  /\ armed <=> oks # {}
  /\ armed => /\ oks = {current} /\ current # 0 /\ lifecycle = "running"
              /\ installed /\ kindasafe = "ok" /\ reader[current] # "none"

StartInv == OneStarts /\ StepsBehind /\ MadeByStarts /\ ReadyInv

LEMMA StartTypesInit == Init => StartTypes /\ StartInv
<1> SUFFICES ASSUME Init PROVE StartTypes /\ StartInv
  OBVIOUS
<1> USE DEF Init
<1>1. StartTypes
  <2>1. caller \in [Callers -> Steps] /\ DOMAIN found = Callers /\ mine \in [Callers -> 0..made]
    BY DEF Steps
  <2>2. made \in 0..MaxStarts /\ current \in 0..made /\ starts \in 0..MaxStarts
    BY SignalProfilerAssumption DEF SignalProfilerAssumption
  <2>3. installed \in BOOLEAN /\ armed \in BOOLEAN /\ oks \subseteq 1..made
    OBVIOUS
  <2> QED BY <2>1, <2>2, <2>3 DEF StartTypes
<1>2. OneStarts /\ StepsBehind
  BY DEF OneStarts, StepsBehind, Active, Started
<1>3. MadeByStarts /\ ReadyInv
  BY DEF MadeByStarts, ReadyInv, Active, Started
<1> QED BY <1>1, <1>2, <1>3 DEF StartInv

\* A call goes on to another step, or ends with an error.
LEMMA CallTypes ==
  ASSUME StartTypes, NEW c \in Callers, NEW from, NEW to \in Steps,
         \/ Goes(c, from, to) /\ UNCHANGED <<lifecycle, mine>>
         \/ Fails(c, from)
  PROVE  /\ caller' \in [Callers -> Steps] /\ mine' \in [Callers -> 0..made]
         /\ lifecycle' \in {"uninitialized", "running"}
  BY DEF StartTypes, Goes, Fails, Steps

\* The call of c goes on or fails.
LEMMA StartStepTypes ==
  ASSUME StartTypes, StartInv, NEW c \in Callers, Start(c) \/ StartStep(c)
  PROVE  StartTypes'
<1> USE SignalProfilerAssumption DEF SignalProfilerAssumption, StartTypes, Steps
<1>1. CASE Start(c)
  BY <1>1 DEF Start, Goes
<1>2. CASE InitKindasafe(c)
  BY <1>2 DEF InitKindasafe, Goes, Fails
<1>3. CASE Discover(c)
  <2>1. PICK w : found' = [found EXCEPT ![c] = w]
    BY <1>3 DEF Discover
  <2>2. caller' = [caller EXCEPT ![c] = "allocate"]
    BY <1>3 DEF Discover, Goes
  <2> QED BY <1>3, <2>1, <2>2 DEF Discover
<1>4. CASE Allocate(c)
  BY <1>4 DEF Allocate, Goes, Fails
<1>5. CASE Publish(c)
  BY <1>5 DEF Publish, StartInv, MadeByStarts, Active, Started, Goes
<1>6. CASE SpawnReader(c)
  BY <1>6, CallTypes DEF SpawnReader
<1>7. CASE RegisterHandler(c)
  <2>1. installed' \in BOOLEAN
    BY <1>7 DEF RegisterHandler
  <2> QED BY <1>7, <2>1, CallTypes DEF RegisterHandler
<1>8. CASE SanityCheck(c)
  BY <1>8, CallTypes DEF SanityCheck
<1>9. CASE StartTimer(c)
  <2>1. mine[c] \in 1..made
    BY <1>9 DEF StartTimer, StartInv, StepsBehind, Started, Goes, Fails
  <2>2. armed' \in BOOLEAN /\ oks' \subseteq 1..made
    BY <1>9, <2>1 DEF StartTimer
  <2>3. caller' \in [Callers -> Steps] /\ mine' \in [Callers -> 0..made]
        /\ lifecycle' \in {"uninitialized", "running"}
    BY <1>9 DEF StartTimer, Goes, Fails
  <2> QED BY <1>9, <2>2, <2>3 DEF StartTimer
<1> QED BY <1>1, <1>2, <1>3, <1>4, <1>5, <1>6, <1>7, <1>8, <1>9 DEF StartStep

\* The reader threads, once there, do not become threads that never were.
LEMMA ReaderStays ==
  ASSUME ReaderTypes, NEW k \in States, ReaderStep(k)
  PROVE  \A j \in States : reader[j] # "none" => reader'[j] # "none"
  BY DEF ReaderTypes, ReaderStep, ReaderSetsUp, ReaderWakes, ReaderLocks, ReaderDrains,
         ReaderGoesOn, Flush, Reads

LEMMA StartInvStep ==
  ASSUME StartTypes, ReaderTypes, StartInv, NEW c \in Callers, Start(c) \/ StartStep(c)
  PROVE  StartInv'
<1> USE SignalProfilerAssumption
    DEF SignalProfilerAssumption, StartTypes, Steps, Active, Started
<1> USE DEF StartInv
<1>1. CASE Start(c)
  <2>1. OneStarts'
    BY <1>1 DEF Start, Goes, OneStarts, ReadyInv, readerVars
  <2>2. StepsBehind' /\ MadeByStarts' /\ ReadyInv'
    BY <1>1 DEF Start, Goes, StepsBehind, MadeByStarts, ReadyInv, OneStarts, readerVars
  <2> QED BY <2>1, <2>2
<1>2. CASE InitKindasafe(c)
  BY <1>2 DEF InitKindasafe, Goes, Fails, OneStarts, StepsBehind, MadeByStarts, ReadyInv, readerVars
<1>3. CASE Discover(c)
  BY <1>3 DEF Discover, Goes, OneStarts, StepsBehind, MadeByStarts, ReadyInv, readerVars
<1>4. CASE Allocate(c)
  <2>1. OneStarts' /\ ReadyInv'
    BY <1>4 DEF Allocate, Goes, Fails, OneStarts, ReadyInv, readerVars
  <2>2. StepsBehind'
    BY <1>4 DEF Allocate, Goes, Fails, StepsBehind, OneStarts, readerVars
  <2>3. MadeByStarts'
    BY <1>4 DEF Allocate, Goes, Fails, MadeByStarts, readerVars
  <2> QED BY <2>1, <2>2, <2>3
<1>5. CASE Publish(c)
  BY <1>5 DEF Publish, Goes, OneStarts, StepsBehind, MadeByStarts, ReadyInv, readerVars
<1>6. CASE SpawnReader(c)
  <2>1. /\ \A d \in Callers \ {c} : caller[d] = "out" /\ caller'[d] = "out"
        /\ mine[c] = current /\ current \in States /\ made = current /\ ~ armed
        /\ kindasafe = "ok" /\ lifecycle = "running"
    BY <1>6 DEF SpawnReader, Goes, Fails, OneStarts, StepsBehind, States
  <2>2. \/ caller'[c] = "register" /\ reader'[current] = "setup" /\ lifecycle' = lifecycle /\ mine' = mine
        \/ caller'[c] = "out"
    BY <1>6, <2>1 DEF SpawnReader, Goes, Fails, ReaderTypes
  <2>3. UNCHANGED <<kindasafe, made, current, installed, armed, starts, oks>>
    BY <1>6 DEF SpawnReader
  <2>6. OneStarts'
    BY <2>1, <2>2, <2>3 DEF OneStarts
  <2>4. StepsBehind'
    <3> SUFFICES ASSUME NEW d \in Callers, caller'[d] # "out"
                 PROVE  /\ kindasafe' = "ok" /\ mine'[d] = current' /\ mine'[d] = made' /\ made' # 0
                        /\ reader'[current'] # "none" /\ caller'[d] = "register"
      BY DEF StepsBehind
    <3>1. d = c
      BY <2>1
    <3> QED BY <2>1, <2>2, <2>3, <3>1 DEF States
  <2>5. MadeByStarts' /\ ReadyInv'
    BY <2>1, <2>2, <2>3 DEF MadeByStarts, ReadyInv
  <2> QED BY <2>4, <2>5, <2>6
<1>7. CASE RegisterHandler(c)
  BY <1>7 DEF RegisterHandler, Goes, Fails, OneStarts, StepsBehind, MadeByStarts, ReadyInv, readerVars
<1>8. CASE SanityCheck(c)
  BY <1>8 DEF SanityCheck, Goes, Fails, OneStarts, StepsBehind, MadeByStarts, ReadyInv, readerVars
<1>9. CASE StartTimer(c)
  BY <1>9 DEF StartTimer, Goes, Fails, OneStarts, StepsBehind, MadeByStarts, ReadyInv, readerVars
<1> QED BY <1>1, <1>2, <1>3, <1>4, <1>5, <1>6, <1>7, <1>8, <1>9 DEF StartStep

-----------------------------------------------------------------------------
(* A shard is held by one handler or by the reader                         *)

Holds(h) == h.pc \in {"unwind", "write", "notify"}

\* A handler beyond the lock has locked the shard it is at, and no other handler is there.
HandlersLock ==
  /\ \A t \in Threads : Holds(handler[t]) => lock[handler[t].state][handler[t].shard] = "handler"
  /\ \A t, u \in Threads :
       t # u /\ Holds(handler[t]) /\ Holds(handler[u])
         => handler[t].state # handler[u].state \/ handler[t].shard # handler[u].shard

ReaderLocked == \A k \in States : reader[k] = "drain" => lock[k][at[k]] = "reader"

\* A handler has a sample of its own thread, taken in a state that exists; the frames it is
\* about to write are those of that sample.
HandlersSample ==
  \A t \in Threads :
    /\ handler[t].pc # "out" => /\ handler[t].sample \in AllSamples
                                /\ handler[t].sample.tid = t
                                /\ handler[t].sample.n \in 1..taken
                                /\ handler[t].state \in States
    /\ handler[t].pc = "out" => handler[t] = Outside
    /\ handler[t].pc = "write" => frames[handler[t].state][handler[t].shard] = handler[t].sample

WholeRecords ==
  \A k \in States, i \in Shards : \A j \in DOMAIN ring[k][i] : ring[k][i][j].tid = ring[k][i][j].sample.tid

ShardInv == HandlersLock /\ ReaderLocked /\ HandlersSample /\ WholeRecords

LEMMA WholeInRings == WholeRecords => RecordsAreWhole
  BY DEF WholeRecords, RecordsAreWhole, InRings

LEMMA NoSampleType == NoSample.n = 0 /\ NoSample \notin AllSamples /\ Outside.pc = "out"
  BY DEF NoSample, Outside, AllSamples

LEMMA OutsideType == Outside \in Handlers
  BY SignalProfilerAssumption DEF SignalProfilerAssumption, Outside, Handlers, Shards

LEMMA RestInit == Init => ReaderTypes /\ ShardTypes /\ NotifyTypes /\ ShardInv
<1> SUFFICES ASSUME Init PROVE ReaderTypes /\ ShardTypes /\ NotifyTypes /\ ShardInv
  OBVIOUS
<1> USE SignalProfilerAssumption DEF Init, SignalProfilerAssumption
<1>1. ReaderTypes
  BY EmptyBagType DEF ReaderTypes, Shards
<1>2. ShardTypes
  <2>1. <<>> \in Seq(AllRecords) /\ Len(<<>>) = 0
    OBVIOUS
  <2>2. ring \in [States -> [Shards -> Seq(AllRecords)]]
    BY <2>1
  <2>3. \A k \in States, i \in Shards : Len(ring[k][i]) <= RingCapacity
    BY <2>1
  <2> QED BY <2>2, <2>3 DEF ShardTypes
<1>3. NotifyTypes
  BY DEF NotifyTypes
<1>4. ShardInv
  BY NoSampleType DEF ShardInv, HandlersLock, ReaderLocked, HandlersSample, WholeRecords, Holds
<1> QED BY <1>1, <1>2, <1>3, <1>4

\* One entry of a table over states and shards is set.
LEMMA LockTypes ==
  ASSUME ShardTypes, NEW k \in States, NEW i \in Shards, NEW v \in {"free", "reader", "handler"},
         lock' = [lock EXCEPT ![k][i] = v]
  PROVE  /\ lock' \in [States -> [Shards -> {"free", "reader", "handler"}]]
         /\ \A j \in States, l \in Shards : lock'[j][l] = IF j = k /\ l = i THEN v ELSE lock[j][l]
  BY DEF ShardTypes

LEMMA FrameTypes ==
  ASSUME ShardTypes, NEW k \in States, NEW i \in Shards, NEW v \in AllSamples,
         frames' = [frames EXCEPT ![k][i] = v]
  PROVE  /\ frames' \in [States -> [Shards -> AllSamples \union {NoSample}]]
         /\ \A j \in States, l \in Shards : frames'[j][l] = IF j = k /\ l = i THEN v ELSE frames[j][l]
  BY DEF ShardTypes

LEMMA RingTypes ==
  ASSUME ShardTypes, NEW k \in States, NEW i \in Shards, NEW v \in Seq(AllRecords),
         ring' = [ring EXCEPT ![k][i] = v]
  PROVE  /\ ring' \in [States -> [Shards -> Seq(AllRecords)]]
         /\ \A j \in States, l \in Shards : ring'[j][l] = IF j = k /\ l = i THEN v ELSE ring[j][l]
  BY DEF ShardTypes

LEMMA ReaderStepTypes ==
  ASSUME ReaderTypes, ShardTypes, NotifyTypes, NEW k \in States, ReaderStep(k) \/ Elapses(k)
  PROVE  ReaderTypes' /\ ShardTypes' /\ NotifyTypes'
<1> USE DEF Reads
<1>1. CASE ReaderSetsUp(k)
  BY <1>1 DEF ReaderSetsUp, ReaderTypes, ShardTypes, NotifyTypes, shardVars, notifyVars
<1>2. CASE ReaderWakes(k)
  BY <1>2 DEF ReaderWakes, ReaderTypes, ShardTypes, NotifyTypes, shardVars, notifyVars
<1>3. CASE ReaderLocks(k)
  <2>1. lock' \in [States -> [Shards -> {"free", "reader", "handler"}]]
    BY <1>3 DEF ReaderLocks, ShardTypes, ReaderTypes
  <2> QED BY <1>3, <2>1 DEF ReaderLocks, ReaderTypes, ShardTypes, NotifyTypes, notifyVars
<1>4. CASE ReaderDrains(k)
  <2>1. at[k] \in Shards
    BY DEF ReaderTypes
  <2>2. lock' \in [States -> [Shards -> {"free", "reader", "handler"}]]
    BY <1>4, <2>1 DEF ReaderDrains, Unlock, ShardTypes
  <2>3. /\ ring' \in [States -> [Shards -> Seq(AllRecords)]]
        /\ \A j \in States, i \in Shards : Len(ring'[j][i]) <= RingCapacity
    <3>1. ring' = [ring EXCEPT ![k][at[k]] = <<>>] /\ <<>> \in Seq(AllRecords) /\ Len(<<>>) <= RingCapacity
      BY <1>4, SignalProfilerAssumption DEF ReaderDrains, SignalProfilerAssumption
    <3> QED BY <2>1, <3>1, RingTypes DEF ShardTypes
  <2>4. at' \in [States -> Shards]
    BY <1>4, <2>1, SignalProfilerAssumption
    DEF ReaderDrains, ReaderTypes, SignalProfilerAssumption, Shards
  <2>5. reader' \in [States -> {"none", "setup", "wait", "lock", "drain", "flush", "gone"}]
    BY <1>4 DEF ReaderDrains, ReaderTypes
  <2>6. IsABagOfSamples(builder[k] (+) Samples(ring[k][at[k]]))
    BY <2>1, AddType, SamplesType DEF ReaderTypes, ShardTypes
  <2>7. DOMAIN builder' = States /\ \A j \in States : IsABagOfSamples(builder'[j])
    BY <1>4, <2>6 DEF ReaderDrains, ReaderTypes
  <2> QED BY <1>4, <2>2, <2>3, <2>4, <2>5, <2>7
          DEF ReaderDrains, ReaderTypes, ShardTypes, NotifyTypes, notifyVars
<1>5. CASE ReaderGoesOn(k)
  BY <1>5 DEF ReaderGoesOn, ReaderTypes, ShardTypes, NotifyTypes, shardVars, notifyVars
<1>6. CASE Flush(k)
  <2>1. IsABagOfSamples(sent')
    BY <1>6, AddType DEF Flush, Send, ReaderTypes
  <2>2. DOMAIN builder' = States /\ \A j \in States : IsABagOfSamples(builder'[j])
    BY <1>6, EmptyBagType DEF Flush, ReaderTypes
  <2> QED BY <1>6, <2>1, <2>2 DEF Flush, ReaderTypes, ShardTypes, NotifyTypes, shardVars, notifyVars
<1>7. CASE Elapses(k)
  BY <1>7 DEF Elapses, ReaderTypes, ShardTypes, NotifyTypes, shardVars, notifyVars
<1> QED BY <1>1, <1>2, <1>3, <1>4, <1>5, <1>6, <1>7 DEF ReaderStep

LEMMA LostType ==
  ASSUME ReaderTypes, lost \subseteq Losses,
         NEW k \in States, ReaderStep(k) \/ Elapses(k)
  PROVE  lost' \subseteq Losses
<1>1. CASE Flush(k)
  <2>1. BagToSet(builder[k]) \subseteq AllSamples
    BY DEF ReaderTypes, IsABagOfSamples
  <2>2. lost' = lost \/ lost' = lost \union {<<s, "not sent">> : s \in BagToSet(builder[k])}
    BY <1>1 DEF Flush, Send
  <2>3. \A s \in AllSamples : <<s, "not sent">> \in Losses
    BY DEF Losses
  <2> QED BY <2>1, <2>2, <2>3
<1>2. Flush(k) \/ lost' = lost
  BY DEF ReaderStep, ReaderSetsUp, ReaderWakes, ReaderLocks, ReaderDrains, ReaderGoesOn, Elapses
<1> QED BY <1>1, <1>2

\* What the calls of start() leave alone.
LEMMA StartFrame ==
  ASSUME NEW c \in Callers, Start(c) \/ StartStep(c)
  PROVE  /\ UNCHANGED <<at, due, builder, sent, shardVars, notifyVars, handler, taken, lost>>
         /\ \/ UNCHANGED reader
            \/ reader' = [reader EXCEPT ![mine[c]] = "setup"] /\ caller[c] = "spawn"
<1>1. CASE SpawnReader(c)
  BY <1>1 DEF SpawnReader, Goes, Fails, shardVars, notifyVars
<1>2. CASE Start(c)
  BY <1>2 DEF Start, readerVars, shardVars, notifyVars
<1>3. CASE InitKindasafe(c)
  BY <1>3 DEF InitKindasafe, readerVars, shardVars, notifyVars
<1>4. CASE Discover(c)
  BY <1>4 DEF Discover, readerVars, shardVars, notifyVars
<1>5. CASE Allocate(c)
  BY <1>5 DEF Allocate, readerVars, shardVars, notifyVars
<1>6. CASE Publish(c)
  BY <1>6 DEF Publish, readerVars, shardVars, notifyVars
<1>7. CASE RegisterHandler(c)
  BY <1>7 DEF RegisterHandler, readerVars, shardVars, notifyVars
<1>8. CASE SanityCheck(c)
  BY <1>8 DEF SanityCheck, readerVars, shardVars, notifyVars
<1>9. CASE StartTimer(c)
  BY <1>9 DEF StartTimer, readerVars, shardVars, notifyVars
<1> QED BY <1>1, <1>2, <1>3, <1>4, <1>5, <1>6, <1>7, <1>8, <1>9 DEF StartStep

\* What handlers leave alone.
LEMMA HandlerFrame ==
  ASSUME NEW t \in Threads, Signal(t) \/ HandlerStep(t)
  PROVE  UNCHANGED <<startVars, readerVars>>
  BY DEF Signal, HandlerStep, TryLock, Unwind, WriteRecord, Notify

LEMMA ReaderFrame ==
  ASSUME NEW k \in States, ReaderStep(k) \/ Elapses(k)
  PROVE  UNCHANGED <<startVars, handler, taken>>
  BY DEF ReaderStep, ReaderSetsUp, ReaderWakes, ReaderLocks, ReaderDrains, ReaderGoesOn, Flush, Elapses

LEMMA HandlerStepTypes ==
  ASSUME TypeOK, ShardInv, NEW t \in Threads, Signal(t) \/ HandlerStep(t)
  PROVE  /\ ShardTypes' /\ NotifyTypes' /\ handler' \in [Threads -> Handlers]
         /\ taken' \in 0..MaxSamples /\ lost' \subseteq Losses
<1> USE SignalProfilerAssumption DEF SignalProfilerAssumption
<1> DEFINE h == handler[t]
<1>1. /\ h \in Handlers /\ h.shard \in Shards /\ h.state \in 0..MaxStarts
      /\ h.attempt \in 0..2 /\ h.sample \in AllSamples \union {NoSample}
  BY DEF TypeOK, Handlers
<1>2. h.pc # "out" => h.sample \in AllSamples /\ h.state \in States
  BY DEF ShardInv, HandlersSample
<1>4. lost \subseteq Losses /\ taken \in 0..MaxSamples
  BY DEF TypeOK
<1>5. CASE Signal(t)
  <2>1. current \in 0..MaxStarts
    BY DEF TypeOK, StartTypes
  <2>2. t % NumShards \in Shards
    BY ShardOf
  <2>3. [tid |-> t, n |-> taken + 1] \in AllSamples /\ taken' \in 0..MaxSamples
    BY <1>4, <1>5 DEF Signal, AllSamples
  <2>4. handler' \in [Threads -> Handlers]
    BY <1>5, <2>1, <2>2, <2>3 DEF Signal, TypeOK, Handlers
  <2> QED BY <1>4, <1>5, <2>3, <2>4 DEF Signal, TypeOK, ShardTypes, NotifyTypes, shardVars, notifyVars
<1>6. CASE TryLock(t)
  <2>1. h.pc # "out" /\ (h.shard + 1) % NumShards \in Shards
    BY <1>1, <1>6, NextShard DEF TryLock
  <2>2. lock' \in [States -> [Shards -> {"free", "reader", "handler"}]]
    <3>1. lock' = lock \/ lock' = [lock EXCEPT ![h.state][h.shard] = "handler"]
      BY <1>6 DEF TryLock
    <3> QED BY <1>1, <1>2, <2>1, <3>1, LockTypes DEF TypeOK, ShardTypes
  <2>3. handler' \in [Threads -> Handlers]
    BY <1>1, <1>6, <2>1, OutsideType DEF TryLock, TypeOK, Handlers, Leaves
  <2>4. lost' \subseteq Losses
    <3>1. lost' = lost \/ lost' = lost \union {<<h.sample, "contention">>}
      BY <1>6 DEF TryLock, Loses
    <3>2. <<h.sample, "contention">> \in Losses
      BY <1>2, <2>1 DEF Losses
    <3> QED BY <1>4, <3>1, <3>2
  <2> QED BY <1>4, <1>6, <2>2, <2>3, <2>4 DEF TryLock, TypeOK, ShardTypes, NotifyTypes, notifyVars
<1>7. CASE Unwind(t)
  <2>1. h.pc # "out"
    BY <1>7 DEF Unwind, Handler, Leaves
  <2>2. lock' \in [States -> [Shards -> {"free", "reader", "handler"}]]
    <3>1. lock' = lock \/ lock' = [lock EXCEPT ![h.state][h.shard] = "free"]
      BY <1>7 DEF Unwind, Unlock
    <3> QED BY <1>1, <1>2, <2>1, <3>1, LockTypes DEF TypeOK, ShardTypes
  <2>3. handler' \in [Threads -> Handlers]
    <3>1. handler' = [handler EXCEPT ![t].pc = "write"] \/ handler' = [handler EXCEPT ![t] = Outside]
      BY <1>7 DEF Unwind, Handler, Leaves
    <3> QED BY <1>1, <3>1, OutsideType DEF TypeOK, Handlers
  <2>4. lost' \subseteq Losses
    <3>1. lost' = lost \/ lost' = lost \union {<<h.sample, "no frames">>}
      BY <1>7 DEF Unwind, Loses
    <3>2. <<h.sample, "no frames">> \in Losses
      BY <1>2, <2>1 DEF Losses
    <3> QED BY <1>4, <3>1, <3>2
  <2>5. frames' \in [States -> [Shards -> AllSamples \union {NoSample}]]
    <3>1. frames' = frames \/ frames' = [frames EXCEPT ![h.state][h.shard] = h.sample]
      BY <1>7 DEF Unwind
    <3> QED BY <1>1, <1>2, <2>1, <3>1, FrameTypes DEF TypeOK, ShardTypes
  <2> QED BY <1>4, <1>7, <2>2, <2>3, <2>4, <2>5 DEF Unwind, TypeOK, ShardTypes, NotifyTypes, notifyVars
<1>8. CASE WriteRecord(t)
  <2> DEFINE record == [tid |-> t, sample |-> frames[h.state][h.shard]]
  <2>1. h.pc = "write" /\ h.pc # "out"
    BY <1>8 DEF WriteRecord, Handler
  <2>2. frames[h.state][h.shard] = h.sample
    BY <2>1 DEF ShardInv, HandlersSample
  <2>3. record \in AllRecords
    BY <1>2, <2>1, <2>2 DEF AllRecords
  <2>4. handler' \in [Threads -> Handlers]
    BY <1>1, <1>8 DEF WriteRecord, Handler, TypeOK, Handlers
  <2>5. lost' \subseteq Losses
    <3>1. lost' = lost \/ lost' = lost \union {<<h.sample, "full">>}
      BY <1>8 DEF WriteRecord, Loses
    <3>2. <<h.sample, "full">> \in Losses
      BY <1>2, <2>1 DEF Losses
    <3> QED BY <1>4, <3>1, <3>2
  <2>6. UNCHANGED ring \/ /\ Len(ring[h.state][h.shard]) < RingCapacity
                          /\ ring' = [ring EXCEPT ![h.state][h.shard] = Append(@, record)]
    BY <1>8 DEF WriteRecord
  <2>7. ring[h.state][h.shard] \in Seq(AllRecords)
    BY <1>1, <1>2, <2>1 DEF TypeOK, ShardTypes
  <2> HIDE DEF record
  <2>8. LET q == Append(ring[h.state][h.shard], record)
        IN  q \in Seq(AllRecords) /\ Len(q) = Len(ring[h.state][h.shard]) + 1
    BY <2>3, <2>7
  <2> DEFINE q == Append(ring[h.state][h.shard], record)
  <2>9. ring' = ring \/ ring' = [ring EXCEPT ![h.state][h.shard] = q]
    BY <2>6
  <2>10. q \in Seq(AllRecords) /\ (ring' # ring => Len(q) <= RingCapacity)
    BY <2>6, <2>7, <2>8
  <2> HIDE DEF q
  <2>11. /\ ring' \in [States -> [Shards -> Seq(AllRecords)]]
         /\ \A j \in States, i \in Shards : Len(ring'[j][i]) <= RingCapacity
    <3>1. CASE ring' = ring
      BY <3>1 DEF TypeOK, ShardTypes
    <3>2. CASE ring' # ring
      <4>1. /\ ring' \in [States -> [Shards -> Seq(AllRecords)]]
            /\ \A j \in States, i \in Shards :
                 ring'[j][i] = IF j = h.state /\ i = h.shard THEN q ELSE ring[j][i]
        BY <1>1, <1>2, <2>1, <2>9, <2>10, <3>2, RingTypes DEF TypeOK
      <4> QED BY <2>10, <3>2, <4>1 DEF TypeOK, ShardTypes
    <3> QED BY <3>1, <3>2
  <2> QED BY <1>4, <1>8, <2>4, <2>5, <2>11 DEF WriteRecord, TypeOK, ShardTypes, NotifyTypes, notifyVars
<1>9. CASE Notify(t)
  <2>1. h.state \in States
    BY <1>2, <1>9 DEF Notify, Leaves
  <2>2. lock' \in [States -> [Shards -> {"free", "reader", "handler"}]]
    BY <1>1, <1>9, <2>1 DEF Notify, TypeOK, ShardTypes, Unlock
  <2>3. handler' \in [Threads -> Handlers]
    BY <1>9, OutsideType DEF Notify, TypeOK, Leaves
  <2>4. counter' \in [States -> 0..(Interval - 1)]
    BY <1>9, <2>1, CountType DEF Notify, TypeOK, NotifyTypes
  <2>5. eventfd' \in [States -> BOOLEAN] /\ news' \in [States -> BOOLEAN]
    BY <1>9, <2>1 DEF Notify, TypeOK, NotifyTypes
  <2> QED BY <1>4, <1>9, <2>2, <2>3, <2>4, <2>5 DEF Notify, TypeOK, ShardTypes, NotifyTypes
<1> QED BY <1>5, <1>6, <1>7, <1>8, <1>9 DEF HandlerStep

\* The invariant reads of the reader threads only which of them drain.
LEMMA ShardInvStart ==
  ASSUME TypeOK, ShardInv, NEW c \in Callers, Start(c) \/ StartStep(c)
  PROVE  ShardInv'
<1>1. /\ UNCHANGED <<lock, frames, ring, handler, at, taken>>
      /\ \A k \in States : reader'[k] = "drain" => reader[k] = "drain"
  BY StartFrame DEF TypeOK, ReaderTypes, shardVars, notifyVars
<1>2. HandlersLock' /\ HandlersSample' /\ WholeRecords'
  BY <1>1 DEF ShardInv, HandlersLock, HandlersSample, WholeRecords, Holds
<1>3. ReaderLocked'
  BY <1>1 DEF ShardInv, ReaderLocked
<1> QED BY <1>2, <1>3 DEF ShardInv

LEMMA ShardInvReader ==
  ASSUME TypeOK, ShardInv, NEW k \in States, ReaderStep(k) \/ Elapses(k)
  PROVE  ShardInv'
<1> USE DEF ShardInv
<1>1. handler' = handler /\ taken' = taken
  BY ReaderFrame DEF startVars
<1>2. \A t \in Threads : Holds(handler[t]) => handler[t].state \in States /\ handler[t].shard \in Shards
  BY DEF HandlersSample, Holds, TypeOK, Handlers
<1>3. at[k] \in Shards
  BY DEF TypeOK, ReaderTypes
<1>4. CASE UNCHANGED <<lock, frames, ring, at>> /\ reader'[k] # "drain"
           /\ \A j \in States \ {k} : reader'[j] = reader[j]
  BY <1>1, <1>4 DEF HandlersLock, ReaderLocked, HandlersSample, WholeRecords, Holds
<1>5. CASE ReaderLocks(k)
  <2>1. /\ \A j \in States, i \in Shards : lock'[j][i] = IF j = k /\ i = at[k] THEN "reader" ELSE lock[j][i]
        /\ lock[k][at[k]] = "free" /\ frames' = frames /\ ring' = ring /\ at' = at
    <3>1. lock' = [lock EXCEPT ![k][at[k]] = "reader"]
      BY <1>5 DEF ReaderLocks
    <3> QED BY <1>3, <1>5, <3>1, LockTypes DEF ReaderLocks, TypeOK
  <2>2. \A j \in States \ {k} : reader'[j] = reader[j]
    BY <1>5 DEF ReaderLocks, Reads, TypeOK, ReaderTypes
  <2>3. HandlersLock'
    BY <1>1, <1>2, <2>1 DEF HandlersLock, Holds
  <2>4. ReaderLocked'
    BY <1>3, <2>1, <2>2 DEF ReaderLocked, TypeOK, ReaderTypes
  <2>5. HandlersSample' /\ WholeRecords'
    BY <1>1, <2>1 DEF HandlersSample, WholeRecords
  <2> QED BY <2>3, <2>4, <2>5
<1>6. CASE ReaderDrains(k)
  <2>1. /\ \A j \in States, i \in Shards : lock'[j][i] = IF j = k /\ i = at[k] THEN "free" ELSE lock[j][i]
        /\ frames' = frames
    <3> DEFINE shard == at[k]
    <3>1. lock' = [lock EXCEPT ![k][shard] = "free"] /\ frames' = frames
      BY <1>6 DEF ReaderDrains, Unlock
    <3>2. ShardTypes /\ shard \in Shards
      BY <1>3 DEF TypeOK
    <3> HIDE DEF shard
    <3>3. \A j \in States, i \in Shards :
            lock'[j][i] = IF j = k /\ i = shard THEN "free" ELSE lock[j][i]
      BY <3>1, <3>2 DEF ShardTypes
    <3> QED BY <3>1, <3>3 DEF shard
  <2>2. lock[k][at[k]] = "reader"
    BY <1>6 DEF ReaderDrains, ReaderLocked
  <2>3. /\ \A j \in States \ {k} : reader'[j] = reader[j] /\ at'[j] = at[j]
        /\ reader'[k] # "drain"
    BY <1>6 DEF ReaderDrains, TypeOK, ReaderTypes
  <2>4. \A j \in States, i \in Shards : ring'[j][i] = IF j = k /\ i = at[k] THEN <<>> ELSE ring[j][i]
    <3>1. <<>> \in Seq(AllRecords)
      OBVIOUS
    <3> QED BY <1>3, <1>6, <3>1, RingTypes DEF ReaderDrains, TypeOK
  <2>5. HandlersLock'
    BY <1>1, <1>2, <2>1, <2>2 DEF HandlersLock, Holds
  <2>6. ReaderLocked'
    BY <1>3, <2>1, <2>3 DEF ReaderLocked, TypeOK, ReaderTypes
  <2>7. HandlersSample'
    BY <1>1, <2>1 DEF HandlersSample
  <2>8. WholeRecords'
    BY <2>4 DEF WholeRecords
  <2> QED BY <2>5, <2>6, <2>7, <2>8
<1>7. CASE ReaderSetsUp(k) \/ ReaderWakes(k) \/ ReaderGoesOn(k) \/ Flush(k)
  BY <1>4, <1>7
  DEF ReaderSetsUp, ReaderWakes, ReaderGoesOn, Flush, Reads, shardVars, TypeOK, ReaderTypes
<1>8. CASE Elapses(k)
  BY <1>1, <1>8
  DEF Elapses, HandlersLock, ReaderLocked, HandlersSample, WholeRecords, Holds, shardVars
<1> QED BY <1>5, <1>6, <1>7, <1>8 DEF ReaderStep

\* A handler's step sets the record of its thread only.
LEMMA OneHandler ==
  ASSUME TypeOK, NEW t \in Threads, Signal(t) \/ HandlerStep(t)
  PROVE  \A u \in Threads \ {t} : handler'[u] = handler[u]
  BY DEF TypeOK, HandlerStep, Signal, TryLock, Unwind, WriteRecord, Notify, Handler, Leaves

\* It takes a lock that is free, and frees the one it has.
LEMMA HandlersLockStep ==
  ASSUME TypeOK, ShardInv, NEW t \in Threads, Signal(t) \/ HandlerStep(t)
  PROVE  HandlersLock' /\ ReaderLocked'
<1> DEFINE h == handler[t]
<1> USE DEF ShardInv, Holds
<1>1. \A u \in Threads : /\ handler[u].shard \in Shards
                         /\ handler[u].pc # "out" => handler[u].state \in States
  BY DEF TypeOK, Handlers, HandlersSample
<1>2. reader' = reader /\ at' = at
  BY HandlerFrame DEF readerVars
<1>3. \A k \in States : at[k] \in Shards
  BY DEF TypeOK, ReaderTypes
<1>4. \A u \in Threads \ {t} : handler'[u] = handler[u]
  BY OneHandler
<1>5. ASSUME lock' = lock,
             Holds(handler'[t]) => /\ Holds(h) /\ handler'[t].state = h.state
                                   /\ handler'[t].shard = h.shard
      PROVE  HandlersLock' /\ ReaderLocked'
  BY <1>2, <1>4, <1>5 DEF HandlersLock, ReaderLocked
<1>6. ASSUME lock' = [lock EXCEPT ![h.state][h.shard] = "free"], Holds(h), ~ Holds(handler'[t])
      PROVE  HandlersLock' /\ ReaderLocked'
  <2>1. \A k \in States, i \in Shards :
          lock'[k][i] = IF k = h.state /\ i = h.shard THEN "free" ELSE lock[k][i]
    <3>1. ShardTypes /\ h.state \in States /\ h.shard \in Shards
      BY <1>1, <1>6 DEF TypeOK
    <3> HIDE DEF h
    <3> QED BY <1>6, <3>1, LockTypes
  <2>2. lock[h.state][h.shard] = "handler"
    BY <1>6 DEF HandlersLock
  <2>3. HandlersLock'
    BY <1>1, <1>4, <1>6, <2>1 DEF HandlersLock
  <2>4. ReaderLocked'
    BY <1>2, <1>3, <2>1, <2>2 DEF ReaderLocked
  <2> QED BY <2>3, <2>4
<1>7. ASSUME lock[h.state][h.shard] = "free", lock' = [lock EXCEPT ![h.state][h.shard] = "handler"],
             h.pc # "out", handler'[t].state = h.state, handler'[t].shard = h.shard
      PROVE  HandlersLock' /\ ReaderLocked'
  <2>1. \A k \in States, i \in Shards :
          lock'[k][i] = IF k = h.state /\ i = h.shard THEN "handler" ELSE lock[k][i]
    <3>1. ShardTypes /\ h.state \in States /\ h.shard \in Shards
      BY <1>1, <1>7 DEF TypeOK
    <3> HIDE DEF h
    <3> QED BY <1>7, <3>1, LockTypes
  <2>2. \A u \in Threads \ {t} :
          Holds(handler[u]) => handler[u].state # h.state \/ handler[u].shard # h.shard
    BY <1>7 DEF HandlersLock
  <2>3. HandlersLock'
    BY <1>1, <1>4, <1>7, <2>1, <2>2 DEF HandlersLock
  <2>4. ReaderLocked'
    BY <1>2, <1>3, <1>7, <2>1 DEF ReaderLocked
  <2> QED BY <2>3, <2>4
<1>8. NoSample # h.sample \/ h.pc = "out"
  BY NoSampleType DEF HandlersSample
<1>9. CASE Signal(t)
  BY <1>5, <1>9 DEF Signal, shardVars, TypeOK
<1>10. CASE TryLock(t)
  <2>1. \/ /\ lock[h.state][h.shard] = "free" /\ handler'[t].state = h.state /\ handler'[t].shard = h.shard
           /\ lock' = [lock EXCEPT ![h.state][h.shard] = "handler"]
        \/ lock' = lock /\ ~ Holds(handler'[t])
    BY <1>10, NoSampleType DEF TryLock, Leaves, TypeOK, Handlers
  <2> QED BY <1>5, <1>7, <1>10, <2>1 DEF TryLock
<1>11. CASE Unwind(t)
  <2>1. \/ lock' = lock /\ handler'[t].state = h.state /\ handler'[t].shard = h.shard
        \/ lock' = [lock EXCEPT ![h.state][h.shard] = "free"] /\ ~ Holds(handler'[t])
    <3>1. handler \in [Threads -> Handlers]
      BY DEF TypeOK
    <3>2. CASE Handler(t, "unwind", "write") /\ lock' = lock
      BY <3>1, <3>2 DEF Handler, Handlers
    <3>3. CASE Leaves(t, "unwind") /\ Unlock(h.state, h.shard)
      BY <3>1, <3>3, NoSampleType DEF Leaves, Unlock, Holds
    <3> QED BY <1>11, <3>2, <3>3 DEF Unwind
  <2>2. Holds(h)
    BY <1>11 DEF Unwind, Handler, Leaves
  <2> QED BY <1>5, <1>6, <2>1, <2>2
<1>12. CASE WriteRecord(t)
  <2>1. Holds(h) /\ lock' = lock /\ handler'[t].state = h.state /\ handler'[t].shard = h.shard
    BY <1>12 DEF WriteRecord, Handler, TypeOK, Handlers
  <2> QED BY <1>5, <2>1
<1>13. CASE Notify(t)
  <2>1. Holds(h) /\ ~ Holds(handler'[t]) /\ lock' = [lock EXCEPT ![h.state][h.shard] = "free"]
    BY <1>13, NoSampleType DEF Notify, Unlock, Leaves, TypeOK, Handlers
  <2> QED BY <1>6, <2>1
<1> QED BY <1>9, <1>10, <1>11, <1>12, <1>13 DEF HandlerStep

LEMMA HandlersSampleStep ==
  ASSUME TypeOK, ShardInv, NEW t \in Threads, Signal(t) \/ HandlerStep(t)
  PROVE  HandlersSample' /\ WholeRecords'
<1> DEFINE h == handler[t]
<1> USE DEF ShardInv
<1>1. /\ h.shard \in Shards
      /\ h.pc # "out" => h.state \in States
      /\ \A u \in Threads : handler[u].shard \in Shards
  BY DEF TypeOK, Handlers, HandlersSample
<1>2. \A u \in Threads \ {t} : handler'[u] = handler[u]
  BY OneHandler
<1>3. taken \in Nat /\ taken' \in Nat /\ taken' >= taken
  <2>1. taken \in Nat
    BY DEF TypeOK
  <2>2. taken' = taken \/ taken' = taken + 1
    BY DEF Signal, HandlerStep, TryLock, Unwind, WriteRecord, Notify
  <2> QED BY <2>1, <2>2
<1>4. ASSUME handler'[t] = Outside \/ /\ handler'[t].pc \in {"lock", "unwind", "notify"} /\ h.pc # "out"
                                      /\ handler'[t].sample = h.sample /\ handler'[t].state = h.state,
             frames' = frames
      PROVE  HandlersSample'
  BY <1>2, <1>3, <1>4, NoSampleType DEF HandlersSample
<1>5. CASE Signal(t)
  <2>1. /\ handler'[t] = [pc |-> "lock", state |-> current, attempt |-> 0, shard |-> t % NumShards,
                          sample |-> [tid |-> t, n |-> taken + 1]]
        /\ current \in States /\ taken' = taken + 1 /\ taken' \in 1..MaxSamples
        /\ frames' = frames /\ ring' = ring
    BY <1>5, SignalProfilerAssumption
    DEF Signal, TypeOK, StartTypes, States, shardVars, SignalProfilerAssumption
  <2>2. handler'[t].sample \in AllSamples /\ handler'[t].sample.tid = t /\ handler'[t].sample.n \in 1..taken'
    BY <1>3, <2>1 DEF AllSamples
  <2>3. HandlersSample'
    BY <1>2, <1>3, <2>1, <2>2 DEF HandlersSample
  <2> QED BY <2>1, <2>3 DEF WholeRecords
<1>6. CASE TryLock(t)
  <2>1. \/ handler'[t] = Outside
        \/ /\ handler'[t].pc \in {"lock", "unwind"} /\ h.pc # "out"
           /\ handler'[t].sample = h.sample /\ handler'[t].state = h.state
    BY <1>6 DEF TryLock, Leaves, TypeOK, Handlers
  <2> QED BY <1>4, <1>6, <2>1 DEF TryLock, WholeRecords
<1>7. CASE Unwind(t)
  <2>1. ring' = ring
    BY <1>7 DEF Unwind
  <2>2. CASE handler'[t] = Outside /\ frames' = frames
    BY <1>4, <2>1, <2>2 DEF WholeRecords
  <2>3. CASE handler' = [handler EXCEPT ![t].pc = "write"] /\ h.pc = "unwind"
             /\ frames' = [frames EXCEPT ![h.state][h.shard] = h.sample]
    <3>1. /\ handler'[t].pc = "write" /\ handler'[t].sample = h.sample
          /\ handler'[t].state = h.state /\ handler'[t].shard = h.shard
      BY <2>3 DEF TypeOK, Handlers
    <3>2. h.sample \in AllSamples /\ h.sample.tid = t /\ h.sample.n \in 1..taken /\ h.state \in States
      BY <2>3 DEF HandlersSample
    <3>3. \A k \in States, i \in Shards :
            frames'[k][i] = IF k = h.state /\ i = h.shard THEN h.sample ELSE frames[k][i]
      BY <1>1, <2>3, <3>2, FrameTypes DEF TypeOK
    <3>4. \A u \in Threads \ {t} :
            handler[u].pc = "write" => handler[u].state # h.state \/ handler[u].shard # h.shard
      BY <2>3 DEF HandlersLock, Holds
    <3>5. HandlersSample'
      BY <1>1, <1>2, <1>3, <3>1, <3>2, <3>3, <3>4 DEF HandlersSample
    <3> QED BY <2>1, <3>5 DEF WholeRecords
  <2> QED BY <1>7, <2>2, <2>3 DEF Unwind, Handler, Leaves, TypeOK
<1>8. CASE WriteRecord(t)
  <2> DEFINE record == [tid |-> t, sample |-> frames[h.state][h.shard]]
             q == ring[h.state][h.shard]
  <2>1. /\ h.pc = "write" /\ handler'[t].pc = "notify" /\ frames' = frames
        /\ handler'[t].sample = h.sample /\ handler'[t].state = h.state
    BY <1>8 DEF WriteRecord, Handler, TypeOK, Handlers
  <2>2. HandlersSample'
    BY <1>4, <2>1
  <2>3. h.state \in States /\ h.sample \in AllSamples /\ record.sample = h.sample /\ h.sample.tid = t
    BY <2>1 DEF HandlersSample
  <2>4. record \in AllRecords /\ record.tid = record.sample.tid
    BY <2>3 DEF AllRecords
  <2>5. q \in Seq(AllRecords)
    BY <1>1, <2>3 DEF TypeOK, ShardTypes
  <2>6. ring' = ring \/ ring' = [ring EXCEPT ![h.state][h.shard] = Append(q, record)]
    BY <1>8 DEF WriteRecord
  <2> HIDE DEF record
  <2>7. \A j \in DOMAIN Append(q, record) :
          Append(q, record)[j] = record \/ (j \in DOMAIN q /\ Append(q, record)[j] = q[j])
    BY <2>4, <2>5
  <2>8. Append(q, record) \in Seq(AllRecords)
    BY <2>4, <2>5
  <2>9. ASSUME ring' # ring
        PROVE  \A k \in States, i \in Shards :
                 ring'[k][i] = IF k = h.state /\ i = h.shard THEN Append(q, record) ELSE ring[k][i]
    <3> DEFINE v == Append(q, record)
    <3>1. ring' = [ring EXCEPT ![h.state][h.shard] = v] /\ v \in Seq(AllRecords)
      BY <2>6, <2>8, <2>9
    <3> HIDE DEF v
    <3>2. \A k \in States, i \in Shards :
            ring'[k][i] = IF k = h.state /\ i = h.shard THEN v ELSE ring[k][i]
      BY <1>1, <2>3, <3>1, RingTypes DEF TypeOK
    <3> QED BY <3>2 DEF v
  <2> HIDE DEF q
  <2>10. \A j \in DOMAIN q : q[j].tid = q[j].sample.tid
    BY <1>1, <2>3 DEF q, WholeRecords
  <2>11. WholeRecords'
    <3>1. CASE ring' = ring
      BY <3>1 DEF WholeRecords
    <3>2. CASE ring' # ring
      <4> SUFFICES ASSUME NEW k \in States, NEW i \in Shards, NEW j \in DOMAIN ring'[k][i]
                   PROVE  ring'[k][i][j].tid = ring'[k][i][j].sample.tid
        BY DEF WholeRecords
      <4>1. CASE k = h.state /\ i = h.shard
        <5>1. ring'[k][i] = Append(q, record)
          BY <2>9, <3>2, <4>1
        <5> QED BY <2>4, <2>7, <2>10, <5>1
      <4>2. CASE ~ (k = h.state /\ i = h.shard)
        <5>1. ring'[k][i] = ring[k][i]
          BY <2>9, <3>2, <4>2
        <5> QED BY <5>1 DEF WholeRecords
      <4> QED BY <4>1, <4>2
    <3> QED BY <3>1, <3>2
  <2> QED BY <2>2, <2>11
<1>9. CASE Notify(t)
  <2>1. handler'[t] = Outside /\ frames' = frames /\ ring' = ring
    BY <1>9 DEF Notify, Leaves, TypeOK
  <2> QED BY <1>4, <2>1 DEF WholeRecords
<1> QED BY <1>5, <1>6, <1>7, <1>8, <1>9 DEF HandlerStep

-----------------------------------------------------------------------------
(* A sample is at one place                                                *)

\* A sample that was taken has one place, one that was not has none.
OnePlaceInv ==
  \A n \in 1..MaxSamples : IF n <= taken THEN \E p : Places(n) = {p} ELSE Places(n) = {}

\* Nothing but the place of a sample changes in a step.
Moves(n) == \/ Places(n)' = Places(n)
            \/ \E p \in Places(n) : \E q : Places(n)' = (Places(n) \ {p}) \union {q}

LEMMA MovesIsEnough ==
  ASSUME OnePlaceInv, taken' = taken, \A n \in 1..MaxSamples : Moves(n)
  PROVE  OnePlaceInv'
<1> SUFFICES ASSUME NEW n \in 1..MaxSamples
             PROVE  IF n <= taken THEN \E p : Places(n)' = {p} ELSE Places(n)' = {}
  BY DEF OnePlaceInv
<1> DEFINE P == Places(n)
           Q == Places(n)'
<1>1. IF n <= taken THEN \E p : P = {p} ELSE P = {}
  BY DEF OnePlaceInv
<1>2. Q = P \/ \E p \in P : \E q : Q = (P \ {p}) \union {q}
  BY DEF Moves
<1> HIDE DEF P, Q
<1>3. CASE n <= taken
  <2>1. PICK p : P = {p}
    BY <1>1, <1>3
  <2>2. Q = {p} \/ \E q : Q = {q}
    BY <1>2, <2>1
  <2> QED BY <1>3, <2>2 DEF Q
<1>4. CASE ~ (n <= taken)
  BY <1>1, <1>2, <1>4 DEF Q
<1> QED BY <1>3, <1>4

LEMMA HandlerPlacesMember ==
  ASSUME NEW n, NEW p
  PROVE  p \in HandlerPlaces(n) <=>
           \E t \in Threads : /\ handler[t].sample.n = n /\ handler[t].pc # "notify"
                              /\ p = <<"handler", t, 0, 0>>
  BY DEF HandlerPlaces

\* RingPlaces of any rings.
RecordPlaces(r, n) ==
  UNION {{<<"ring", k, i, j>> : j \in {x \in DOMAIN r[k][i] : r[k][i][x].sample.n = n}} :
           k \in States, i \in Shards}

LEMMA RecordPlacesMember ==
  ASSUME NEW r, NEW n, NEW p
  PROVE  p \in RecordPlaces(r, n) <=>
           \E k \in States, i \in Shards : \E j \in DOMAIN r[k][i] :
             r[k][i][j].sample.n = n /\ p = <<"ring", k, i, j>>
<1> DEFINE in(k, i) == {<<"ring", k, i, j>> : j \in {x \in DOMAIN r[k][i] : r[k][i][x].sample.n = n}}
<1>1. RecordPlaces(r, n) = UNION {in(k, i) : k \in States, i \in Shards}
  BY DEF RecordPlaces
<1>2. ASSUME NEW k, NEW i
      PROVE  p \in in(k, i) <=>
               \E j \in DOMAIN r[k][i] : r[k][i][j].sample.n = n /\ p = <<"ring", k, i, j>>
  OBVIOUS
<1> HIDE DEF in
<1>3. p \in RecordPlaces(r, n) <=> \E k \in States, i \in Shards : p \in in(k, i)
  BY <1>1
<1> QED BY <1>2, <1>3

LEMMA RingPlacesAre ==
  ASSUME NEW n
  PROVE  RingPlaces(n) = RecordPlaces(ring, n) /\ RingPlaces(n)' = RecordPlaces(ring', n)
  BY DEF RingPlaces, RecordPlaces

LEMMA BagPlacesMember ==
  ASSUME NEW kind, NEW k, NEW b, NEW n, NEW p
  PROVE  p \in BagPlaces(kind, k, b, n) <=>
           \E s \in DOMAIN b : s.n = n /\ \E copy \in 1..b[s] : p = <<kind, k, s, copy>>
  BY DEF BagPlaces, BagToSet

LEMMA LostPlacesMember ==
  ASSUME NEW n, NEW p
  PROVE  p \in LostPlaces(n) <=> \E l \in lost : l[1].n = n /\ p = <<"lost", 0, l[1], l[2]>>
  BY DEF LostPlaces

LEMMA BuilderPlacesMember ==
  ASSUME NEW n, NEW p
  PROVE  p \in BuilderPlaces(n) <=> \E k \in States : p \in BagPlaces("builder", k, builder[k], n)
  BY DEF BuilderPlaces

\* Bags without the sample, and with it once.
LEMMA BagPlacesAdd ==
  ASSUME NEW kind, NEW k, NEW a, NEW b, IsABagOfSamples(a), IsABagOfSamples(b), NEW n
  PROVE  /\ (\A s \in DOMAIN b : s.n # n) => BagPlaces(kind, k, a (+) b, n) = BagPlaces(kind, k, a, n)
         /\ (\A s \in DOMAIN a : s.n # n) => BagPlaces(kind, k, a (+) b, n) = BagPlaces(kind, k, b, n)
<1>1. /\ \A s \in DOMAIN a : a[s] \in Nat
      /\ \A s \in DOMAIN b : b[s] \in Nat
  BY DEF IsABagOfSamples, IsABag
<1>2. DOMAIN (a (+) b) = DOMAIN a \union DOMAIN b
  BY DEF (+)
<1>3. /\ \A s \in DOMAIN a : s \notin DOMAIN b => (a (+) b)[s] = a[s]
      /\ \A s \in DOMAIN b : s \notin DOMAIN a => (a (+) b)[s] = b[s]
  BY <1>1 DEF (+)
<1> HIDE DEF (+)
<1>4. ASSUME \A s \in DOMAIN b : s.n # n
      PROVE  BagPlaces(kind, k, a (+) b, n) = BagPlaces(kind, k, a, n)
  <2>1. \A p : p \in BagPlaces(kind, k, a (+) b, n) <=> p \in BagPlaces(kind, k, a, n)
    BY <1>2, <1>3, <1>4, BagPlacesMember
  <2> QED BY <2>1
<1>5. ASSUME \A s \in DOMAIN a : s.n # n
      PROVE  BagPlaces(kind, k, a (+) b, n) = BagPlaces(kind, k, b, n)
  <2>1. \A p : p \in BagPlaces(kind, k, a (+) b, n) <=> p \in BagPlaces(kind, k, b, n)
    BY <1>2, <1>3, <1>5, BagPlacesMember
  <2> QED BY <2>1
<1> QED BY <1>4, <1>5

LEMMA BagPlacesNone ==
  ASSUME NEW kind, NEW k, NEW b, IsABagOfSamples(b), NEW n
  PROVE  BagPlaces(kind, k, b, n) = {} <=> \A s \in DOMAIN b : s.n # n
<1>1. \A s \in DOMAIN b : b[s] \in Nat /\ b[s] > 0
  BY DEF IsABagOfSamples, IsABag
<1>2. \A s \in DOMAIN b : s.n = n => <<kind, k, s, 1>> \in BagPlaces(kind, k, b, n)
  BY <1>1, BagPlacesMember
<1>3. \A p \in BagPlaces(kind, k, b, n) : \E s \in DOMAIN b : s.n = n
  BY BagPlacesMember
<1> QED BY <1>2, <1>3

LEMMA BagPlacesOnce ==
  ASSUME NEW kind, NEW k, NEW b, NEW n, NEW s \in DOMAIN b, s.n = n, b[s] = 1,
         \A z \in DOMAIN b : z.n = n => z = s
  PROVE  BagPlaces(kind, k, b, n) = {<<kind, k, s, 1>>}
<1>1. \A p : p \in BagPlaces(kind, k, b, n) <=> p = <<kind, k, s, 1>>
  BY BagPlacesMember
<1> QED BY <1>1

\* The samples of the records are in the bag, as often as they have records.
LEMMA DrainedMember ==
  ASSUME NEW q \in Seq(AllRecords)
  PROVE  /\ \A s : s \in DOMAIN Samples(q) <=> \E j \in DOMAIN q : q[j].sample = s
         /\ \A s \in DOMAIN Samples(q) : Samples(q)[s] = Cardinality({j \in DOMAIN q : q[j].sample = s})
  BY DEF Samples

\* A sample with one record is drained once.
LEMMA DrainedOnce ==
  ASSUME NEW q \in Seq(AllRecords), NEW j \in DOMAIN q, NEW n, q[j].sample.n = n,
         \A i \in DOMAIN q : q[i].sample.n = n => i = j
  PROVE  /\ q[j].sample \in DOMAIN Samples(q) /\ Samples(q)[q[j].sample] = 1
         /\ \A s \in DOMAIN Samples(q) : s.n = n => s = q[j].sample
<1>1. {i \in DOMAIN q : q[i].sample = q[j].sample} = {j}
  OBVIOUS
<1>2. q[j].sample \in DOMAIN Samples(q)
  BY DrainedMember
<1>3. Samples(q)[q[j].sample] = 1
  <2>1. Samples(q)[q[j].sample] = Cardinality({i \in DOMAIN q : q[i].sample = q[j].sample})
    BY <1>2, DrainedMember
  <2>2. Cardinality({j}) = 1
    BY FS_Singleton
  <2> QED BY <1>1, <2>1, <2>2
<1> QED BY <1>2, <1>3, DrainedMember

\* A handler's step: what becomes of its record, and of its thread's place.
LEMMA HandlerPlacesStep ==
  ASSUME TypeOK, NEW t \in Threads, NEW x, handler' = [handler EXCEPT ![t] = x], NEW n
  PROVE  /\ x.sample.n = n /\ x.pc # "notify"
              => HandlerPlaces(n)' = HandlerPlaces(n) \union {<<"handler", t, 0, 0>>}
         /\ ~ (x.sample.n = n /\ x.pc # "notify")
              => HandlerPlaces(n)' = HandlerPlaces(n) \ {<<"handler", t, 0, 0>>}
<1> DEFINE place(u) == <<"handler", u, 0, 0>>
<1>1. handler'[t] = x /\ \A u \in Threads \ {t} : handler'[u] = handler[u]
  BY DEF TypeOK
<1>2. \A p : p \in HandlerPlaces(n)' <=>
               \E u \in Threads : /\ handler'[u].sample.n = n /\ handler'[u].pc # "notify"
                                  /\ p = place(u)
  BY DEF HandlerPlaces
<1>3. \A p : p \in HandlerPlaces(n) <=>
               \E u \in Threads : /\ handler[u].sample.n = n /\ handler[u].pc # "notify"
                                  /\ p = place(u)
  BY DEF HandlerPlaces
<1>4. \A u, w \in Threads : place(u) = place(w) => u = w
  OBVIOUS
<1> HIDE DEF place
<1>5. \A p : p \in HandlerPlaces(n)' <=>
               \/ p \in HandlerPlaces(n) \ {place(t)}
               \/ p = place(t) /\ x.sample.n = n /\ x.pc # "notify"
  BY <1>1, <1>2, <1>3, <1>4
<1>6. ASSUME x.sample.n = n /\ x.pc # "notify"
      PROVE  HandlerPlaces(n)' = HandlerPlaces(n) \union {place(t)}
  BY <1>5, <1>6
<1>7. ASSUME ~ (x.sample.n = n /\ x.pc # "notify")
      PROVE  HandlerPlaces(n)' = HandlerPlaces(n) \ {place(t)}
  BY <1>5, <1>7
<1> QED BY <1>6, <1>7 DEF place

\* The handler of a thread holds its sample until it has written it.
LEMMA HandlerHasPlace ==
  ASSUME NEW t \in Threads, NEW n
  PROVE  <<"handler", t, 0, 0>> \in HandlerPlaces(n)
           <=> handler[t].sample.n = n /\ handler[t].pc # "notify"
<1>1. \A u \in Threads : <<"handler", t, 0, 0>> = <<"handler", u, 0, 0>> => u = t
  OBVIOUS
<1> QED BY <1>1, HandlerPlacesMember

LEMMA LostPlacesStep ==
  ASSUME NEW s, NEW why, Loses(s, why), NEW n
  PROVE  LostPlaces(n)' = LostPlaces(n) \union (IF s.n = n THEN {<<"lost", 0, s, why>>} ELSE {})
<1> DEFINE l == <<s, why>>
           new == IF s.n = n THEN {<<"lost", 0, s, why>>} ELSE {}
<1>1. \A m : m \in lost' <=> m \in lost \/ m = l
  BY DEF Loses
<1>2. \A p : p \in LostPlaces(n)' <=> \E m \in lost' : m[1].n = n /\ p = <<"lost", 0, m[1], m[2]>>
  BY DEF LostPlaces
<1>3. l[1] = s /\ l[2] = why
  OBVIOUS
<1>4. \A p : p \in new <=> s.n = n /\ p = <<"lost", 0, s, why>>
  OBVIOUS
<1> HIDE DEF l, new
<1>5. \A p : p \in LostPlaces(n)' <=> p \in LostPlaces(n) \/ p \in new
  BY <1>1, <1>2, <1>3, <1>4, LostPlacesMember
<1>6. LostPlaces(n)' = LostPlaces(n) \union new
  BY <1>5
<1> QED BY <1>6 DEF new

\* The rings g are the rings f with a record more in one.
Appended(f, g, k, i, r) ==
  /\ f \in [States -> [Shards -> Seq(AllRecords)]]
  /\ \A a \in States, b \in Shards :
       g[a][b] = IF a = k /\ b = i THEN Append(f[k][i], r) ELSE f[a][b]

LEMMA RecordPlacesStep ==
  ASSUME NEW f, NEW g, NEW k \in States, NEW i \in Shards, NEW r \in AllRecords,
         Appended(f, g, k, i, r), NEW n
  PROVE  RecordPlaces(g, n) = RecordPlaces(f, n)
           \union (IF r.sample.n = n THEN {<<"ring", k, i, Len(f[k][i]) + 1>>} ELSE {})
<1> USE DEF Appended
<1> DEFINE q == f[k][i]
           v == Append(q, r)
           last == Len(q) + 1
           new == IF r.sample.n = n THEN {<<"ring", k, i, last>>} ELSE {}
<1>1. q \in Seq(AllRecords)
  OBVIOUS
<1>2. /\ DOMAIN v = DOMAIN q \union {last} /\ v[last] = r
      /\ last \notin DOMAIN q /\ \A j \in DOMAIN q : v[j] = q[j]
  BY <1>1
<1>3. \A p : p \in new <=> r.sample.n = n /\ p = <<"ring", k, i, last>>
  OBVIOUS
<1>4. \A a \in States, b \in Shards : g[a][b] = IF a = k /\ b = i THEN v ELSE f[a][b]
  OBVIOUS
<1> HIDE DEF v, last, new
<1>5. ASSUME NEW p
      PROVE  p \in RecordPlaces(g, n) <=> p \in RecordPlaces(f, n) \/ p \in new
  <2>1. ASSUME p \in RecordPlaces(g, n)
        PROVE  p \in RecordPlaces(f, n) \/ p \in new
    <3>1. PICK a \in States, b \in Shards :
                 \E j \in DOMAIN g[a][b] : g[a][b][j].sample.n = n /\ p = <<"ring", a, b, j>>
      BY <2>1, RecordPlacesMember
    <3>2. PICK j \in DOMAIN g[a][b] : g[a][b][j].sample.n = n /\ p = <<"ring", a, b, j>>
      BY <3>1
    <3>3. CASE a = k /\ b = i /\ j = last
      BY <1>2, <1>3, <1>4, <3>2, <3>3
    <3>4. CASE ~ (a = k /\ b = i /\ j = last)
      <4>1. j \in DOMAIN f[a][b] /\ g[a][b][j] = f[a][b][j]
        BY <1>2, <1>4, <3>2, <3>4
      <4> QED BY <3>2, <4>1, RecordPlacesMember
    <3> QED BY <3>3, <3>4
  <2>2. ASSUME p \in RecordPlaces(f, n)
        PROVE  p \in RecordPlaces(g, n)
    <3>1. PICK a \in States, b \in Shards :
                 \E j \in DOMAIN f[a][b] : f[a][b][j].sample.n = n /\ p = <<"ring", a, b, j>>
      BY <2>2, RecordPlacesMember
    <3>2. PICK j \in DOMAIN f[a][b] : f[a][b][j].sample.n = n /\ p = <<"ring", a, b, j>>
      BY <3>1
    <3>3. j \in DOMAIN g[a][b] /\ g[a][b][j] = f[a][b][j]
      BY <1>2, <1>4, <3>2
    <3> QED BY <3>2, <3>3, RecordPlacesMember
  <2>3. ASSUME p \in new
        PROVE  p \in RecordPlaces(g, n)
    <3>1. r.sample.n = n /\ p = <<"ring", k, i, last>> /\ last \in DOMAIN g[k][i] /\ g[k][i][last] = r
      BY <1>2, <1>3, <1>4, <2>3
    <3> QED BY <3>1, RecordPlacesMember
  <2> QED BY <2>1, <2>2, <2>3
<1>6. RecordPlaces(g, n) = RecordPlaces(f, n) \union new
  BY <1>5
<1> QED BY <1>6 DEF new, last

\* The handler's sample moves from its thread to one place outside.
LEMMA MovesOut ==
  ASSUME TypeOK, ShardInv, NEW t \in Threads, NEW x, handler' = [handler EXCEPT ![t] = x],
         NEW n \in 1..MaxSamples, handler[t].pc \notin {"out", "notify"},
         x.pc = "notify" \/ x.sample.n # n, NEW q,
         UNCHANGED <<builder, sent>>,
         \/ /\ LostPlaces(n)' = LostPlaces(n)
            /\ RingPlaces(n)' = RingPlaces(n) \union (IF handler[t].sample.n = n THEN {q} ELSE {})
         \/ /\ RingPlaces(n)' = RingPlaces(n)
            /\ LostPlaces(n)' = LostPlaces(n) \union (IF handler[t].sample.n = n THEN {q} ELSE {})
  PROVE  Moves(n)
<1> DEFINE here == <<"handler", t, 0, 0>>
<1>1. HandlerPlaces(n)' = HandlerPlaces(n) \ {here}
  BY HandlerPlacesStep
<1>2. here \in HandlerPlaces(n) <=> handler[t].sample.n = n
  BY HandlerHasPlace
<1>3. BuilderPlaces(n)' = BuilderPlaces(n)
  BY DEF BuilderPlaces, BagPlaces
<1>4. BagPlaces("sent", 0, sent, n)' = BagPlaces("sent", 0, sent, n)
  BY DEF BagPlaces
<1>5. /\ here \notin RingPlaces(n) /\ here \notin BuilderPlaces(n)
      /\ here \notin BagPlaces("sent", 0, sent, n) /\ here \notin LostPlaces(n)
  <2>1. here \notin RingPlaces(n)
    BY RingPlacesAre, RecordPlacesMember
  <2>2. here \notin BuilderPlaces(n) /\ here \notin BagPlaces("sent", 0, sent, n)
    BY BuilderPlacesMember, BagPlacesMember
  <2>3. here \notin LostPlaces(n)
    BY LostPlacesMember
  <2> QED BY <2>1, <2>2, <2>3
<1> HIDE DEF here
<1>6. CASE handler[t].sample.n = n
  <2>1. Places(n)' = (Places(n) \ {here}) \union {q}
    BY <1>1, <1>3, <1>4, <1>5, <1>6 DEF Places
  <2> QED BY <1>2, <1>6, <2>1 DEF Moves, Places
<1>7. CASE handler[t].sample.n # n
  <2>1. Places(n)' = Places(n)
    BY <1>1, <1>2, <1>3, <1>4, <1>7 DEF Places
  <2> QED BY <2>1 DEF Moves
<1> QED BY <1>6, <1>7

\* The handler goes on with the sample it has, or leaves after it has written it.
LEMMA MovesNot ==
  ASSUME TypeOK, ShardInv, NEW t \in Threads, NEW x, handler' = [handler EXCEPT ![t] = x],
         NEW n \in 1..MaxSamples,
         \/ /\ handler[t].pc \notin {"out", "notify"} /\ x.pc # "notify"
            /\ x.sample = handler[t].sample
         \/ handler[t].pc = "notify" /\ x = Outside,
         UNCHANGED <<ring, builder, sent, lost>>
  PROVE  Moves(n)
<1> DEFINE here == <<"handler", t, 0, 0>>
<1>1. n # 0
  BY SignalProfilerAssumption DEF SignalProfilerAssumption
<1>2. here \in HandlerPlaces(n) <=> handler[t].sample.n = n /\ handler[t].pc # "notify"
  BY HandlerHasPlace
<1>3. HandlerPlaces(n)' = HandlerPlaces(n)
  <2>1. Outside.sample.n # n
    BY <1>1, NoSampleType DEF Outside
  <2>2. x.sample.n = n /\ x.pc # "notify" <=> here \in HandlerPlaces(n)
    BY <1>2, <2>1
  <2>3. /\ here \in HandlerPlaces(n) => HandlerPlaces(n)' = HandlerPlaces(n) \union {here}
        /\ here \notin HandlerPlaces(n) => HandlerPlaces(n)' = HandlerPlaces(n) \ {here}
    BY <2>2, HandlerPlacesStep
  <2> HIDE DEF here
  <2> QED BY <2>3
<1>4. RingPlaces(n)' = RingPlaces(n) /\ BuilderPlaces(n)' = BuilderPlaces(n)
  BY DEF RingPlaces, BuilderPlaces, BagPlaces
<1>5. BagPlaces("sent", 0, sent, n)' = BagPlaces("sent", 0, sent, n) /\ LostPlaces(n)' = LostPlaces(n)
  BY DEF BagPlaces, LostPlaces
<1> QED BY <1>3, <1>4, <1>5 DEF Moves, Places

LEMMA OnePlaceHandler ==
  ASSUME TypeOK, ShardInv, OnePlaceInv, NEW t \in Threads, HandlerStep(t)
  PROVE  OnePlaceInv'
<1> DEFINE h == handler[t]
<1>1. taken' = taken
  BY DEF HandlerStep, TryLock, Unwind, WriteRecord, Notify
<1>2. UNCHANGED <<builder, sent>>
  BY HandlerFrame DEF readerVars
<1>3. SUFFICES ASSUME NEW n \in 1..MaxSamples PROVE Moves(n)
  BY <1>1, MovesIsEnough
<1>4. n # 0
  BY SignalProfilerAssumption DEF SignalProfilerAssumption
<1>5. Outside.sample.n # n
  BY <1>4, NoSampleType DEF Outside
<1>6. ASSUME NEW why, Leaves(t, h.pc), Loses(h.sample, why), ring' = ring, h.pc \notin {"out", "notify"}
      PROVE  Moves(n)
  <2>1. handler' = [handler EXCEPT ![t] = Outside]
    BY <1>6 DEF Leaves
  <2>2. LostPlaces(n)' = LostPlaces(n)
          \union (IF h.sample.n = n THEN {<<"lost", 0, h.sample, why>>} ELSE {})
    BY <1>6, LostPlacesStep
  <2>3. RingPlaces(n)' = RingPlaces(n)
    BY <1>6 DEF RingPlaces
  <2> QED BY <1>2, <1>5, <1>6, <2>1, <2>2, <2>3, MovesOut
<1>7. CASE TryLock(t)
  <2>1. h.pc = "lock" /\ ring' = ring
    BY <1>7 DEF TryLock
  <2>2. CASE Leaves(t, "lock") /\ Loses(h.sample, "contention")
    BY <1>6, <2>1, <2>2
  <2>3. CASE /\ lost' = lost
             /\ \/ handler' = [handler EXCEPT ![t].pc = "unwind"]
                \/ handler' = [handler EXCEPT ![t].attempt = @ + 1, ![t].shard = (h.shard + 1) % NumShards]
    <3>1. PICK x : handler' = [handler EXCEPT ![t] = x] /\ x.pc # "notify" /\ x.sample = h.sample
      <4>1. CASE handler' = [handler EXCEPT ![t].pc = "unwind"]
        <5> DEFINE x == [h EXCEPT !.pc = "unwind"]
        <5>1. handler' = [handler EXCEPT ![t] = x] /\ x.pc # "notify" /\ x.sample = h.sample
          BY <4>1 DEF TypeOK, Handlers
        <5> QED BY <5>1
      <4>2. CASE handler' = [handler EXCEPT ![t].attempt = @ + 1, ![t].shard = (h.shard + 1) % NumShards]
        <5> DEFINE x == [h EXCEPT !.attempt = @ + 1, !.shard = (h.shard + 1) % NumShards]
        <5>1. handler' = [handler EXCEPT ![t] = x] /\ x.pc # "notify" /\ x.sample = h.sample
          BY <2>1, <4>2 DEF TypeOK, Handlers
        <5> QED BY <5>1
      <4> QED BY <2>3, <4>1, <4>2
    <3> QED BY <1>2, <2>1, <2>3, <3>1, MovesNot
  <2> QED BY <1>7, <2>2, <2>3 DEF TryLock
<1>8. CASE Unwind(t)
  <2>1. h.pc = "unwind" /\ ring' = ring
    BY <1>8 DEF Unwind, Handler, Leaves
  <2>2. CASE Leaves(t, "unwind") /\ Loses(h.sample, "no frames")
    BY <1>6, <2>1, <2>2
  <2>3. CASE lost' = lost /\ handler' = [handler EXCEPT ![t].pc = "write"]
    <3> DEFINE x == [h EXCEPT !.pc = "write"]
    <3>1. handler' = [handler EXCEPT ![t] = x] /\ x.pc # "notify" /\ x.sample = h.sample
      BY <2>3 DEF TypeOK, Handlers
    <3> QED BY <1>2, <2>1, <2>3, <3>1, MovesNot
  <2> QED BY <1>8, <2>2, <2>3 DEF Unwind, Handler
<1>9. CASE WriteRecord(t)
  <2> DEFINE x == [h EXCEPT !.pc = "notify"]
             record == [tid |-> t, sample |-> frames[h.state][h.shard]]
  <2>1. h.pc = "write" /\ handler' = [handler EXCEPT ![t] = x] /\ x.pc = "notify"
    BY <1>9 DEF WriteRecord, Handler, TypeOK, Handlers
  <2>2. /\ h.state \in States /\ h.shard \in Shards /\ h.sample \in AllSamples
        /\ record.sample = h.sample
    BY <2>1 DEF ShardInv, HandlersSample, TypeOK, Handlers
  <2>3. CASE ring' = ring /\ Loses(h.sample, "full")
    <3>1. LostPlaces(n)' = LostPlaces(n)
            \union (IF h.sample.n = n THEN {<<"lost", 0, h.sample, "full">>} ELSE {})
      BY <2>3, LostPlacesStep
    <3>2. RingPlaces(n)' = RingPlaces(n)
      BY <2>3 DEF RingPlaces
    <3> QED BY <1>2, <2>1, <3>1, <3>2, MovesOut
  <2>4. CASE lost' = lost /\ ring' = [ring EXCEPT ![h.state][h.shard] = Append(@, record)]
    <3>1. record \in AllRecords
      BY <2>2 DEF AllRecords
    <3>2. ring \in [States -> [Shards -> Seq(AllRecords)]]
      BY DEF TypeOK, ShardTypes
    <3>3. \A a \in States, b \in Shards :
            ring'[a][b] = IF a = h.state /\ b = h.shard
                          THEN Append(ring[h.state][h.shard], record) ELSE ring[a][b]
      BY <2>2, <2>4, <3>2
    <3> DEFINE k == h.state
               i == h.shard
               q == <<"ring", k, i, Len(ring[k][i]) + 1>>
               g == ring'
    <3>4. RecordPlaces(ring', n) = RecordPlaces(ring, n) \union (IF record.sample.n = n THEN {q} ELSE {})
      <4>1. k \in States /\ i \in Shards
        BY <2>2
      <4>2. Appended(ring, g, k, i, record)
        BY <3>2, <3>3 DEF Appended
      <4> HIDE DEF k, i, record, g
      <4>3. RecordPlaces(g, n) = RecordPlaces(ring, n) \union (IF record.sample.n = n THEN {q} ELSE {})
        BY <3>1, <4>1, <4>2, RecordPlacesStep
      <4> QED BY <4>3 DEF g
    <3>5. RingPlaces(n)' = RingPlaces(n) \union (IF h.sample.n = n THEN {q} ELSE {})
      BY <2>2, <3>4, RingPlacesAre
    <3>6. LostPlaces(n)' = LostPlaces(n)
      BY <2>4 DEF LostPlaces
    <3> HIDE DEF q, x
    <3> QED BY <1>2, <2>1, <3>5, <3>6, MovesOut
  <2> QED BY <1>9, <2>3, <2>4 DEF WriteRecord
<1>10. CASE Notify(t)
  <2>1. h.pc = "notify" /\ handler' = [handler EXCEPT ![t] = Outside] /\ ring' = ring /\ lost' = lost
    BY <1>10 DEF Notify, Leaves
  <2> QED BY <1>2, <2>1, MovesNot
<1> QED BY <1>7, <1>8, <1>9, <1>10 DEF HandlerStep

\* A signal gives the next sample its first place.
LEMMA OnePlaceSignal ==
  ASSUME TypeOK, ShardInv, OnePlaceInv, NEW t \in Threads, Signal(t)
  PROVE  OnePlaceInv'
<1> DEFINE here == <<"handler", t, 0, 0>>
           x == [pc |-> "lock", state |-> current, attempt |-> 0, shard |-> t % NumShards,
                 sample |-> [tid |-> t, n |-> taken + 1]]
<1>1. /\ handler' = [handler EXCEPT ![t] = x] /\ x.pc # "notify" /\ x.sample.n = taken + 1
      /\ taken' = taken + 1 /\ handler[t] = Outside
  BY DEF Signal, ShardInv, HandlersSample
<1> HIDE DEF x
<1>2. taken \in Nat
  BY DEF TypeOK
<1>3. UNCHANGED <<ring, builder, sent, lost>>
  BY DEF Signal, readerVars, shardVars
<1> SUFFICES ASSUME NEW n \in 1..MaxSamples
             PROVE  IF n <= taken' THEN \E p : Places(n)' = {p} ELSE Places(n)' = {}
  BY DEF OnePlaceInv
<1>4. n \in Nat /\ n # 0
  BY SignalProfilerAssumption DEF SignalProfilerAssumption
<1>5. IF n <= taken THEN \E p : Places(n) = {p} ELSE Places(n) = {}
  BY DEF OnePlaceInv
<1>6. here \notin HandlerPlaces(n)
  BY <1>1, <1>4, HandlerHasPlace, NoSampleType DEF Outside
<1>7. \/ HandlerPlaces(n)' = HandlerPlaces(n) \union {here} /\ n = taken + 1
      \/ HandlerPlaces(n)' = HandlerPlaces(n) /\ n # taken + 1
  <2>1. CASE n = taken + 1
    <3>1. x.sample.n = n /\ x.pc # "notify"
      BY <1>1, <2>1
    <3>2. HandlerPlaces(n)' = HandlerPlaces(n) \union {here}
      BY <1>1, <3>1, HandlerPlacesStep
    <3> QED BY <2>1, <3>2
  <2>2. CASE n # taken + 1
    <3>1. HandlerPlaces(n)' = HandlerPlaces(n) \ {here}
      BY <1>1, <2>2, HandlerPlacesStep
    <3> HIDE DEF here
    <3> QED BY <1>6, <2>2, <3>1
  <2> QED BY <2>1, <2>2
<1>8. RingPlaces(n)' = RingPlaces(n) /\ BuilderPlaces(n)' = BuilderPlaces(n)
  BY <1>3 DEF RingPlaces, BuilderPlaces, BagPlaces
<1>9. BagPlaces("sent", 0, sent, n)' = BagPlaces("sent", 0, sent, n) /\ LostPlaces(n)' = LostPlaces(n)
  BY <1>3 DEF BagPlaces, LostPlaces
<1> HIDE DEF here
<1>10. CASE n = taken + 1
  <2>1. Places(n)' = Places(n) \union {here}
    BY <1>2, <1>7, <1>8, <1>9, <1>10 DEF Places
  <2>2. Places(n) = {}
    BY <1>2, <1>4, <1>5, <1>10
  <2>3. n <= taken'
    BY <1>1, <1>2, <1>10
  <2>4. Places(n)' = {here}
    BY <2>1, <2>2
  <2> QED BY <2>3, <2>4
<1>11. CASE n # taken + 1
  <2>1. Places(n)' = Places(n)
    BY <1>7, <1>8, <1>9, <1>11 DEF Places
  <2>2. n <= taken' <=> n <= taken
    BY <1>1, <1>2, <1>4, <1>11
  <2> QED BY <1>5, <2>1, <2>2
<1> QED BY <1>10, <1>11

\* One builder gets a new bag.
LEMMA BuilderPlacesStep ==
  ASSUME TypeOK, NEW k \in States, NEW b, builder' = [builder EXCEPT ![k] = b], NEW n
  PROVE  /\ BagPlaces("builder", k, b, n) = BagPlaces("builder", k, builder[k], n)
              => BuilderPlaces(n)' = BuilderPlaces(n)
         /\ BuilderPlaces(n) = {} => BuilderPlaces(n)' = BagPlaces("builder", k, b, n)
         /\ BagPlaces("builder", k, b, n) = {} /\ BuilderPlaces(n) = BagPlaces("builder", k, builder[k], n)
              => BuilderPlaces(n)' = {}
<1> DEFINE old(j) == BagPlaces("builder", j, builder[j], n)
           new(j) == BagPlaces("builder", j, builder'[j], n)
<1>1. builder'[k] = b /\ \A j \in States \ {k} : builder'[j] = builder[j]
  BY DEF TypeOK, ReaderTypes
<1>2. new(k) = BagPlaces("builder", k, b, n) /\ \A j \in States \ {k} : new(j) = old(j)
  BY <1>1
<1>3. BuilderPlaces(n) = UNION {old(j) : j \in States}
  BY DEF BuilderPlaces
<1>4. BuilderPlaces(n)' = UNION {new(j) : j \in States}
  BY DEF BuilderPlaces, BagPlaces
<1>5. \A i, j \in States : \A p : p \in old(i) /\ p \in old(j) => i = j
  BY BagPlacesMember
<1> HIDE DEF old, new
<1>6. \A p : p \in BuilderPlaces(n) <=> \E j \in States : p \in old(j)
  BY <1>3
<1>7. \A p : p \in BuilderPlaces(n)' <=> \E j \in States : p \in new(j)
  BY <1>4
<1>8. ASSUME new(k) = old(k) PROVE BuilderPlaces(n)' = BuilderPlaces(n)
  BY <1>2, <1>6, <1>7, <1>8
<1>9. ASSUME BuilderPlaces(n) = {} PROVE BuilderPlaces(n)' = new(k)
  BY <1>2, <1>6, <1>7, <1>9
<1>10. ASSUME new(k) = {}, BuilderPlaces(n) = old(k) PROVE BuilderPlaces(n)' = {}
  BY <1>2, <1>5, <1>6, <1>7, <1>10
<1> QED BY <1>2, <1>8, <1>9, <1>10 DEF old

\* A sample at one place has no other: the kinds of places are distinct.
LEMMA PlacesApart ==
  ASSUME NEW n, NEW p, Places(n) = {p}
  PROVE  /\ \A k \in States, i \in Shards, j \in Nat :
              p = <<"ring", k, i, j>> =>
                /\ HandlerPlaces(n) = {} /\ BuilderPlaces(n) = {} /\ LostPlaces(n) = {}
                /\ BagPlaces("sent", 0, sent, n) = {}
         /\ \A k \in States : \A s, c :
              p = <<"builder", k, s, c>> =>
                /\ HandlerPlaces(n) = {} /\ RingPlaces(n) = {} /\ LostPlaces(n) = {}
                /\ BagPlaces("sent", 0, sent, n) = {}
<1>1. \A q : q \in HandlerPlaces(n) => q[1] = "handler"
  BY HandlerPlacesMember
<1>2. \A q : q \in RingPlaces(n) => q[1] = "ring"
  BY RingPlacesAre, RecordPlacesMember
<1>3. \A q : q \in BuilderPlaces(n) => q[1] = "builder"
  BY BuilderPlacesMember, BagPlacesMember
<1>4. \A q : q \in BagPlaces("sent", 0, sent, n) => q[1] = "sent"
  BY BagPlacesMember
<1>5. \A q : q \in LostPlaces(n) => q[1] = "lost"
  BY LostPlacesMember
<1>6. \A q : \/ q \in HandlerPlaces(n) \/ q \in RingPlaces(n) \/ q \in BuilderPlaces(n)
             \/ q \in BagPlaces("sent", 0, sent, n) \/ q \in LostPlaces(n)
             => q = p
  BY DEF Places
<1>7. ASSUME p[1] = "ring"
      PROVE  /\ HandlerPlaces(n) = {} /\ BuilderPlaces(n) = {} /\ LostPlaces(n) = {}
             /\ BagPlaces("sent", 0, sent, n) = {}
  BY <1>1, <1>3, <1>4, <1>5, <1>6, <1>7
<1>8. ASSUME p[1] = "builder"
      PROVE  /\ HandlerPlaces(n) = {} /\ RingPlaces(n) = {} /\ LostPlaces(n) = {}
             /\ BagPlaces("sent", 0, sent, n) = {}
  BY <1>1, <1>2, <1>4, <1>5, <1>6, <1>8
<1> QED BY <1>7, <1>8

\* A drained ring.
LEMMA RingPlacesDrain ==
  ASSUME TypeOK, NEW k \in States, NEW i \in Shards, ring' = [ring EXCEPT ![k][i] = <<>>], NEW n
  PROVE  /\ (\A j \in DOMAIN ring[k][i] : ring[k][i][j].sample.n # n) => RingPlaces(n)' = RingPlaces(n)
         /\ \A j \in DOMAIN ring[k][i] : RingPlaces(n) = {<<"ring", k, i, j>>} => RingPlaces(n)' = {}
<1> DEFINE g == ring'
<1>1. \A a \in States, b \in Shards : g[a][b] = IF a = k /\ b = i THEN <<>> ELSE ring[a][b]
  BY DEF TypeOK, ShardTypes
<1>2. DOMAIN <<>> = {}
  OBVIOUS
<1> HIDE DEF g
<1>3. ASSUME \A j \in DOMAIN ring[k][i] : ring[k][i][j].sample.n # n
      PROVE  RecordPlaces(g, n) = RecordPlaces(ring, n)
  <2>1. \A p : p \in RecordPlaces(g, n) <=> p \in RecordPlaces(ring, n)
    BY <1>1, <1>2, <1>3, RecordPlacesMember
  <2> QED BY <2>1
<1>4. ASSUME NEW j \in DOMAIN ring[k][i], RecordPlaces(ring, n) = {<<"ring", k, i, j>>}
      PROVE  RecordPlaces(g, n) = {}
  <2>1. \A p : p \in RecordPlaces(g, n) => p \in RecordPlaces(ring, n) /\ p # <<"ring", k, i, j>>
    BY <1>1, <1>2, RecordPlacesMember
  <2> QED BY <1>4, <2>1
<1> QED BY <1>3, <1>4, RingPlacesAre DEF g

LEMMA OnePlaceDrain ==
  ASSUME TypeOK, ShardInv, OnePlaceInv, NEW k \in States, ReaderDrains(k), NEW n \in 1..MaxSamples
  PROVE  Moves(n)
<1> DEFINE i == at[k]
           q == ring[k][i]
           b == builder[k]
           c == b (+) Samples(q)
<1>1. i \in Shards
  BY DEF TypeOK, ReaderTypes
<1>2. q \in Seq(AllRecords)
  BY <1>1 DEF TypeOK, ShardTypes
<1>3. IsABagOfSamples(b) /\ IsABagOfSamples(Samples(q))
  BY <1>2, SamplesType DEF TypeOK, ReaderTypes
<1>4. builder' = [builder EXCEPT ![k] = c] /\ ring' = [ring EXCEPT ![k][i] = <<>>]
  BY DEF ReaderDrains
<1>5. HandlerPlaces(n)' = HandlerPlaces(n) /\ LostPlaces(n)' = LostPlaces(n)
      /\ BagPlaces("sent", 0, sent, n)' = BagPlaces("sent", 0, sent, n)
  BY DEF ReaderDrains, HandlerPlaces, LostPlaces, BagPlaces
<1>6. CASE \A j \in DOMAIN q : q[j].sample.n # n
  <2>1. RingPlaces(n)' = RingPlaces(n)
    <3>1. ring' = [ring EXCEPT ![k][i] = <<>>]
      BY <1>4
    <3>2. \A j \in DOMAIN ring[k][i] : ring[k][i][j].sample.n # n
      BY <1>6
    <3> HIDE DEF i, q, b, c
    <3> QED BY <1>1, <3>1, <3>2, RingPlacesDrain
  <2>2. \A s \in DOMAIN Samples(q) : s.n # n
    BY <1>2, <1>6, DrainedMember
  <2>3. BagPlaces("builder", k, c, n) = BagPlaces("builder", k, b, n)
    BY <1>3, <2>2, BagPlacesAdd
  <2> HIDE DEF c
  <2>4. BuilderPlaces(n)' = BuilderPlaces(n)
    BY <1>4, <2>3, BuilderPlacesStep
  <2> QED BY <1>5, <2>1, <2>4 DEF Moves, Places
<1>7. CASE \E j \in DOMAIN q : q[j].sample.n = n
  <2>1. PICK j \in DOMAIN q : q[j].sample.n = n
    BY <1>7
  <2> DEFINE here == <<"ring", k, i, j>>
             s == q[j].sample
             there == <<"builder", k, s, 1>>
  <2>2. \A m \in DOMAIN q : q[m].sample.n = n => <<"ring", k, i, m>> \in RingPlaces(n)
    BY <1>1, RingPlacesAre, RecordPlacesMember
  <2>3. Places(n) = {here}
    BY <2>1, <2>2 DEF OnePlaceInv, Places
  <2>4. RingPlaces(n) = {here}
    BY <2>1, <2>2, <2>3 DEF Places
  <2>5. \A m \in DOMAIN q : q[m].sample.n = n => m = j
    BY <2>2, <2>4
  <2>6. j \in Nat
    BY <1>2
  <2>7. /\ HandlerPlaces(n) = {} /\ BuilderPlaces(n) = {} /\ LostPlaces(n) = {}
        /\ BagPlaces("sent", 0, sent, n) = {}
    BY <1>1, <2>3, <2>6, PlacesApart
  <2>8. RingPlaces(n)' = {}
    BY <1>1, <1>4, <2>4, RingPlacesDrain
  <2>9. /\ s \in DOMAIN Samples(q) /\ Samples(q)[s] = 1 /\ s.n = n
        /\ \A z \in DOMAIN Samples(q) : z.n = n => z = s
    BY <1>2, <2>1, <2>5, DrainedOnce
  <2>10. \A z \in DOMAIN b : z.n # n
    <3>1. BagPlaces("builder", k, b, n) = {}
      BY <2>7, BuilderPlacesMember
    <3> QED BY <1>3, <3>1, BagPlacesNone
  <2>11. BagPlaces("builder", k, Samples(q), n) = {there}
    BY <2>9, BagPlacesOnce
  <2>12. BagPlaces("builder", k, c, n) = {there}
    BY <1>3, <2>10, <2>11, BagPlacesAdd
  <2> HIDE DEF c, here, there
  <2>13. BuilderPlaces(n)' = {there}
    BY <1>4, <2>7, <2>12, BuilderPlacesStep
  <2>14. Places(n)' = (Places(n) \ {here}) \union {there}
    BY <1>5, <2>3, <2>7, <2>8, <2>13 DEF Places
  <2> QED BY <2>3, <2>14 DEF Moves
<1> QED BY <1>6, <1>7

LEMMA OnePlaceFlush ==
  ASSUME TypeOK, ShardInv, OnePlaceInv, NEW k \in States, Flush(k), NEW n \in 1..MaxSamples
  PROVE  Moves(n)
<1> DEFINE b == builder[k]
<1>1. IsABagOfSamples(b) /\ IsABagOfSamples(sent)
  BY DEF TypeOK, ReaderTypes
<1>2. builder' = [builder EXCEPT ![k] = EmptyBag]
  BY DEF Flush
<1>3. BagPlaces("builder", k, EmptyBag, n) = {}
  BY EmptyBagType, BagPlacesNone DEF EmptyBag, SetToBag
<1>4. HandlerPlaces(n)' = HandlerPlaces(n) /\ RingPlaces(n)' = RingPlaces(n)
  BY DEF Flush, HandlerPlaces, RingPlaces, shardVars
<1>5. \/ sent' = sent (+) b /\ lost' = lost
      \/ lost' = lost \union {<<s, "not sent">> : s \in DOMAIN b} /\ sent' = sent
  BY DEF Flush, Send, BagToSet
<1>6. BagPlaces("sent", 0, sent, n)' = BagPlaces("sent", 0, sent', n)
  BY DEF BagPlaces
<1>7. \A p : p \in LostPlaces(n)' <=> \E l \in lost' : l[1].n = n /\ p = <<"lost", 0, l[1], l[2]>>
  BY DEF LostPlaces
<1>8. CASE \A s \in DOMAIN b : s.n # n
  <2>1. BagPlaces("builder", k, b, n) = {}
    BY <1>1, <1>8, BagPlacesNone
  <2>2. BuilderPlaces(n)' = BuilderPlaces(n)
    BY <1>2, <1>3, <2>1, BuilderPlacesStep
  <2>3. BagPlaces("sent", 0, sent', n) = BagPlaces("sent", 0, sent, n)
    <3>1. BagPlaces("sent", 0, sent (+) b, n) = BagPlaces("sent", 0, sent, n)
      BY <1>1, <1>8, BagPlacesAdd
    <3>2. sent' = sent (+) b \/ sent' = sent
      BY <1>5
    <3> HIDE DEF b
    <3> QED BY <3>1, <3>2
  <2>4. LostPlaces(n)' = LostPlaces(n)
    <3>1. \A l \in lost' : l[1].n = n => l \in lost
      <4> SUFFICES ASSUME NEW l \in lost', l[1].n = n, l \notin lost PROVE FALSE
        OBVIOUS
      <4>1. PICK s \in DOMAIN b : l = <<s, "not sent">>
        BY <1>5
      <4>2. l[1] = s
        BY <4>1
      <4> QED BY <1>8, <4>2
    <3>2. lost \subseteq lost'
      BY <1>5
    <3>3. \A p : p \in LostPlaces(n)' <=> p \in LostPlaces(n)
      BY <1>7, <3>1, <3>2, LostPlacesMember
    <3> QED BY <3>3
  <2> QED BY <1>4, <1>6, <2>2, <2>3, <2>4 DEF Moves, Places
<1>9. CASE \E s \in DOMAIN b : s.n = n
  <2>1. PICK s \in DOMAIN b : s.n = n
    BY <1>9
  <2>2. \A z \in DOMAIN b : b[z] \in Nat /\ b[z] > 0
    BY <1>1 DEF IsABagOfSamples, IsABag
  <2>3. \A z \in DOMAIN b : z.n = n => \A copy \in 1..b[z] : <<"builder", k, z, copy>> \in BuilderPlaces(n)
    BY BuilderPlacesMember, BagPlacesMember
  <2> DEFINE here == <<"builder", k, s, 1>>
  <2>4. here \in BuilderPlaces(n)
    BY <2>1, <2>2, <2>3
  <2>5. Places(n) = {here}
    BY <2>4 DEF OnePlaceInv, Places
  <2>6. BuilderPlaces(n) = {here}
    BY <2>4, <2>5 DEF Places
  <2>7. /\ HandlerPlaces(n) = {} /\ RingPlaces(n) = {} /\ LostPlaces(n) = {}
        /\ BagPlaces("sent", 0, sent, n) = {}
    BY <2>5, PlacesApart
  <2>8. b[s] = 1
    <3>1. 2 \in 1..b[s] => <<"builder", k, s, 2>> = here
      BY <2>1, <2>3, <2>6
    <3> QED BY <2>2, <3>1
  <2>9. \A z \in DOMAIN b : z.n = n => z = s
    <3> SUFFICES ASSUME NEW z \in DOMAIN b, z.n = n PROVE z = s
      OBVIOUS
    <3>1. <<"builder", k, z, 1>> = here
      BY <2>2, <2>3, <2>6
    <3> QED BY <3>1
  <2>10. BagPlaces("builder", k, b, n) = {here}
    BY <2>1, <2>8, <2>9, BagPlacesOnce
  <2>11. BuilderPlaces(n)' = {}
    BY <1>2, <1>3, <2>6, <2>10, BuilderPlacesStep
  <2>12. CASE sent' = sent (+) b /\ lost' = lost
    <3> DEFINE there == <<"sent", 0, s, 1>>
    <3>1. \A z \in DOMAIN sent : z.n # n
      BY <1>1, <2>7, BagPlacesNone
    <3>2. BagPlaces("sent", 0, b, n) = {there}
      BY <2>1, <2>8, <2>9, BagPlacesOnce
    <3>3. BagPlaces("sent", 0, sent', n) = {there}
      BY <1>1, <2>12, <3>1, <3>2, BagPlacesAdd
    <3>4. LostPlaces(n)' = {}
      BY <2>7, <2>12 DEF LostPlaces
    <3> HIDE DEF here, there
    <3>5. Places(n)' = (Places(n) \ {here}) \union {there}
      BY <1>4, <1>6, <2>5, <2>7, <2>11, <3>3, <3>4 DEF Places
    <3> QED BY <2>5, <3>5 DEF Moves
  <2>13. CASE lost' = lost \union {<<z, "not sent">> : z \in DOMAIN b} /\ sent' = sent
    <3> DEFINE there == <<"lost", 0, s, "not sent">>
    <3>1. \A l \in lost : l[1].n # n
      BY <2>7, LostPlacesMember
    <3>2. <<s, "not sent">> \in lost'
      BY <2>13
    <3>3. \A l \in lost' : l[1].n = n => l = <<s, "not sent">>
      <4> SUFFICES ASSUME NEW l \in lost', l[1].n = n PROVE l = <<s, "not sent">>
        OBVIOUS
      <4>1. PICK z \in DOMAIN b : l = <<z, "not sent">>
        BY <2>13, <3>1
      <4>2. l[1] = z
        BY <4>1
      <4> QED BY <2>9, <4>1, <4>2
    <3>4. \A p : p \in LostPlaces(n)' <=> p = there
      BY <1>7, <2>1, <3>2, <3>3
    <3>5. LostPlaces(n)' = {there}
      BY <3>4
    <3>6. BagPlaces("sent", 0, sent', n) = {}
      BY <2>7, <2>13
    <3> HIDE DEF here, there
    <3>7. Places(n)' = (Places(n) \ {here}) \union {there}
      BY <1>4, <1>6, <2>5, <2>7, <2>11, <3>5, <3>6 DEF Places
    <3> QED BY <2>5, <3>7 DEF Moves
  <2> QED BY <1>5, <2>12, <2>13
<1> QED BY <1>8, <1>9

LEMMA OnePlaceReader ==
  ASSUME TypeOK, ShardInv, OnePlaceInv, NEW k \in States, ReaderStep(k) \/ Elapses(k)
  PROVE  OnePlaceInv'
<1>1. handler' = handler /\ taken' = taken
  BY ReaderFrame
<1>2. SUFFICES ASSUME NEW n \in 1..MaxSamples PROVE Moves(n)
  BY <1>1, MovesIsEnough
<1>3. CASE UNCHANGED <<ring, builder, sent, lost>>
  <2>1. Places(n)' = Places(n)
    BY <1>1, <1>3 DEF Places, HandlerPlaces, RingPlaces, BuilderPlaces, BagPlaces, LostPlaces
  <2> QED BY <2>1 DEF Moves
<1>4. CASE ReaderSetsUp(k) \/ ReaderWakes(k) \/ ReaderLocks(k) \/ ReaderGoesOn(k) \/ Elapses(k)
  BY <1>3, <1>4 DEF ReaderSetsUp, ReaderWakes, ReaderLocks, ReaderGoesOn, Elapses, shardVars
<1> QED BY <1>4, OnePlaceDrain, OnePlaceFlush DEF ReaderStep

LEMMA OnePlaceInit == Init => OnePlaceInv
<1> SUFFICES ASSUME Init, NEW n \in 1..MaxSamples PROVE ~ (n <= taken) /\ n > 0 /\ Places(n) = {}
  BY DEF OnePlaceInv
<1>1. ~ (n <= taken) /\ n > 0
  BY SignalProfilerAssumption DEF Init, SignalProfilerAssumption
<1>2. HandlerPlaces(n) = {}
  BY <1>1, NoSampleType DEF Init, HandlerPlaces, Outside
<1>3. RingPlaces(n) = {}
  <2>1. \A k \in States, i \in Shards : DOMAIN ring[k][i] = {}
    BY DEF Init
  <2>2. \A p : p \notin RecordPlaces(ring, n)
    BY <2>1, RecordPlacesMember
  <2> QED BY <2>2, RingPlacesAre
<1>4. \A kind, k : BagPlaces(kind, k, EmptyBag, n) = {}
  BY EmptyBagType, BagPlacesNone DEF EmptyBag, SetToBag
<1>5. BuilderPlaces(n) = {} /\ BagPlaces("sent", 0, sent, n) = {}
  BY <1>4 DEF Init, BuilderPlaces
<1>6. LostPlaces(n) = {}
  BY DEF Init, LostPlaces
<1> QED BY <1>1, <1>2, <1>3, <1>5, <1>6 DEF Places

-----------------------------------------------------------------------------
(* The theorems                                                            *)

Inv == TypeOK /\ StartInv /\ ShardInv

LEMMA InvInit == Init => Inv
<1> SUFFICES ASSUME Init PROVE Inv
  OBVIOUS
<1>1. handler \in [Threads -> Handlers] /\ taken \in 0..MaxSamples /\ lost \subseteq Losses
  BY OutsideType, SignalProfilerAssumption DEF Init, SignalProfilerAssumption
<1> QED BY <1>1, StartTypesInit, RestInit DEF Inv, TypeOK

LEMMA InvNext == Inv /\ [Next]_vars => Inv'
<1> SUFFICES ASSUME Inv, [Next]_vars PROVE Inv'
  OBVIOUS
<1> USE DEF Inv
<1>1. ASSUME NEW c \in Callers, Start(c) \/ StartStep(c) PROVE Inv'
  <2>1. StartTypes' /\ StartInv'
    BY <1>1, StartStepTypes, StartInvStep DEF TypeOK
  <2>2. ShardInv'
    BY <1>1, ShardInvStart
  <2>3. /\ UNCHANGED <<at, due, builder, sent, lock, frames, ring, counter, eventfd, news, handler, taken, lost>>
        /\ \/ UNCHANGED reader
           \/ reader' = [reader EXCEPT ![mine[c]] = "setup"]
    BY <1>1, StartFrame DEF shardVars, notifyVars
  <2>4. ReaderTypes'
    BY <2>3 DEF TypeOK, ReaderTypes
  <2>5. ShardTypes' /\ NotifyTypes'
    BY <2>3 DEF TypeOK, ShardTypes, NotifyTypes
  <2> QED BY <2>1, <2>2, <2>3, <2>4, <2>5 DEF TypeOK
<1>2. ASSUME NEW t \in Threads, Signal(t) \/ HandlerStep(t) PROVE Inv'
  <2>1. UNCHANGED <<startVars, readerVars>>
    BY <1>2, HandlerFrame
  <2>2. StartTypes' /\ ReaderTypes'
    BY <2>1 DEF TypeOK, StartTypes, ReaderTypes, startVars, readerVars
  <2>3. StartInv'
    BY <2>1 DEF StartInv, OneStarts, StepsBehind, MadeByStarts, ReadyInv, Active, Started,
                startVars, readerVars
  <2>4. ShardTypes' /\ NotifyTypes' /\ handler' \in [Threads -> Handlers]
        /\ taken' \in 0..MaxSamples /\ lost' \subseteq Losses
    BY <1>2, HandlerStepTypes
  <2>5. ShardInv'
    BY <1>2, HandlersLockStep, HandlersSampleStep DEF ShardInv
  <2> QED BY <2>2, <2>3, <2>4, <2>5 DEF TypeOK
<1>3. ASSUME NEW k \in States, ReaderStep(k) \/ Elapses(k) PROVE Inv'
  <2>1. UNCHANGED <<startVars, handler, taken>>
    BY <1>3, ReaderFrame
  <2>2. ReaderTypes' /\ ShardTypes' /\ NotifyTypes' /\ lost' \subseteq Losses
    BY <1>3, ReaderStepTypes, LostType DEF TypeOK
  <2>3. StartTypes'
    BY <2>1 DEF TypeOK, StartTypes, startVars
  <2>4. \A j \in States : reader[j] # "none" => reader'[j] # "none"
    BY <1>3, ReaderStays DEF TypeOK, ReaderTypes, Elapses
  <2>5. current \in 0..MaxStarts
    BY SignalProfilerAssumption DEF TypeOK, StartTypes, SignalProfilerAssumption
  <2>6. StartInv'
    <3>1. OneStarts' /\ MadeByStarts'
      BY <2>1 DEF StartInv, OneStarts, MadeByStarts, Active, Started, startVars
    <3>2. StepsBehind'
      BY <2>1, <2>4, <2>5, SignalProfilerAssumption
      DEF StartInv, StepsBehind, Started, startVars, States, TypeOK, StartTypes, SignalProfilerAssumption
    <3>3. ReadyInv'
      BY <2>1, <2>4, <2>5, SignalProfilerAssumption
      DEF StartInv, ReadyInv, startVars, States, SignalProfilerAssumption
    <3> QED BY <3>1, <3>2, <3>3 DEF StartInv
  <2>7. ShardInv'
    BY <1>3, ShardInvReader
  <2> QED BY <2>1, <2>2, <2>3, <2>6, <2>7 DEF TypeOK
<1>4. CASE UNCHANGED vars
  <2>1. UNCHANGED <<startVars, readerVars, shardVars, notifyVars, handler, taken, lost>>
    BY <1>4 DEF vars
  <2>2. TypeOK'
    BY <2>1 DEF TypeOK, StartTypes, ReaderTypes, ShardTypes, NotifyTypes, startVars, readerVars,
                shardVars, notifyVars
  <2>3. StartInv'
    BY <2>1 DEF StartInv, OneStarts, StepsBehind, MadeByStarts, ReadyInv, Active, Started,
                startVars, readerVars
  <2>4. ShardInv'
    BY <2>1 DEF ShardInv, HandlersLock, ReaderLocked, HandlersSample, WholeRecords, Holds,
                readerVars, shardVars
  <2> QED BY <2>2, <2>3, <2>4
<1> QED BY <1>1, <1>2, <1>3, <1>4 DEF Next

LEMMA InvAlways == Spec => []Inv
  BY InvInit, InvNext, PTL DEF Spec

\* A start(), a handler and a reader thread leave each variable in its type, and no ring ever
\* holds more records than its buffer has room for.
THEOREM TypesAreRight == Spec => []TypeOK
<1>1. Inv => TypeOK
  BY DEF Inv
<1> QED BY <1>1, InvAlways, PTL

\* Of however many threads and shards: what a record holds is the stack of the thread it names.
\* The handlers that write and the reader that drains are kept apart by the shard's lock.
THEOREM RecordsStayWhole == Spec => []RecordsAreWhole
<1>1. Inv => RecordsAreWhole
  BY WholeInRings DEF Inv, ShardInv
<1> QED BY <1>1, InvAlways, PTL

\* However many calls of start() race and whichever of their steps fail: one at most ever
\* returns Ok, and the timer runs only from then on, over what that call has set up.
THEOREM TimerRunsReady == Spec => []ArmedIsReady
<1>1. Inv => ArmedIsReady
  <2> SUFFICES ASSUME Inv PROVE ArmedIsReady
    OBVIOUS
  <2>1. ReadyInv
    BY DEF Inv, StartInv
  <2>2. oks = {current} => Cardinality(oks) = 1
    BY FS_Singleton
  <2> QED BY <2>1, <2>2 DEF ReadyInv, ArmedIsReady
<1> QED BY <1>1, InvAlways, PTL

\* From then on no call of start() changes what handlers and the reader thread use.
THEOREM StateStaysSettled == Spec => StateIsSettled
<1>1. Inv /\ [Next]_vars => [armed => UNCHANGED <<current, installed, armed>>]_vars
  <2> SUFFICES ASSUME Inv, Next, armed PROVE UNCHANGED <<current, installed, armed>>
    OBVIOUS
  <2>1. ASSUME NEW c \in Callers, Start(c) \/ StartStep(c)
        PROVE  UNCHANGED <<current, installed, armed>>
    <3>1. caller[c] = "out"
      BY DEF Inv, StartInv, OneStarts, Active
    <3>2. Start(c)
      BY <2>1, <3>1 DEF StartStep, InitKindasafe, Discover, Allocate, Publish, SpawnReader,
                        RegisterHandler, SanityCheck, StartTimer, Goes, Fails
    <3> QED BY <3>2 DEF Start
  <2>2. ASSUME NEW t \in Threads, Signal(t) \/ HandlerStep(t)
        PROVE  UNCHANGED <<current, installed, armed>>
    BY <2>2, HandlerFrame DEF startVars
  <2>3. ASSUME NEW k \in States, ReaderStep(k) \/ Elapses(k)
        PROVE  UNCHANGED <<current, installed, armed>>
    BY <2>3, ReaderFrame DEF startVars
  <2> QED BY <2>1, <2>2, <2>3 DEF Next
<1> QED BY <1>1, InvAlways, PTL DEF Spec, StateIsSettled

LEMMA OnePlaceNext == Inv /\ OnePlaceInv /\ [Next]_vars => OnePlaceInv'
<1> SUFFICES ASSUME Inv, OnePlaceInv, [Next]_vars PROVE OnePlaceInv'
  OBVIOUS
<1> USE DEF Inv
<1>1. ASSUME UNCHANGED <<ring, builder, sent, lost, handler, taken>> PROVE OnePlaceInv'
  <2>1. \A n \in 1..MaxSamples : Places(n)' = Places(n)
    BY <1>1 DEF Places, HandlerPlaces, RingPlaces, BuilderPlaces, BagPlaces, LostPlaces
  <2> QED BY <1>1, <2>1, MovesIsEnough DEF Moves
<1>2. ASSUME NEW c \in Callers, Start(c) \/ StartStep(c) PROVE OnePlaceInv'
  BY <1>1, <1>2, StartFrame DEF shardVars
<1>3. ASSUME NEW t \in Threads, Signal(t) \/ HandlerStep(t) PROVE OnePlaceInv'
  BY <1>3, OnePlaceSignal, OnePlaceHandler
<1>4. ASSUME NEW k \in States, ReaderStep(k) \/ Elapses(k) PROVE OnePlaceInv'
  BY <1>4, OnePlaceReader
<1>5. CASE UNCHANGED vars
  BY <1>1, <1>5 DEF vars, shardVars, readerVars
<1> QED BY <1>2, <1>3, <1>4, <1>5 DEF Next

\* Of however many signals, threads, shards and flushes: a sample is neither counted twice nor
\* does it disappear.  It is where its handler has it, in one record, in one builder, in what
\* was sent, or among those that were dropped for one reason.
THEOREM SamplesHaveOnePlace == Spec => []OnePlace
<1>1. TypeOK /\ OnePlaceInv => OnePlace
  <2> SUFFICES ASSUME TypeOK, OnePlaceInv, NEW n \in 1..taken PROVE Cardinality(Places(n)) = 1
    BY DEF OnePlace
  <2>1. n \in 1..MaxSamples /\ n <= taken
    BY SignalProfilerAssumption DEF TypeOK, SignalProfilerAssumption
  <2>2. \E p : Places(n) = {p}
    BY <2>1 DEF OnePlaceInv
  <2> QED BY <2>2, FS_Singleton
<1>2. Inv => TypeOK
  BY DEF Inv
<1> QED BY <1>1, <1>2, InvAlways, OnePlaceInit, OnePlaceNext, PTL DEF Spec

-----------------------------------------------------------------------------
(* What start() has found                                                  *)

\* Until its next step, a call holds what discover() made of one process.
Finds(f) == f # <<>> => \E images \in Processes : f = <<images, discover(Loaded(images))>>
FoundInv == \A c \in Callers : Finds(found[c])

LEMMA FoundStep ==
  ASSUME TypeOK, FoundInv, NEW c \in Callers, Start(c) \/ StartStep(c)
  PROVE  FoundInv'
<1>1. DOMAIN found = Callers
  BY DEF TypeOK, StartTypes
<1>2. CASE Discover(c)
  <2>1. PICK images \in Processes :
          found' = [found EXCEPT ![c] = <<images, discover(Loaded(images))>>]
    BY <1>2 DEF Discover
  <2>2. Finds(found'[c])
    BY <1>1, <2>1 DEF Finds
  <2>3. \A d \in Callers \ {c} : found'[d] = found[d]
    BY <1>1, <2>1
  <2> QED BY <2>2, <2>3 DEF FoundInv
<1>3. CASE Allocate(c)
  <2>1. found' = [found EXCEPT ![c] = <<>>]
    BY <1>3 DEF Allocate
  <2>2. Finds(found'[c])
    BY <1>1, <2>1 DEF Finds
  <2>3. \A d \in Callers \ {c} : found'[d] = found[d]
    BY <1>1, <2>1
  <2> QED BY <2>2, <2>3 DEF FoundInv
<1>4. CASE UNCHANGED found
  BY <1>4 DEF FoundInv
<1>5. Discover(c) \/ Allocate(c) \/ UNCHANGED found
  BY DEF Start, StartStep, InitKindasafe, Publish, SpawnReader, RegisterHandler, SanityCheck,
         StartTimer
<1> QED BY <1>2, <1>3, <1>4, <1>5

LEMMA FoundNext == Inv /\ FoundInv /\ [Next]_vars => FoundInv'
<1> SUFFICES ASSUME Inv, FoundInv, [Next]_vars PROVE FoundInv'
  OBVIOUS
<1>1. CASE UNCHANGED found
  BY <1>1 DEF FoundInv
<1>2. ASSUME NEW c \in Callers, Start(c) \/ StartStep(c) PROVE FoundInv'
  BY <1>2, FoundStep DEF Inv
<1>3. ASSUME NEW t \in Threads, Signal(t) \/ HandlerStep(t) PROVE FoundInv'
  BY <1>1, <1>3, HandlerFrame DEF startVars
<1>4. ASSUME NEW k \in States, ReaderStep(k) \/ Elapses(k) PROVE FoundInv'
  BY <1>1, <1>4, ReaderFrame DEF startVars
<1>5. CASE UNCHANGED vars
  BY <1>1, <1>5 DEF vars, startVars
<1> QED BY <1>2, <1>3, <1>4, <1>5 DEF Next

LEMMA FoundAlways == Spec => []FoundInv
<1>1. Init => FoundInv
  BY DEF Init, FoundInv, Finds
<1> QED BY <1>1, InvAlways, FoundNext, PTL DEF Spec

\* In every process: the addresses start() goes on with are those of an interpreter it
\* supports, wherever that was linked and loaded, and of asyncio's offsets.
THEOREM DiscoveryStaysSound == Spec => []DiscoveryIsSound
<1>1. FoundInv => DiscoveryIsSound
  <2> SUFFICES ASSUME FoundInv, NEW c \in Callers, found[c] # <<>>
               PROVE  IsRight(found[c][1], found[c][2])
    BY DEF DiscoveryIsSound
  <2>1. PICK images \in Processes : found[c] = <<images, discover(Loaded(images))>>
    BY DEF FoundInv, Finds
  <2>2. IsRight(images, discover(Loaded(images)))
    BY PythonDiscoveryAssumption, DiscoverSound
  <2> QED BY <2>1, <2>2
<1> QED BY <1>1, FoundAlways, PTL

\* In every process: what is first in the map, and how many libraries are loaded besides,
\* does not hide the interpreter from start().
THEOREM DiscoveryAlwaysFinds == Spec => []DiscoveryFinds
<1>1. FoundInv => DiscoveryFinds
  <2> SUFFICES ASSUME FoundInv, NEW c \in Callers, found[c] # <<>>, HasOneInterpreter(found[c][1])
               PROVE  found[c][2].error = "none"
    BY DEF DiscoveryFinds
  <2>1. PICK images \in Processes : found[c] = <<images, discover(Loaded(images))>>
    BY DEF FoundInv, Finds
  <2>2. HasOneInterpreter(images)
    BY <2>1
  <2>3. discover(Loaded(images)).error = "none"
    BY <2>2, PythonDiscoveryAssumption, DiscoverFinds
  <2> QED BY <2>1, <2>3
<1> QED BY <1>1, FoundAlways, PTL
=============================================================================
