-------------------------- MODULE PythonDiscovery --------------------------
(***************************************************************************)
(* python_offsets: how start() finds the interpreter in its own process.   *)
(* The memory map names the files, a file's symbols are at its addresses   *)
(* plus the load bias, and what is read there must say it is CPython 3.14. *)
(*                                                                         *)
(* A process has                                                           *)
(*   maps    the lines of /proc/self/maps, each [start, names, opens,      *)
(*           file]: those of the wanted names that its path contains,      *)
(*           whether the path opens, and the file on disk                  *)
(*   memory  what is readable, by address                                  *)
(* A file is [elf, base, dynsym, symtab, sections]: whether it parses, its *)
(* lowest load address, and addresses by name.                             *)
(***************************************************************************)
EXTENDS FiniteSetsExt, Integers, Sequences

CONSTANT Processes

NoAddress == -1
NoPython == [error |-> "PythonNotFound"]

\* The first line of a wanted file: a set, empty if there is none.
FirstLine(maps, wanted) ==
  {maps[i] : i \in {j \in DOMAIN maps : /\ wanted \in maps[j].names
                                        /\ \A k \in 1..(j - 1) : wanted \notin maps[k].names}}

\* (mutated form) libpython3 is taken only when it comes first: its path contains both names.
FindFirst(maps) == FirstLine(maps, "python3")

\* find_python_in_maps_reader
find_python_in_maps(maps) ==
  IF FirstLine(maps, "libpython3") # {} THEN FirstLine(maps, "libpython3")
  ELSE FirstLine(maps, "python3")

\* The error by its name after map_init_error.
Wanted == {"_PyRuntime", "Py_Version", "PyCode_Type", "_PyThreadState_GetCurrent"}
ElfError(line) ==
  IF ~ line.opens THEN "PythonNotFound"
  ELSE IF ~ line.file.elf \/ ~ Wanted \subseteq DOMAIN line.file.dynsym THEN "SymbolNotFound"
  ELSE "none"

load_bias(line) == line.start - line.file.base
resolve_elf_symbols(line) == [name \in Wanted |-> line.file.dynsym[name] + load_bias(line)]

\* The dynamic symbols, then all symbols, then the section.
resolve_asyncio_debug_symbol(line) ==
  LET f == line.file
      at == IF ~ line.opens \/ ~ f.elf THEN NoAddress
            ELSE IF "_AsyncioDebug" \in DOMAIN f.dynsym THEN f.dynsym["_AsyncioDebug"]
            ELSE IF "_AsyncioDebug" \in DOMAIN f.symtab THEN f.symtab["_AsyncioDebug"]
            ELSE IF ".AsyncioDebug" \in DOMAIN f.sections THEN f.sections[".AsyncioDebug"]
            ELSE NoAddress
  IN  IF at = NoAddress THEN NoAddress ELSE at + load_bias(line)

\* What kindasafe reads: a set, empty if the address is not readable.
ReadAt(p, address) == IF address \in DOMAIN p.memory THEN {p.memory[address]} ELSE {}

\* The version is at Py_Version, [major, minor, micro].
VersionAt(p, address) == {v \in ReadAt(p, address) : v.major = 3 /\ v.minor = 14}

\* (mutated form) the builds without a GIL are let through.
HeaderOfAnyBuild(p, address, version) ==
  {h \in ReadAt(p, address) : h.cookie = "xdebugpy" /\ h.version = version}

\* read_debug_offsets and parse_repr_c.
HeaderAt(p, address, version) ==
  {h \in ReadAt(p, address) :
     h.cookie = "xdebugpy" /\ h.version = version /\ h.free_threaded = 0}

\* Of a module that is not loaded, or not understood, start() does without.
AsyncioOffsets(p) ==
  LET at == {resolve_asyncio_debug_symbol(l) : l \in FirstLine(p.maps, "_asyncio.cpython-3")}
  IN  IF \E a \in at : ReadAt(p, a) # {} THEN CHOOSE a \in at : TRUE ELSE NoAddress

\* Steps 2 to 5b of init_sequence.
FromSymbols(p, symbols) ==
  LET versions == VersionAt(p, symbols["Py_Version"])
      headers == UNION {HeaderAt(p, symbols["_PyRuntime"], v) : v \in versions}
  IN  IF versions = {} THEN [error |-> "UnsupportedVersion"]
      ELSE IF headers = {} THEN [error |-> "DebugOffsetsMismatch"]
      ELSE [error |-> "none", symbols |-> symbols, asyncio |-> AsyncioOffsets(p)]

discover(p) ==
  LET found == find_python_in_maps(p.maps)
      line == CHOOSE l \in found : TRUE
  IN  IF found = {} THEN NoPython
      ELSE IF ElfError(line) # "none" THEN [error |-> ElfError(line)]
      ELSE FromSymbols(p, resolve_elf_symbols(line))

-----------------------------------------------------------------------------
(* A process as the loader makes it, from images in the order of their     *)
(* addresses.  An image is [names, file, bias, contents, supported,        *)
(* replaced]: `contents` is what lies at the addresses of the file, and    *)
(* the file of a `replaced` image is no longer on disk.                    *)

Image(images, k) == images[(k + 1) \div 2]
Span(image) == {image.bias + b : b \in DOMAIN image.contents}
Shared(images, a) == {i \in DOMAIN images : a - images[i].bias \in DOMAIN images[i].contents}

\* Two segments of each image are mapped.
Loaded(images) ==
  [maps |-> [k \in 1..(2 * Len(images)) |->
               LET image == Image(images, k)
               IN  [start |-> image.bias + image.file.base + (IF k % 2 = 1 THEN 0 ELSE 1),
                    names |-> image.names,
                    opens |-> ~ image.replaced, file |-> image.file]],
   memory |-> [a \in UNION {Span(images[i]) : i \in DOMAIN images} |->
                 LET image == images[Min(Shared(images, a))]
                 IN  image.contents[a - image.bias]]]

\* An image of a build that start() can go on with, by what its file and memory hold.
IsInterpreter(image) ==
  LET at == image.file.dynsym
      version == image.contents[at["Py_Version"]]
      header == image.contents[at["_PyRuntime"]]
  IN  /\ image.file.elf /\ Wanted \subseteq DOMAIN at
      /\ version.major = 3 /\ version.minor = 14
      /\ header.cookie = "xdebugpy" /\ header.version = version /\ header.free_threaded = 0

\* A file that is still on disk is the one in memory: what its symbols name is mapped, an
\* interpreter is called python3-something, and the one object in asyncio's debug section
\* is the symbol's.
IsOnDisk(image) ==
  LET f == image.file
  IN  /\ \A name \in Wanted \intersect DOMAIN f.dynsym : f.dynsym[name] \in Int
      /\ f.elf /\ Wanted \subseteq DOMAIN f.dynsym =>
           {f.dynsym["Py_Version"], f.dynsym["_PyRuntime"]} \subseteq DOMAIN image.contents
      /\ image.supported <=> IsInterpreter(image)
      /\ image.supported => "python3" \in image.names
      /\ "_asyncio.cpython-3" \in image.names =>
           \A table \in {f.dynsym, f.symtab} :
             "_AsyncioDebug" \in DOMAIN table =>
               table["_AsyncioDebug"] = f.sections[".AsyncioDebug"]

\* Images do not overlap.
IsLoaded(images) ==
  /\ Len(images) \in Nat /\ DOMAIN images = 1..Len(images)
  /\ \A i \in DOMAIN images :
       /\ images[i].bias \in Int /\ images[i].file.base \in Int
       /\ DOMAIN images[i].contents \subseteq Int
       /\ ~ images[i].replaced => IsOnDisk(images[i])
  /\ \A i, j \in DOMAIN images : i # j => Span(images[i]) \intersect Span(images[j]) = {}

ASSUME PythonDiscoveryAssumption == \A images \in Processes : IsLoaded(images)

IsRight(images, d) ==
  d.error = "none" =>
    /\ \E i \in DOMAIN images :
         /\ images[i].supported
         /\ d.symbols = [name \in Wanted |-> images[i].file.dynsym[name] + images[i].bias]
    /\ d.asyncio # NoAddress =>
         \E i \in DOMAIN images :
           /\ "_asyncio.cpython-3" \in images[i].names
           /\ d.asyncio = images[i].file.sections[".AsyncioDebug"] + images[i].bias

\* There is an interpreter, and no other image can be taken for it.
HasOneInterpreter(images) ==
  \E i \in DOMAIN images :
    /\ images[i].supported /\ ~ images[i].replaced
    /\ \A j \in DOMAIN images \ {i} :
         /\ "libpython3" \notin images[j].names
         /\ "libpython3" \in images[i].names \/ j > i \/ "python3" \notin images[j].names
=============================================================================
