-------------------------- MODULE SignalProfilerMC --------------------------
(* SignalProfiler for TLC: processes of up to three images. *)
EXTENDS SignalProfiler

MCFile(base, names) ==
  [elf |-> TRUE, base |-> base, symtab |-> [n \in {} |-> 0], sections |-> [n \in {} |-> 0],
   dynsym |-> [n \in names |->
                 base + (CASE n = "_PyRuntime" -> 2 [] n = "Py_Version" -> 3
                           [] n = "PyCode_Type" -> 4 [] OTHER -> 5)]]
MCVersion(minor) == [major |-> 3, minor |-> minor, micro |-> 1]
MCContents(base, minor, free_threaded) ==
  [a \in {base + 2, base + 3} |->
     IF a = base + 2 THEN [cookie |-> "xdebugpy", version |-> MCVersion(minor),
                           free_threaded |-> free_threaded]
     ELSE MCVersion(minor)]

MCPython(names, base, bias, minor, free_threaded, replaced) ==
  [names |-> names, file |-> MCFile(base, Wanted), bias |-> bias,
   contents |-> MCContents(base, minor, free_threaded),
   supported |-> minor = 14 /\ free_threaded = 0, replaced |-> replaced]
MCOther(names, file, bias) ==
  [names |-> names, file |-> file, bias |-> bias, contents |-> [a \in {} |-> 0],
   supported |-> FALSE, replaced |-> FALSE]

MCLib == {"libpython3", "python3"}
\* An executable that is linked at 10, or at 0 and loaded at 20; a launcher; a script's data.
MCExecutables ==
  {MCPython({"python3"}, 10, 0, minor, 0, FALSE) : minor \in {13, 14}}
  \union {MCPython({"python3"}, 0, 20, 14, 0, FALSE),
          MCOther({"python3"}, MCFile(0, {}), 20),
          MCOther({"python3"}, [MCFile(0, {}) EXCEPT !.elf = FALSE], 20), MCOther({}, MCFile(0, {}), 20)}
MCLibraries ==
  {MCPython(MCLib, 0, 40, minor, ft, replaced) :
     minor \in {13, 14}, ft \in {0, 1}, replaced \in BOOLEAN}
  \union {MCOther(MCLib, MCFile(0, {"Py_Version"}), 40)}
\* The symbol is in one of three places.
MCAsyncio ==
  LET f == [MCFile(0, {}) EXCEPT !.sections = [n \in {".AsyncioDebug"} |-> 7]]
      here == [n \in {"_AsyncioDebug"} |-> 7]
  IN  {[MCOther({"_asyncio.cpython-3"}, g, 60) EXCEPT !.contents = [a \in {7} |-> "offsets"]] :
         g \in {f, [f EXCEPT !.symtab = here], [f EXCEPT !.dynsym = here]}}

MCProcesses ==
  {<<e>> : e \in MCExecutables} \union {<<e, l>> : e \in MCExecutables, l \in MCLibraries}
  \union {<<e, l, a>> : e \in MCExecutables, l \in MCLibraries, a \in MCAsyncio}
=============================================================================
