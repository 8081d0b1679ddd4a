------------------------------- MODULE Driver -------------------------------
(***************************************************************************)
(* One invocation of the compiler: main, parse_args, run_pipeline and      *)
(* run_aot of src/driver.c with target_parse and target_default_ext of     *)
(* include/backend/target.h, the engine of src/jit/jit.c and the steps of  *)
(* src/output/iso/iso.c that leave the process.                            *)
(*                                                                         *)
(* Each step that can fail does or does not.  What the phases compute is   *)
(* in the other modules; here they matter for what is left behind: exit    *)
(* status, files and memory.                                               *)
(***************************************************************************)
EXTENDS Integers, FiniteSets

CONSTANTS
    InputExts,   \* extensions of source files
    OutputExts,  \* extensions of names given with -o
    Returns      \* bound: values that main of the program returns

ASSUME DriverAssumption ==
    /\ InputExts \subseteq STRING /\ OutputExts \subseteq STRING
    /\ Returns \subseteq Int

VARIABLES
    args,    \* the command line, and whether the program has a main
    pc,      \* where the driver is
    status,  \* the exit status, or one of the next two
    faults,  \* ghost: the steps that failed
    disk,    \* what each file holds
    source,  \* the buffer of load_file: "none", "live" or "freed"
    engine   \* the JITEngine and its executable memory, likewise

vars == <<args, pc, status, faults, disk, source, engine>>

Formats == {"obj", "elf", "so", "exe", "dll", "iso"}
Systems == {"linux", "windows", "freestanding"}
Modes == {"jit", "emit-ir", "aot", "version", "help"}

(* A command line: the last mode asked for, or --grub-check, or nothing at *)
(* all; the options, and whether the program has a main.  An input is in   *)
(* the current directory or not; an output is "long" when its path has 255 *)
(* characters.                                                             *)
None == [given |-> FALSE]
Args ==
    [mode : Modes \cup {"grub-check", "nothing"}, fmt : Formats \cup {"none"},
     target : Systems \cup {"none"},
     input : {None} \cup [given : {TRUE}, ext : InputExts, cwd : BOOLEAN],
     output : {None} \cup [given : {TRUE}, ext : OutputExts, long : BOOLEAN],
     main : BOOLEAN]

Running == -1
Aborted == -2   \* by a failed assertion or a fault of memory

-----------------------------------------------------------------------------
(* parse_args *)

Infer(ext) ==
    CASE ext \in {".o", ".obj"} -> "obj"
      [] ext = ".so"  -> "so"
      [] ext = ".exe" -> "exe"
      [] ext = ".dll" -> "dll"
      [] ext = ".iso" -> "iso"
      [] OTHER -> "elf"

Fmt(a) ==
    CASE a.fmt # "none"  -> a.fmt
      [] a.fmt = "none" /\ a.output.given -> Infer(a.output.ext)
      [] OTHER -> "elf"

Os(a) ==
    CASE a.target # "none" -> a.target
      [] a.target = "none" /\ Fmt(a) \in {"exe", "dll"} -> "windows"
      [] a.target = "none" /\ Fmt(a) = "iso" -> "freestanding"
      [] OTHER -> "linux"

Mode(a) == IF Fmt(a) = "iso" \/ (a.output.given /\ a.mode = "jit") THEN "aot" ELSE a.mode

-----------------------------------------------------------------------------
(* resolve_output.  The files are the source, the output and the           *)
(* temporaries; two names may be one file.                                 *)

Files == {"source", "output", "object", "kernel", "isodir"}
Contents == {"absent", "old", "source", "object", "exec", "linked", "pe", "kernel", "iso", "dir", "cut"}

DefaultExt(a) ==
    CASE Fmt(a) = "obj" -> IF Os(a) = "windows" THEN ".obj" ELSE ".o"
      [] Fmt(a) = "elf" -> ".elf"
      [] Fmt(a) = "so"  -> ".so"
      [] Fmt(a) = "exe" -> ".exe"
      [] Fmt(a) = "dll" -> ".dll"
      [] Fmt(a) = "iso" -> ".iso"

(* Mutant: the directory of the input is kept. *)
OutBesideInput(a) ==
    IF ~a.output.given /\ a.input.ext = DefaultExt(a) THEN "source" ELSE "output"

(* The name made from that of the input, in the current directory, may be  *)
(* the input's.                                                            *)
Out(a) ==
    IF ~a.output.given /\ a.input.cwd /\ a.input.ext = DefaultExt(a) THEN "source" ELSE "output"

(* The name of the temporary object, cut to 255 characters, is the         *)
(* output's when that fills them.                                          *)
Tmp(a) == IF a.output.given /\ a.output.long THEN Out(a) ELSE "object"

-----------------------------------------------------------------------------
At(here) == pc = here
Fault(f) == faults' = faults \cup {f}
NoFault == UNCHANGED faults
Step(from, to) == At(from) /\ pc' = to /\ UNCHANGED <<args, status>>
Exit(s) == pc' = "exit" /\ status' = s /\ UNCHANGED args
KeepAll == UNCHANGED <<disk, source, engine>>

(* A return from run_aot, after which run_pipeline frees the source. *)
Return(s) == pc' = "return" /\ status' = s /\ UNCHANGED args

(* A file opened, written and closed.  The result of write is never read.  *)
Write(f, what) ==
    \/ disk' = [disk EXCEPT ![f] = what] /\ NoFault
    \/ disk' = [disk EXCEPT ![f] = "cut"] /\ Fault("write")

-----------------------------------------------------------------------------
(* main *)

Usage == args.mode = "nothing" \/ (args.mode # "grub-check" /\ Mode(args) \notin {"version", "help"} /\ ~args.input.given)

Start ==
    /\ At("start")
    /\ \/ Usage /\ Exit(1) /\ NoFault
       \/ args.mode = "grub-check" /\ Exit(0) /\ NoFault
       \/ args.mode = "grub-check" /\ Exit(1) /\ Fault("grub")
       \/ ~Usage /\ args.mode # "grub-check" /\ Mode(args) \in {"version", "help"} /\ Exit(0) /\ NoFault
       \/ ~Usage /\ args.mode # "grub-check" /\ Mode(args) \notin {"version", "help"} /\ Step("start", "load") /\ NoFault
    /\ KeepAll

-----------------------------------------------------------------------------
(* run_pipeline *)

LoadFile ==
    /\ At("load")
    /\ \/ pc' = "parse" /\ source' = "live" /\ UNCHANGED <<args, status>> /\ NoFault
       \/ Exit(1) /\ Fault("load") /\ UNCHANGED source
    /\ UNCHANGED <<disk, engine>>

(* Errors of the parser are printed and counted, and not asked for. *)
ParseSource == Step("parse", "sema") /\ (NoFault \/ Fault("parse")) /\ KeepAll

(* Mutant: the early return forgets the buffer. *)
SemaModuleKeeps ==
    /\ At("sema")
    /\ \/ Step("sema", "lower") /\ NoFault /\ UNCHANGED source
       \/ Exit(1) /\ Fault("sema") /\ UNCHANGED source
    /\ UNCHANGED <<disk, engine>>

SemaModule ==
    /\ At("sema")
    /\ \/ Step("sema", "lower") /\ NoFault /\ UNCHANGED source
       \/ Exit(1) /\ Fault("sema") /\ source' = "freed"
    /\ UNCHANGED <<disk, engine>>

(* codegen_module, and the dump of the IR. *)
Lower ==
    /\ At("lower")
    /\ \/ Mode(args) = "emit-ir" /\ Exit(0) /\ source' = "freed" /\ UNCHANGED engine
       \/ Mode(args) = "jit" /\ Step("lower", "jit") /\ engine' = "live" /\ UNCHANGED source
       \/ Mode(args) = "aot" /\ Step("lower", "aot") /\ UNCHANGED <<source, engine>>
    /\ NoFault /\ UNCHANGED disk

(* jit_compile_module fails when the system gives no executable memory, *)
(* and asserts that tables have room.                                      *)
JitCompile ==
    /\ At("jit")
    /\ \/ Step("jit", "find") /\ NoFault /\ UNCHANGED source
       \/ Exit(Aborted) /\ Fault("assert") /\ UNCHANGED source
       \/ Exit(1) /\ Fault("jit") /\ source' = "freed"
    /\ UNCHANGED <<disk, engine>>

FindMain ==
    /\ At("find")
    /\ IF args.main THEN Step("find", "call") /\ NoFault /\ UNCHANGED source
       ELSE Exit(1) /\ Fault("main") /\ source' = "freed"
    /\ UNCHANGED <<disk, engine>>

(* Mutant: the whole of the result. *)
CallMainWhole(ret) ==
    /\ At("call")
    /\ Return(ret)
    /\ \/ ret = 0 /\ NoFault
       \/ ret # 0 /\ Fault("program")
    /\ engine' = "freed" /\ UNCHANGED <<disk, source>>

(* The program runs, and the system keeps eight bits of what it returns. *)
CallMain(ret) ==
    /\ At("call")
    /\ Return(ret % 256)
    /\ \/ ret = 0 /\ NoFault
       \/ ret # 0 /\ Fault(IF ret % 256 = 0 THEN "wrapped" ELSE "program")
    /\ engine' = "freed" /\ UNCHANGED <<disk, source>>

FreeSource ==
    /\ At("return")
    /\ Exit(status) /\ source' = "freed"
    /\ NoFault /\ UNCHANGED <<disk, engine>>

-----------------------------------------------------------------------------
(* run_aot.  An assertion of the function compilers ends the process       *)
(* before any file is opened.                                              *)

CompileForAot ==
    /\ At("aot") /\ Fmt(args) # "iso"
    /\ \/ Step("aot", "write") /\ NoFault
       \/ Exit(Aborted) /\ Fault("assert")
    /\ KeepAll

WriteObject ==
    /\ At("write") /\ Fmt(args) = "obj"
    /\ \/ Return(0) /\ Write(Out(args), "object")
       \/ Return(1) /\ Fault("open") /\ UNCHANGED disk
    /\ UNCHANGED <<source, engine>>

(* Mutant: the result of pe_write is dropped, as that of aot_link is. *)
WritePEUnchecked ==
    /\ At("write") /\ Fmt(args) \in {"exe", "dll"}
    /\ Return(0)
    /\ \/ Write(Out(args), "pe")
       \/ Fault("open") /\ UNCHANGED disk
    /\ UNCHANGED <<source, engine>>

WritePE ==
    /\ At("write") /\ Fmt(args) \in {"exe", "dll"}
    /\ \/ Return(0) /\ Write(Out(args), "pe")
       \/ Return(1) /\ Fault("open") /\ UNCHANGED disk
    /\ UNCHANGED <<source, engine>>

(* An executable written here is then written again by the linker, from an *)
(* object file.                                                            *)
WriteElf ==
    /\ At("write") /\ Fmt(args) = "elf"
    /\ \/ Step("write", "object") /\ Write(Out(args), "exec")
       \/ Return(1) /\ Fault("open") /\ UNCHANGED disk
    /\ UNCHANGED <<source, engine>>

(* A shared library is left to the linker only when it could not be        *)
(* opened.                                                                 *)
WriteSo ==
    /\ At("write") /\ Fmt(args) = "so"
    /\ \/ Return(0) /\ Write(Out(args), "exec")
       \/ Step("write", "object") /\ Fault("open") /\ UNCHANGED disk
    /\ UNCHANGED <<source, engine>>

(* aot_write_elf64 for the linker, its result dropped. *)
WriteTmpObject ==
    /\ Step("object", "link")
    /\ \/ Write(Tmp(args), "object")
       \/ Fault("object") /\ UNCHANGED disk
    /\ UNCHANGED <<source, engine>>

(* The linker needs an object file, a main for an executable, and an       *)
(* output that is not its input.                                           *)
CanLink ==
    /\ disk[Tmp(args)] = "object" /\ Tmp(args) # Out(args)
    /\ Fmt(args) = "elf" => args.main

(* Mutant: only what was linked is cleaned up. *)
LinkKeepsObject ==
    /\ At("link") /\ Return(0)
    /\ \/ CanLink /\ NoFault /\ disk' = [disk EXCEPT ![Out(args)] = "linked", ![Tmp(args)] = "absent"]
       \/ Fault("link") /\ UNCHANGED disk
    /\ UNCHANGED <<source, engine>>

(* aot_link, or the linker called through system, and unlink.  A linker    *)
(* that fails leaves the output alone, when it is not there, or removes it. *)
Link ==
    /\ At("link") /\ Return(0)
    /\ \/ CanLink /\ NoFault /\ disk' = [disk EXCEPT ![Out(args)] = "linked", ![Tmp(args)] = "absent"]
       \/ Fault("link") /\ disk' = [disk EXCEPT ![Tmp(args)] = "absent"]
       \/ Fault("link") /\ disk' = [disk EXCEPT ![Out(args)] = "absent", ![Tmp(args)] = "absent"]
    /\ UNCHANGED <<source, engine>>

-----------------------------------------------------------------------------
(* An arena that gets no chunk returns NULL, arena_new says nothing of it, *)
(* and what follows stores through it.  The phases that allocate from an   *)
(* arena of their own or ask for a new chunk:                              *)

Allocates(here) == here \in {"parse", "sema", "lower", "jit", "aot", "object", "kernel"}

OutOfMemory ==
    /\ Allocates(pc) /\ Exit(Aborted) /\ Fault("memory")
    /\ KeepAll

-----------------------------------------------------------------------------
(* The ISO builder: iso_grub_available, build_kernel_elf, iso_write and    *)
(* iso_compile_and_write.                                                  *)

FindGrub ==
    /\ At("aot") /\ Fmt(args) = "iso"
    /\ \/ Step("aot", "kernel") /\ NoFault
       \/ Return(1) /\ Fault("grub")
    /\ KeepAll

BuildKernel ==
    /\ At("kernel")
    /\ \/ Step("kernel", "mkdir") /\ Write("kernel", "kernel")
       \/ Exit(Aborted) /\ Fault("assert") /\ UNCHANGED disk
       \/ Return(1) /\ Fault("open") /\ UNCHANGED disk
    /\ UNCHANGED <<source, engine>>

(* An early return of iso_write, after which the kernel is unlinked. *)
IsoReturn(s) == Return(s) /\ disk' = [disk EXCEPT !["kernel"] = "absent"]

MakeTree ==
    /\ At("mkdir")
    /\ \/ Step("mkdir", "tree") /\ NoFault /\ disk' = [disk EXCEPT !["isodir"] = "dir"]
       \/ IsoReturn(1) /\ Fault("mkdir")
       \/ /\ Return(1) /\ Fault("mkdir")
          /\ disk' = [disk EXCEPT !["kernel"] = "absent", !["isodir"] = "dir"]
    /\ UNCHANGED <<source, engine>>

(* The kernel copied, grub.cfg written, and grub-mkrescue looked for again. *)
FillTree ==
    /\ At("tree")
    /\ \/ Step("tree", "rescue") /\ NoFault /\ UNCHANGED disk
       \/ IsoReturn(1) /\ \E f \in {"copy", "cfg", "grub_again"} : Fault(f)
    /\ UNCHANGED <<source, engine>>

(* The kernel was copied as it was written. *)
Image == IF disk["kernel"] = "kernel" THEN "iso" ELSE "cut"

(* Mutant: the result of grub-mkrescue is taken after rm -rf. *)
MakeRescueLate ==
    /\ At("rescue") /\ Return(0)
    /\ \/ NoFault /\ disk' = [disk EXCEPT ![Out(args)] = Image, !["isodir"] = "absent", !["kernel"] = "absent"]
       \/ Fault("rescue") /\ disk' = [disk EXCEPT !["isodir"] = "absent", !["kernel"] = "absent"]
    /\ UNCHANGED <<source, engine>>

MakeRescue ==
    /\ At("rescue")
    /\ \/ /\ Return(0) /\ NoFault
          /\ disk' = [disk EXCEPT ![Out(args)] = Image, !["isodir"] = "absent", !["kernel"] = "absent"]
       \/ /\ Return(1) /\ Fault("rescue")
          /\ disk' = [disk EXCEPT !["isodir"] = "absent", !["kernel"] = "absent"]
    /\ UNCHANGED <<source, engine>>

-----------------------------------------------------------------------------
Init ==
    /\ args \in Args
    /\ pc = "start" /\ status = Running /\ faults = {}
    /\ \E before \in {"absent", "old"} :
          disk = [f \in Files |-> CASE f = "source" -> "source" [] f = "output" -> before [] OTHER -> "absent"]
    /\ source = "none" /\ engine = "none"

Next ==
    \/ Start \/ LoadFile \/ ParseSource \/ SemaModule \/ Lower
    \/ JitCompile \/ FindMain \/ (\E ret \in Returns : CallMain(ret)) \/ FreeSource
    \/ CompileForAot \/ WriteObject \/ WritePE \/ WriteElf \/ WriteSo \/ WriteTmpObject \/ Link \/ OutOfMemory
    \/ FindGrub \/ BuildKernel \/ MakeTree \/ FillTree \/ MakeRescue

Spec == Init /\ [][Next]_vars

-----------------------------------------------------------------------------
TypeOK ==
    /\ args \in Args
    /\ pc \in {"start", "load", "parse", "sema", "lower", "jit", "find", "call", "return", "aot", "write",
              "object", "link", "kernel", "mkdir", "tree", "rescue", "exit"}
    /\ status \in 0 .. 255 \cup {Running, Aborted}
    /\ disk \in [Files -> Contents]
    /\ {source, engine} \subseteq {"none", "live", "freed"}

Exited == pc = "exit"

(* What may fail and the exit status is 0: parsing, any write, a program   *)
(* whose result is a multiple of 256, everything the linker does, and the  *)
(* opening of a shared library.                                            *)
Unreported(a) ==
    {"parse", "write", "wrapped"}
        \cup (CASE Fmt(a) = "elf" -> {"object", "link"}
                [] Fmt(a) = "so"  -> {"open", "object", "link"}
                [] OTHER          -> {})

(* The exit status is 0 exactly when nothing failed but what Unreported    *)
(* lists.                                                                  *)
FaultsReported ==
    Exited => (status = 0 <=> ~Usage /\ faults \subseteq Unreported(args))

(* What a successful run leaves under the output's name, and the faults    *)
(* after which it does not.                                                *)
Product(f) ==
    CASE f = "obj" -> {"object"}
      [] f = "elf" -> {"linked"}
      [] f = "so"  -> {"exec", "linked"}
      [] f = "iso" -> {"iso"}
      [] OTHER     -> {"pe"}

Spoils(f) ==
    CASE f = "elf" -> {"link"}
      [] f = "so"  -> {"write", "link"}
      [] OTHER     -> {"write"}

Ran == ~Usage /\ args.mode # "grub-check"

(* A compilation that exits with 0 has written the whole of the format     *)
(* asked for under the output's name: not an older file, not a part, not   *)
(* what was written for the linker; unless a fault in Spoils happened,     *)
(* after which it never has.                                               *)
OutputIsWhole ==
    Exited /\ status = 0 /\ Ran /\ Mode(args) = "aot" =>
        (disk[Out(args)] \in Product(Fmt(args)) <=> faults \cap Spoils(Fmt(args)) = {})

(* No temporary outlives the process, whichever step failed, but the tree  *)
(* of an ISO image when iso_write returns before it removes it.            *)
NothingLeftBehind ==
    Exited =>
        /\ disk["object"] = "absent" /\ disk["kernel"] = "absent"
        /\ disk["isodir"] = "dir" => faults \cap {"mkdir", "copy", "cfg", "grub_again"} # {}
        /\ faults \cap {"copy", "cfg", "grub_again"} # {} => disk["isodir"] = "dir"

(* The tree and the IR point into the source: it lives as long as a phase  *)
(* reads them, and every way out but an abort frees it.  The engine is     *)
(* freed when the program ran and left alone when it could not.            *)
SourceReleased ==
    /\ pc \notin {"start", "load", "exit"} => source = "live"
    /\ Exited /\ status # Aborted =>
          /\ source # "live"
          /\ engine = "live" <=> faults \cap {"jit", "main"} # {}

(* The names under which a source file is taken for the output. *)
OwnName(a) ==
    /\ ~a.output.given /\ a.input.given /\ a.input.cwd
    /\ \/ a.input.ext = ".o" /\ Fmt(a) = "obj" /\ Os(a) # "windows"
       \/ a.input.ext = ".elf" /\ Fmt(a) = "elf"

(* No step of any invocation touches the source file, except that a file   *)
(* compiled under its OwnName is lost: hello.o, as this language's sources *)
(* are called, compiled with --fmt obj.                                    *)
SourceFileKept ==
    /\ disk["source"] # "source" => OwnName(args)
    /\ Exited /\ status = 0 /\ Ran /\ Mode(args) = "aot" /\ OwnName(args) => disk["source"] # "source"
=============================================================================
