---------------------------- MODULE DriverProofs ----------------------------
(***************************************************************************)
(* Theorems of the driver, for every set of extensions and of results of   *)
(* the program.                                                            *)
(*                                                                         *)
(* Each property is about the end of the process and says nothing of the   *)
(* steps before it.  The inductive invariant says, for each place in the   *)
(* driver, which steps can have failed by then (FaultInv), which files are *)
(* there (FileInv), which memory is held (MemoryInv) and what is under the *)
(* output's name (OutputInv).                                              *)
(***************************************************************************)
EXTENDS Driver, TLAPS

Jit == {"jit", "find", "call"}
Iso == {"mkdir", "tree", "rescue"}

(* The modes and formats that lead to each place. *)
PathInv ==
    /\ pc \notin {"start", "exit"} => ~Usage /\ Ran
    /\ pc \in Jit => Mode(args) = "jit"
    /\ pc \in {"aot", "write", "object", "link", "kernel"} \cup Iso => Mode(args) = "aot"
    /\ pc \in {"kernel"} \cup Iso => Fmt(args) = "iso"
    /\ pc = "write" => Fmt(args) # "iso"
    /\ pc \in {"object", "link"} => Fmt(args) \in {"elf", "so"}

(* What can have failed, and what the status says of it. *)
FaultInv ==
    /\ pc \in {"start", "load", "parse"} => faults = {}
    /\ pc \in {"sema", "lower", "aot", "write", "kernel"} \cup Jit => faults \subseteq {"parse"}
    /\ pc \in Iso => faults \subseteq {"parse", "write"}
    /\ pc = "object" => faults \subseteq {"parse", IF Fmt(args) = "so" THEN "open" ELSE "write"}
    /\ pc = "link" => /\ faults \subseteq {"parse", "write", "object", "open"}
                      /\ Fmt(args) = "elf" => "open" \notin faults
    /\ pc = "return" => /\ status = 0 <=> faults \subseteq Unreported(args)
                        /\ faults \cap {"jit", "main"} = {}
    /\ FaultsReported

(* The temporary files. *)
FileInv ==
    /\ pc # "link" \/ Tmp(args) # "object" => disk["object"] = "absent"
    /\ pc \notin Iso => disk["kernel"] = "absent"
    /\ pc \notin {"tree", "rescue", "return", "exit"} => disk["isodir"] = "absent"
    /\ pc \in {"tree", "rescue"} => disk["isodir"] = "dir"
    /\ pc \in {"return", "exit"} =>
          /\ disk["isodir"] = "dir" => faults \cap {"mkdir", "copy", "cfg", "grub_again"} # {}
          /\ faults \cap {"copy", "cfg", "grub_again"} # {} => disk["isodir"] = "dir"

MemoryInv ==
    /\ pc \in {"start", "load"} => source = "none"
    /\ pc \in Jit => engine = "live"
    /\ pc \notin Jit \cup {"exit"} => engine # "live"
    /\ SourceReleased

(* What is under the output's name. *)
Before == {"absent", "old", "source"}
OutputInv ==
    /\ pc \notin {"link", "object", "return", "exit"} =>
          disk["source"] = "source" /\ disk["output"] \in {"absent", "old"}
    /\ pc = "object" => disk[Out(args)] \in IF Fmt(args) = "so" THEN Before ELSE {"exec", "cut"}
    /\ pc = "link" => /\ disk[Out(args)] # "linked"
                      /\ Fmt(args) = "so" => disk[Out(args)] # "exec"
                      /\ Fmt(args) = "so" /\ disk[Tmp(args)] = "object" => "write" \notin faults
    /\ pc \in Iso => /\ disk["kernel"] \in {"kernel", "cut"}
                     /\ disk["kernel"] = "kernel" <=> "write" \notin faults
    /\ pc \in {"return", "exit"} /\ status = 0 /\ Ran /\ Mode(args) = "aot" =>
          (disk[Out(args)] \in Product(Fmt(args)) <=> faults \cap Spoils(Fmt(args)) = {})

DriverInv == TypeOK /\ PathInv /\ FaultInv /\ FileInv /\ MemoryInv /\ OutputInv
-----------------------------------------------------------------------------
(* What the options make of a command line, and the image of a kernel. *)
LEMMA ArgsFacts ==
  ASSUME args \in Args
  PROVE  /\ Fmt(args) \in Formats
         /\ Out(args) \in {"source", "output"}
         /\ Tmp(args) \in {"object", Out(args)}
<1>1. args.fmt \in Formats \cup {"none"}
  BY DEF Args
<1>2. \A ext : Infer(ext) \in Formats
  BY DEF Infer, Formats
<1>3. Fmt(args) \in Formats
  BY <1>1, <1>2 DEF Fmt, Formats
<1> QED BY <1>3 DEF Out, Tmp

(* What a write does to the files and the faults. *)
LEMMA WriteFacts ==
  ASSUME disk \in [Files -> Contents], NEW f \in Files, NEW what \in Contents, Write(f, what)
  PROVE  /\ disk' \in [Files -> Contents]
         /\ \A g \in Files \ {f} : disk'[g] = disk[g]
         /\ \/ disk'[f] = what /\ UNCHANGED faults
            \/ disk'[f] = "cut" /\ faults' = faults \cup {"write"}
BY DEF Write, Fault, NoFault, Contents

LEMMA ImageFacts ==
  /\ Image \in {"iso", "cut"}
  /\ Image = "iso" <=> disk["kernel"] = "kernel"
BY DEF Image

(* Each step keeps the types. *)
LEMMA NextTypes ==
  ASSUME TypeOK, [Next]_vars
  PROVE  TypeOK'
<1> USE ArgsFacts, ImageFacts, DriverAssumption DEF TypeOK, Files, Contents, Running, Aborted,
      At, Step, Exit, Return, Fault, NoFault, KeepAll
<1>1. CASE Start
  BY <1>1 DEF Start
<1>2. CASE LoadFile
  BY <1>2 DEF LoadFile
<1>3. CASE ParseSource
  BY <1>3 DEF ParseSource
<1>4. CASE SemaModule
  BY <1>4 DEF SemaModule
<1>5. CASE Lower
  BY <1>5 DEF Lower
<1>6. CASE JitCompile
  BY <1>6 DEF JitCompile
<1>7. CASE FindMain
  BY <1>7 DEF FindMain
<1>8. ASSUME NEW ret \in Returns, CallMain(ret) PROVE TypeOK'
  BY <1>8 DEF CallMain
<1>9. CASE FreeSource
  BY <1>9 DEF FreeSource
<1>10. CASE CompileForAot
  BY <1>10 DEF CompileForAot
<1>11. CASE WriteObject
  BY <1>11 DEF WriteObject, Write
<1>12. CASE WritePE
  BY <1>12 DEF WritePE, Write
<1>13. CASE WriteElf
  BY <1>13 DEF WriteElf, Write
<1>14. CASE WriteSo
  BY <1>14 DEF WriteSo, Write
<1>15. CASE WriteTmpObject
  BY <1>15 DEF WriteTmpObject, Write
<1>16. CASE Link
  BY <1>16 DEF Link, CanLink
<1>17. CASE OutOfMemory
  BY <1>17 DEF OutOfMemory, Allocates
<1>18. CASE FindGrub
  BY <1>18 DEF FindGrub
<1>19. CASE BuildKernel
  BY <1>19 DEF BuildKernel, Write
<1>20. CASE MakeTree
  BY <1>20 DEF MakeTree, IsoReturn
<1>21. CASE FillTree
  BY <1>21 DEF FillTree, IsoReturn
<1>22. CASE MakeRescue
  BY <1>22 DEF MakeRescue
<1>23. CASE UNCHANGED vars
  BY <1>23 DEF vars
<1> QED BY <1>1, <1>2, <1>3, <1>4, <1>5, <1>6, <1>7, <1>8, <1>9, <1>10, <1>11, <1>12, <1>13, <1>14, <1>15, <1>16, <1>17, <1>18, <1>19, <1>20, <1>21, <1>22, <1>23 DEF Next

(* The command line stays, and with it what it says. *)
LEMMA SameArgs == args' = args => (Usage' <=> Usage) /\ (Ran' <=> Ran)
BY DEF Usage, Ran

(* Each step goes only where the mode and the format lead. *)
LEMMA NextPaths ==
  ASSUME TypeOK, PathInv, [Next]_vars
  PROVE  PathInv'
<1> USE ArgsFacts, SameArgs DEF PathInv, Jit, Iso, Ran, Formats,
      At, Step, Exit, Return, Fault, NoFault, KeepAll
<1>1. CASE Start
  BY <1>1 DEF Start
<1>2. CASE LoadFile
  BY <1>2 DEF LoadFile
<1>3. CASE ParseSource
  BY <1>3 DEF ParseSource
<1>4. CASE SemaModule
  BY <1>4 DEF SemaModule
<1>5. CASE Lower
  BY <1>5 DEF Lower
<1>6. CASE JitCompile
  BY <1>6 DEF JitCompile
<1>7. CASE FindMain
  BY <1>7 DEF FindMain
<1>8. ASSUME NEW ret \in Returns, CallMain(ret) PROVE PathInv'
  BY <1>8 DEF CallMain
<1>9. CASE FreeSource
  BY <1>9 DEF FreeSource
<1>10. CASE CompileForAot
  BY <1>10 DEF CompileForAot
<1>11. CASE WriteObject
  BY <1>11 DEF WriteObject, Write
<1>12. CASE WritePE
  BY <1>12 DEF WritePE, Write
<1>13. CASE WriteElf
  BY <1>13 DEF WriteElf, Write
<1>14. CASE WriteSo
  BY <1>14 DEF WriteSo, Write
<1>15. CASE WriteTmpObject
  BY <1>15 DEF WriteTmpObject, Write
<1>16. CASE Link
  BY <1>16 DEF Link, CanLink
<1>17. CASE OutOfMemory
  BY <1>17 DEF OutOfMemory, Allocates
<1>18. CASE FindGrub
  BY <1>18 DEF FindGrub
<1>19. CASE BuildKernel
  BY <1>19 DEF BuildKernel, Write
<1>20. CASE MakeTree
  BY <1>20 DEF MakeTree, IsoReturn
<1>21. CASE FillTree
  BY <1>21 DEF FillTree, IsoReturn
<1>22. CASE MakeRescue
  BY <1>22 DEF MakeRescue
<1>23. CASE UNCHANGED vars
  BY <1>23 DEF vars
<1> QED BY <1>1, <1>2, <1>3, <1>4, <1>5, <1>6, <1>7, <1>8, <1>9, <1>10, <1>11, <1>12, <1>13, <1>14, <1>15, <1>16, <1>17, <1>18, <1>19, <1>20, <1>21, <1>22, <1>23 DEF Next

(* Each step keeps track of what has failed, and of the status it leads to. *)
LEMMA NextFaults ==
  ASSUME TypeOK, PathInv, FaultInv, [Next]_vars
  PROVE  FaultInv'
<1> USE ArgsFacts, SameArgs, DriverAssumption DEF PathInv, FaultInv, FaultsReported, Exited, Jit, Iso, Unreported, Formats, TypeOK, Running, Aborted,
      At, Step, Exit, Return, Fault, NoFault, KeepAll
<1>1. CASE Start
  BY <1>1 DEF Start, Usage
<1>2. CASE LoadFile
  BY <1>2 DEF LoadFile
<1>3. CASE ParseSource
  BY <1>3 DEF ParseSource
<1>4. CASE SemaModule
  BY <1>4 DEF SemaModule
<1>5. CASE Lower
  BY <1>5 DEF Lower
<1>6. CASE JitCompile
  BY <1>6 DEF JitCompile
<1>7. CASE FindMain
  BY <1>7 DEF FindMain
<1>8. ASSUME NEW ret \in Returns, CallMain(ret) PROVE FaultInv'
  BY <1>8 DEF CallMain
<1>9. CASE FreeSource
  BY <1>9 DEF FreeSource
<1>10. CASE CompileForAot
  BY <1>10 DEF CompileForAot
<1>11. CASE WriteObject
  BY <1>11 DEF WriteObject, Write
<1>12. CASE WritePE
  BY <1>12 DEF WritePE, Write
<1>13. CASE WriteElf
  BY <1>13 DEF WriteElf, Write
<1>14. CASE WriteSo
  BY <1>14 DEF WriteSo, Write
<1>15. CASE WriteTmpObject
  BY <1>15 DEF WriteTmpObject, Write
<1>16. CASE Link
  BY <1>16 DEF Link, CanLink
<1>17. CASE OutOfMemory
  BY <1>17 DEF OutOfMemory, Allocates
<1>18. CASE FindGrub
  BY <1>18 DEF FindGrub
<1>19. CASE BuildKernel
  BY <1>19 DEF BuildKernel, Write
<1>20. CASE MakeTree
  BY <1>20 DEF MakeTree, IsoReturn
<1>21. CASE FillTree
  BY <1>21 DEF FillTree, IsoReturn
<1>22. CASE MakeRescue
  BY <1>22 DEF MakeRescue
<1>23. CASE UNCHANGED vars
  BY <1>23 DEF vars
<1> QED BY <1>1, <1>2, <1>3, <1>4, <1>5, <1>6, <1>7, <1>8, <1>9, <1>10, <1>11, <1>12, <1>13, <1>14, <1>15, <1>16, <1>17, <1>18, <1>19, <1>20, <1>21, <1>22, <1>23 DEF Next

(* The steps that write a file leave the others alone, and what can fail in *)
(* them is none of the steps of the ISO builder.                           *)
WritesOf(step, f) ==
  /\ f \in Files
  /\ step => \A g \in Files \ {f} : disk'[g] = disk[g]
  /\ step => faults' \subseteq faults \cup {"open", "write", "object", "assert"}

LEMMA WriteKeeps ==
  ASSUME disk \in [Files -> Contents], NEW f \in Files, NEW what \in Contents,
         NEW x \in {"open", "object", "assert"},
         Write(f, what) \/ (Fault(x) /\ UNCHANGED disk)
  PROVE  /\ \A g \in Files \ {f} : disk'[g] = disk[g]
         /\ faults' \subseteq faults \cup {"open", "write", "object", "assert"}
<1>1. CASE Write(f, what)
  BY <1>1, WriteFacts
<1>2. CASE Fault(x) /\ UNCHANGED disk
  BY <1>2 DEF Fault
<1> QED BY <1>1, <1>2

LEMMA WritingSteps ==
  ASSUME TypeOK
  PROVE  /\ WritesOf(WriteObject \/ WritePE \/ WriteElf \/ WriteSo, Out(args))
         /\ WritesOf(WriteTmpObject, Tmp(args))
         /\ WritesOf(BuildKernel, "kernel")
<1>1. /\ Out(args) \in Files /\ Tmp(args) \in Files /\ "kernel" \in Files
      /\ disk \in [Files -> Contents]
  BY ArgsFacts DEF TypeOK, Files
<1>2. {"object", "pe", "exec", "kernel"} \subseteq Contents
  BY DEF Contents
<1>3. WriteObject => \E x \in {"open", "object", "assert"} :
          Write(Out(args), "object") \/ (Fault(x) /\ UNCHANGED disk)
  BY DEF WriteObject
<1>4. WritePE => \E x \in {"open", "object", "assert"} :
          Write(Out(args), "pe") \/ (Fault(x) /\ UNCHANGED disk)
  BY DEF WritePE
<1>5. WriteElf => \E x \in {"open", "object", "assert"} :
          Write(Out(args), "exec") \/ (Fault(x) /\ UNCHANGED disk)
  BY DEF WriteElf
<1>6. WriteSo => \E x \in {"open", "object", "assert"} :
          Write(Out(args), "exec") \/ (Fault(x) /\ UNCHANGED disk)
  BY DEF WriteSo
<1>7. WriteTmpObject => \E x \in {"open", "object", "assert"} :
          Write(Tmp(args), "object") \/ (Fault(x) /\ UNCHANGED disk)
  BY DEF WriteTmpObject
<1>8. BuildKernel => \E x \in {"open", "object", "assert"} :
          Write("kernel", "kernel") \/ (Fault(x) /\ UNCHANGED disk)
  BY DEF BuildKernel
<1>9. WritesOf(WriteObject \/ WritePE \/ WriteElf \/ WriteSo, Out(args))
  <2>1. CASE WriteObject
    BY <1>1, <1>2, <1>3, <2>1, WriteKeeps DEF WritesOf
  <2>2. CASE WritePE
    BY <1>1, <1>2, <1>4, <2>2, WriteKeeps DEF WritesOf
  <2>3. CASE WriteElf
    BY <1>1, <1>2, <1>5, <2>3, WriteKeeps DEF WritesOf
  <2>4. CASE WriteSo
    BY <1>1, <1>2, <1>6, <2>4, WriteKeeps DEF WritesOf
  <2> QED BY <1>1, <2>1, <2>2, <2>3, <2>4 DEF WritesOf
<1>10. WritesOf(WriteTmpObject, Tmp(args))
  BY <1>1, <1>2, <1>7, WriteKeeps DEF WritesOf
<1>11. WritesOf(BuildKernel, "kernel")
  BY <1>1, <1>2, <1>8, WriteKeeps DEF WritesOf
<1> QED BY <1>9, <1>10, <1>11

(* Each step keeps track of the temporary files. *)
LEMMA NextFiles ==
  ASSUME TypeOK, PathInv, FaultInv, FileInv, [Next]_vars
  PROVE  FileInv'
<1>0. /\ WritesOf(WriteObject \/ WritePE \/ WriteElf \/ WriteSo, Out(args))
     /\ WritesOf(WriteTmpObject, Tmp(args))
     /\ WritesOf(BuildKernel, "kernel")
  BY WritingSteps
<1> USE ArgsFacts, SameArgs DEF TypeOK, PathInv, FaultInv, FileInv, Jit, Iso, Files, Contents,
      At, Step, Exit, Return, Fault, NoFault, KeepAll
<1>1. CASE Start
  BY <1>1 DEF Start
<1>2. CASE LoadFile
  BY <1>2 DEF LoadFile
<1>3. CASE ParseSource
  BY <1>3 DEF ParseSource
<1>4. CASE SemaModule
  BY <1>4 DEF SemaModule
<1>5. CASE Lower
  BY <1>5 DEF Lower
<1>6. CASE JitCompile
  BY <1>6 DEF JitCompile
<1>7. CASE FindMain
  BY <1>7 DEF FindMain
<1>8. ASSUME NEW ret \in Returns, CallMain(ret) PROVE FileInv'
  BY <1>8 DEF CallMain
<1>9. CASE FreeSource
  BY <1>9 DEF FreeSource
<1>10. CASE CompileForAot
  BY <1>10 DEF CompileForAot
<1>11. CASE WriteObject
  <2>1. /\ \A g \in Files \ {Out(args)} : disk'[g] = disk[g]
        /\ faults' \subseteq faults \cup {"open", "write", "object", "assert"}
    BY <1>11, <1>0 DEF WritesOf
  <2> QED BY <1>11, <2>1 DEF WriteObject
<1>12. CASE WritePE
  <2>1. /\ \A g \in Files \ {Out(args)} : disk'[g] = disk[g]
        /\ faults' \subseteq faults \cup {"open", "write", "object", "assert"}
    BY <1>12, <1>0 DEF WritesOf
  <2> QED BY <1>12, <2>1 DEF WritePE
<1>13. CASE WriteElf
  <2>1. /\ \A g \in Files \ {Out(args)} : disk'[g] = disk[g]
        /\ faults' \subseteq faults \cup {"open", "write", "object", "assert"}
    BY <1>13, <1>0 DEF WritesOf
  <2> QED BY <1>13, <2>1 DEF WriteElf
<1>14. CASE WriteSo
  <2>1. /\ \A g \in Files \ {Out(args)} : disk'[g] = disk[g]
        /\ faults' \subseteq faults \cup {"open", "write", "object", "assert"}
    BY <1>14, <1>0 DEF WritesOf
  <2> QED BY <1>14, <2>1 DEF WriteSo
<1>15. CASE WriteTmpObject
  <2>1. /\ \A g \in Files \ {Tmp(args)} : disk'[g] = disk[g]
        /\ faults' \subseteq faults \cup {"open", "write", "object", "assert"}
    BY <1>15, <1>0 DEF WritesOf
  <2> QED BY <1>15, <2>1 DEF WriteTmpObject
<1>16. CASE Link
  <2>1. /\ disk'["object"] = "absent"
        /\ disk'["kernel"] = disk["kernel"] /\ disk'["isodir"] = disk["isodir"]
    BY <1>16 DEF Link
  <2> QED BY <1>16, <2>1 DEF Link
<1>17. CASE OutOfMemory
  BY <1>17 DEF OutOfMemory, Allocates
<1>18. CASE FindGrub
  BY <1>18 DEF FindGrub
<1>19. CASE BuildKernel
  <2>1. /\ \A g \in Files \ {"kernel"} : disk'[g] = disk[g]
        /\ faults' \subseteq faults \cup {"open", "write", "object", "assert"}
    BY <1>19, <1>0 DEF WritesOf
  <2> QED BY <1>19, <2>1 DEF BuildKernel
<1>20. CASE MakeTree
  BY <1>20 DEF MakeTree, IsoReturn
<1>21. CASE FillTree
  BY <1>21 DEF FillTree, IsoReturn
<1>22. CASE MakeRescue
  <2>1. /\ disk'["object"] = disk["object"]
        /\ disk'["kernel"] = "absent" /\ disk'["isodir"] = "absent"
    BY <1>22 DEF MakeRescue
  <2> QED BY <1>22, <2>1 DEF MakeRescue
<1>23. CASE UNCHANGED vars
  BY <1>23 DEF vars
<1> QED BY <1>1, <1>2, <1>3, <1>4, <1>5, <1>6, <1>7, <1>8, <1>9, <1>10, <1>11, <1>12, <1>13, <1>14, <1>15, <1>16, <1>17, <1>18, <1>19, <1>20, <1>21, <1>22, <1>23 DEF Next

(* Each step keeps track of the source and the engine. *)
LEMMA NextMemory ==
  ASSUME TypeOK, PathInv, FaultInv, MemoryInv, [Next]_vars
  PROVE  MemoryInv'
<1> USE ArgsFacts, SameArgs DEF TypeOK, PathInv, FaultInv, MemoryInv, SourceReleased, Exited, Jit, Iso, Running, Aborted,
      At, Step, Exit, Return, Fault, NoFault, KeepAll
<1>1. CASE Start
  BY <1>1 DEF Start
<1>2. CASE LoadFile
  BY <1>2 DEF LoadFile
<1>3. CASE ParseSource
  BY <1>3 DEF ParseSource
<1>4. CASE SemaModule
  BY <1>4 DEF SemaModule
<1>5. CASE Lower
  BY <1>5 DEF Lower
<1>6. CASE JitCompile
  BY <1>6 DEF JitCompile
<1>7. CASE FindMain
  BY <1>7 DEF FindMain
<1>8. ASSUME NEW ret \in Returns, CallMain(ret) PROVE MemoryInv'
  BY <1>8 DEF CallMain
<1>9. CASE FreeSource
  BY <1>9 DEF FreeSource
<1>10. CASE CompileForAot
  BY <1>10 DEF CompileForAot
<1>11. CASE WriteObject
  BY <1>11 DEF WriteObject, Write
<1>12. CASE WritePE
  BY <1>12 DEF WritePE, Write
<1>13. CASE WriteElf
  BY <1>13 DEF WriteElf, Write
<1>14. CASE WriteSo
  BY <1>14 DEF WriteSo, Write
<1>15. CASE WriteTmpObject
  BY <1>15 DEF WriteTmpObject, Write
<1>16. CASE Link
  BY <1>16 DEF Link, CanLink
<1>17. CASE OutOfMemory
  BY <1>17 DEF OutOfMemory, Allocates
<1>18. CASE FindGrub
  BY <1>18 DEF FindGrub
<1>19. CASE BuildKernel
  BY <1>19 DEF BuildKernel, Write
<1>20. CASE MakeTree
  BY <1>20 DEF MakeTree, IsoReturn
<1>21. CASE FillTree
  BY <1>21 DEF FillTree, IsoReturn
<1>22. CASE MakeRescue
  BY <1>22 DEF MakeRescue
<1>23. CASE UNCHANGED vars
  BY <1>23 DEF vars
<1> QED BY <1>1, <1>2, <1>3, <1>4, <1>5, <1>6, <1>7, <1>8, <1>9, <1>10, <1>11, <1>12, <1>13, <1>14, <1>15, <1>16, <1>17, <1>18, <1>19, <1>20, <1>21, <1>22, <1>23 DEF Next

(* Each step keeps track of what is under the output's name. *)
LEMMA NextOutput ==
  ASSUME TypeOK, PathInv, FaultInv, FileInv, OutputInv, [Next]_vars
  PROVE  OutputInv'
<1> USE ArgsFacts, SameArgs, ImageFacts DEF TypeOK, PathInv, FaultInv, FileInv, OutputInv, Before, Product, Spoils, Jit, Iso, Formats, Files, Contents, Running, Aborted,
      At, Step, Exit, Return, Fault, NoFault, KeepAll
<1>1. CASE Start
  BY <1>1 DEF Start, Ran
<1>2. CASE LoadFile
  BY <1>2 DEF LoadFile
<1>3. CASE ParseSource
  BY <1>3 DEF ParseSource
<1>4. CASE SemaModule
  BY <1>4 DEF SemaModule
<1>5. CASE Lower
  BY <1>5 DEF Lower
<1>6. CASE JitCompile
  BY <1>6 DEF JitCompile
<1>7. CASE FindMain
  BY <1>7 DEF FindMain
<1>8. ASSUME NEW ret \in Returns, CallMain(ret) PROVE OutputInv'
  BY <1>8 DEF CallMain
<1>9. CASE FreeSource
  BY <1>9 DEF FreeSource
<1>10. CASE CompileForAot
  BY <1>10 DEF CompileForAot
<1>11. CASE WriteObject
  BY <1>11 DEF WriteObject, Write
<1>12. CASE WritePE
  BY <1>12 DEF WritePE, Write
<1>13. CASE WriteElf
  BY <1>13 DEF WriteElf, Write
<1>14. CASE WriteSo
  BY <1>14 DEF WriteSo, Write
<1>15. CASE WriteTmpObject
  BY <1>15 DEF WriteTmpObject, Write
<1>16. CASE Link
  BY <1>16 DEF Link, CanLink
<1>17. CASE OutOfMemory
  <2> HIDE DEF TypeOK, PathInv, FaultInv, FileInv, Product, Spoils
  <2>1. pc' = "exit" /\ status' # 0
    BY <1>17 DEF OutOfMemory
  <2> QED BY <2>1
<1>18. CASE FindGrub
  BY <1>18 DEF FindGrub
<1>19. CASE BuildKernel
  BY <1>19 DEF BuildKernel, Write
<1>20. CASE MakeTree
  BY <1>20 DEF MakeTree, IsoReturn
<1>21. CASE FillTree
  BY <1>21 DEF FillTree, IsoReturn
<1>22. CASE MakeRescue
  BY <1>22 DEF MakeRescue
<1>23. CASE UNCHANGED vars
  BY <1>23 DEF vars
<1> QED BY <1>1, <1>2, <1>3, <1>4, <1>5, <1>6, <1>7, <1>8, <1>9, <1>10, <1>11, <1>12, <1>13, <1>14, <1>15, <1>16, <1>17, <1>18, <1>19, <1>20, <1>21, <1>22, <1>23 DEF Next

-----------------------------------------------------------------------------
LEMMA InitDriver == Init => DriverInv
<1> SUFFICES ASSUME Init PROVE DriverInv
  OBVIOUS
<1>1. TypeOK
  BY DEF Init, TypeOK, Running, Files, Contents
<1>2. PathInv /\ FaultInv /\ MemoryInv
  BY DEF Init, PathInv, Jit, Iso, FaultInv, FaultsReported, Exited, MemoryInv, SourceReleased
<1>3. FileInv /\ OutputInv
  BY DEF Init, FileInv, OutputInv, Iso, Files
<1> QED BY <1>1, <1>2, <1>3 DEF DriverInv

LEMMA NextDriver == DriverInv /\ [Next]_vars => DriverInv'
BY NextTypes, NextPaths, NextFaults, NextFiles, NextMemory, NextOutput DEF DriverInv

LEMMA DriverInvariant == Spec => []DriverInv
BY InitDriver, NextDriver, PTL DEF Spec

(* The types, for every command line. *)
THEOREM DriverTypeCorrect == Spec => []TypeOK
<1>1. DriverInv => TypeOK
  BY DEF DriverInv
<1> QED BY <1>1, DriverInvariant, PTL

(* run_pipeline and run_aot: whatever fails, the exit status is 0 exactly  *)
(* when nothing failed but what Unreported lists.                          *)
THEOREM FaultsAreReported == Spec => []FaultsReported
<1>1. DriverInv => FaultsReported
  BY DEF DriverInv, FaultInv
<1> QED BY <1>1, DriverInvariant, PTL

(* run_aot: after an exit status of 0 the output is whole and of the       *)
(* format asked for, exactly when no fault of Spoils happened.             *)
THEOREM OutputsAreWhole == Spec => []OutputIsWhole
<1>1. DriverInv => OutputIsWhole
  BY DEF DriverInv, OutputInv, OutputIsWhole, Exited
<1> QED BY <1>1, DriverInvariant, PTL

(* run_aot and iso_write: whatever fails, no temporary file is left but    *)
(* the tree of an image whose iso_write returned early.                    *)
THEOREM TemporariesRemoved == Spec => []NothingLeftBehind
<1>1. DriverInv => NothingLeftBehind
  BY DEF DriverInv, FileInv, NothingLeftBehind, Exited, Iso
<1> QED BY <1>1, DriverInvariant, PTL

(* run_pipeline: the source is there while it is read and freed on every   *)
(* way out but an abort.                                                   *)
THEOREM SourceIsReleased == Spec => []SourceReleased
<1>1. DriverInv => SourceReleased
  BY DEF DriverInv, MemoryInv
<1> QED BY <1>1, DriverInvariant, PTL


-----------------------------------------------------------------------------
(* Sources are not named like what the compiler makes for other systems    *)
(* or formats.  One called prog.exe would be the output of --fmt exe.      *)
SourcesAreNotProducts == InputExts \cap {".obj", ".so", ".exe", ".dll", ".iso"} = {}

(* The source is gone only when it bears the name of the output, and from  *)
(* the step on that opens the output: before the linker starts, and after  *)
(* every return of run_aot with 0.                                         *)
SourceInv ==
    /\ disk["source"] # "source" => OwnName(args)
    /\ pc \in {"object", "link"} /\ OwnName(args) => disk["source"] # "source"
    /\ pc \in {"return", "exit"} /\ status = 0 /\ Ran /\ Mode(args) = "aot" /\ OwnName(args) =>
          disk["source"] # "source"

(* Of an ahead-of-time compilation: the output's name is the source's just *)
(* under an OwnName.                                                       *)
LEMMA OutIsSource ==
  ASSUME SourcesAreNotProducts, args \in Args, ~Usage, Ran, Mode(args) = "aot"
  PROVE  Out(args) = "source" <=> OwnName(args)
<1>1. Fmt(args) \in Formats
  BY ArgsFacts
<1>2. args.input.given /\ args.input.ext \in InputExts
  <2>1. args.input \in {None} \cup [given : {TRUE}, ext : InputExts, cwd : BOOLEAN]
    BY DEF Args
  <2>2. args.input.given
    BY DEF Usage, Ran
  <2>3. args.input # None
    BY <2>2 DEF None
  <2> QED BY <2>1, <2>3
<1>3. args.input.ext \notin {".obj", ".so", ".exe", ".dll", ".iso"}
  BY <1>2 DEF SourcesAreNotProducts
<1>4. OwnName(args) => args.input.ext = DefaultExt(args)
  BY DEF OwnName, DefaultExt
<1>5. args.input.ext = DefaultExt(args) =>
        \/ args.input.ext = ".o" /\ Fmt(args) = "obj" /\ Os(args) # "windows"
        \/ args.input.ext = ".elf" /\ Fmt(args) = "elf"
  BY <1>1, <1>3 DEF DefaultExt, Formats
<1> QED BY <1>2, <1>4, <1>5 DEF Out, OwnName

LEMMA SourceUnderOtherFormats ==
  ASSUME OwnName(args)
  PROVE  Fmt(args) \in {"obj", "elf"}
BY DEF OwnName

(* Each step spares the source, but the one that opens an output of its    *)
(* name.                                                                   *)
LEMMA NextSource ==
  ASSUME SourcesAreNotProducts, DriverInv, SourceInv, [Next]_vars
  PROVE  SourceInv'
<1>0. /\ WritesOf(WriteObject \/ WritePE \/ WriteElf \/ WriteSo, Out(args))
      /\ WritesOf(WriteTmpObject, Tmp(args))
      /\ WritesOf(BuildKernel, "kernel")
  BY WritingSteps DEF DriverInv
<1>a. /\ TypeOK /\ PathInv
      /\ args \in Args /\ disk \in [Files -> Contents] /\ "source" \in Files
      /\ Out(args) \in Files /\ Tmp(args) \in Files
  BY ArgsFacts DEF DriverInv, TypeOK, Files
<1>b. /\ Out(args) \in {"source", "output"}
      /\ Tmp(args) \in {"object", Out(args)}
      /\ OwnName(args) => Fmt(args) \in {"obj", "elf"}
      /\ pc \notin {"start", "exit"} /\ Mode(args) = "aot" => (Out(args) = "source" <=> OwnName(args))
  BY <1>a, ArgsFacts, OutIsSource, SourceUnderOtherFormats DEF PathInv
<1>c. ASSUME UNCHANGED <<args, disk>>, pc' \notin {"object", "link"},
             pc' \in {"return", "exit"} => status' # 0 \/ ~Ran \/ Mode(args) # "aot" PROVE SourceInv'
  BY <1>c, SameArgs DEF SourceInv
<1> USE DEF At, Step, Exit, Return, KeepAll
<1>1. CASE Start
  BY <1>1, <1>c DEF Start, Ran
<1>2. CASE LoadFile
  BY <1>2, <1>c DEF LoadFile
<1>3. CASE ParseSource
  BY <1>3, <1>c DEF ParseSource
<1>4. CASE SemaModule
  BY <1>4, <1>c DEF SemaModule
<1>5. CASE Lower
  BY <1>5, <1>c DEF Lower
<1>6. CASE JitCompile
  BY <1>6, <1>c DEF JitCompile, Aborted
<1>7. CASE FindMain
  BY <1>7, <1>c DEF FindMain
<1>8. ASSUME NEW ret \in Returns, CallMain(ret) PROVE SourceInv'
  <2>1. Mode(args) # "aot"
    BY <1>8, <1>a DEF CallMain, PathInv, Jit
  <2> QED BY <1>8, <2>1, <1>c DEF CallMain
<1>9. CASE FreeSource
  BY <1>9, SameArgs DEF FreeSource, SourceInv
<1>10. CASE CompileForAot
  BY <1>10, <1>c DEF CompileForAot, Aborted
<1>11. CASE WriteObject \/ WritePE \/ WriteElf \/ WriteSo
  <2>1. \A g \in Files \ {Out(args)} : disk'[g] = disk[g]
    BY <1>11, <1>0 DEF WritesOf
  <2>2. Mode(args) = "aot" /\ pc = "write" /\ args' = args
    BY <1>11, <1>a DEF WriteObject, WritePE, WriteElf, WriteSo, PathInv
  <2>3. Out(args) = "source" <=> OwnName(args)
    BY <1>b, <2>2
  <2>4. disk'["source"] # "source" => OwnName(args)
    BY <1>a, <2>1, <2>3 DEF SourceInv
  <2>5. ASSUME OwnName(args), pc' \in {"object", "link"} \/ status' = 0
        PROVE  disk'["source"] # "source"
    <3>1. \E what \in {"object", "exec"} : Write("source", what)
      BY <1>11, <1>b, <2>3, <2>5 DEF WriteObject, WritePE, WriteElf, WriteSo
    <3> QED BY <3>1, <1>a DEF Write
  <2>6. pc' \notin {"object", "link"} => pc' = "return"
    BY <1>11 DEF WriteObject, WritePE, WriteElf, WriteSo
  <2> QED BY <2>2, <2>4, <2>5, <2>6 DEF SourceInv
<1>15. CASE WriteTmpObject
  <2>1. /\ \A g \in Files \ {Tmp(args)} : disk'[g] = disk[g]
        /\ pc = "object" /\ pc' = "link" /\ args' = args
    BY <1>15, <1>0 DEF WritesOf, WriteTmpObject
  <2>2. Mode(args) = "aot" /\ (Out(args) = "source" <=> OwnName(args))
    BY <2>1, <1>a, <1>b DEF PathInv
  <2>3. OwnName(args) => Tmp(args) = "object"
    BY DEF OwnName, Tmp
  <2>4. disk'["source"] = disk["source"]
    BY <1>a, <1>b, <2>1, <2>2, <2>3
  <2> QED BY <2>1, <2>4 DEF SourceInv
<1>16. CASE Link
  <2>1. /\ pc = "link" /\ pc' = "return" /\ args' = args
        /\ \/ disk' = [disk EXCEPT ![Out(args)] = "linked", ![Tmp(args)] = "absent"]
           \/ disk' = [disk EXCEPT ![Tmp(args)] = "absent"]
           \/ disk' = [disk EXCEPT ![Out(args)] = "absent", ![Tmp(args)] = "absent"]
    BY <1>16 DEF Link
  <2>2. Mode(args) = "aot" /\ (Out(args) = "source" <=> OwnName(args))
    BY <2>1, <1>a, <1>b DEF PathInv
  <2>3. OwnName(args) => disk'["source"] # "source"
    BY <1>a, <2>1 DEF SourceInv
  <2>4. ~OwnName(args) => disk'["source"] = disk["source"]
    BY <1>a, <1>b, <2>1, <2>2
  <2> QED BY <2>1, <2>3, <2>4 DEF SourceInv
<1>17. CASE OutOfMemory
  BY <1>17, <1>c DEF OutOfMemory, Aborted
<1>18. CASE FindGrub
  BY <1>18, <1>c DEF FindGrub
<1>19. CASE BuildKernel
  <2>1. /\ disk'["source"] = disk["source"] /\ args' = args
        /\ pc = "kernel" /\ pc' \in {"mkdir", "exit", "return"}
        /\ pc' \in {"exit", "return"} => status' # 0
    BY <1>19, <1>0, <1>a DEF WritesOf, BuildKernel, Aborted
  <2> QED BY <2>1 DEF SourceInv
<1>20. CASE MakeTree \/ FillTree
  <2>1. /\ disk'["source"] = disk["source"] /\ args' = args
        /\ pc' \in {"tree", "rescue", "return"}
        /\ pc' = "return" => status' # 0
    BY <1>20, <1>a DEF MakeTree, FillTree, IsoReturn
  <2> QED BY <2>1 DEF SourceInv
<1>22. CASE MakeRescue
  <2>1. Mode(args) = "aot" /\ ~OwnName(args) /\ args' = args /\ pc' = "return"
    BY <1>22, <1>a, <1>b DEF MakeRescue, PathInv, Iso
  <2>2. Out(args) = "output"
    BY <1>22, <1>b, <2>1 DEF MakeRescue
  <2>3. disk'["source"] = disk["source"]
    BY <1>22, <1>a, <2>2 DEF MakeRescue
  <2> QED BY <2>1, <2>3 DEF SourceInv
<1>23. CASE UNCHANGED vars
  BY <1>23, SameArgs DEF vars, SourceInv
<1> QED BY <1>1, <1>2, <1>3, <1>4, <1>5, <1>6, <1>7, <1>8, <1>9, <1>10, <1>11, <1>15, <1>16, <1>17, <1>18, <1>19, <1>20, <1>22, <1>23 DEF Next

(* run_aot: no invocation touches its source, but one that names it like   *)
(* its output, and that one always loses it.                               *)
THEOREM SourceIsKept == SourcesAreNotProducts /\ Spec => []SourceFileKept
<1> SUFFICES ASSUME SourcesAreNotProducts PROVE Spec => []SourceFileKept
  OBVIOUS
<1>1. Init => SourceInv
  BY DEF Init, SourceInv, Files
<1>2. DriverInv /\ SourceInv /\ [Next]_vars => SourceInv'
  BY NextSource
<1>3. SourceInv => SourceFileKept
  BY DEF SourceInv, SourceFileKept, Exited
<1> QED BY <1>1, <1>2, <1>3, DriverInvariant, PTL DEF Spec
=============================================================================
