------------------------------ MODULE Writers ------------------------------
(***************************************************************************)
(* The writers of output files, on what was compiled: aot_write_elf64 of   *)
(* src/output/obj/aot.c, elf_exec_compile and elf_exec_write of            *)
(* src/output/elf/exec.c, build_kernel_elf of src/output/iso/iso.c and     *)
(* pe_compile_module and pe_write of src/output/windows/pe.c.              *)
(*                                                                         *)
(* A file is a set of pieces at offsets.  A layout is what the writer      *)
(* computes before it opens the file: what the headers promise, and the    *)
(* operations that then write the file one after the other.                *)
(***************************************************************************)
EXTENDS Aot

CONSTANTS
    ExportCap,   \* entries of export_names and of exports: 256
    SymBuf,      \* bytes of dynsym_buf: 4096
    SymStrBuf,   \* bytes of symstrtab: 4096
    PeTextCap,   \* text_cap of a PE_Context: 1 MB
    PeLengths    \* bound: bytes of a function compiled for Windows

ASSUME WritersAssumption ==
    /\ {ExportCap, SymBuf, SymStrBuf} \subseteq Nat
    /\ PeTextCap \in Nat \ {0} /\ PeLengths \subseteq Nat

VARIABLES
    backend,   \* "aot", "exe" or "dll"
    text_cap,  \* PE: text_cap
    pe_funcs,  \* PE: the functions appended to the text
    exports,   \* the exports, of the PE context or the ELF writer
    fmt,       \* the format written, or "none"
    layout,    \* what its headers say, see below
    file       \* pieces and size of the output file

outVars == <<fmt, layout, file>>
writerVars == <<aotVars, backend, text_cap, pe_funcs, exports, outVars>>

PAGE == 4096
IsPE(f) == f \in {"exe", "dll"}

-----------------------------------------------------------------------------
(* Writing.  An operation writes a buffer, a number of zeroes, zeroes up   *)
(* to an offset or zeroes up to a multiple.                                *)

Buf(what, n) == [op |-> "buf", what |-> what, n |-> n]
Pad(n) == [op |-> "pad", what |-> "zero", n |-> n]
PadTo(n) == [op |-> "padto", what |-> "zero", n |-> n]
Align(n) == [op |-> "align", what |-> "zero", n |-> n]

Write(f, o) ==
    CASE o.op = "buf"   -> [pieces |-> f.pieces \cup {[what |-> o.what, at |-> f.size, size |-> o.n]},
                            size |-> f.size + o.n]
      [] o.op = "pad"   -> [f EXCEPT !.size = @ + o.n]
      [] o.op = "padto" -> [f EXCEPT !.size = Longer(@, o.n)]
      [] o.op = "align" -> [f EXCEPT !.size = AlignUp(@, o.n)]

NoFile == [pieces |-> {}, size |-> 0]

Written(ops) ==
    LET after[i \in 0 .. Len(ops)] == IF i = 0 THEN NoFile ELSE Write(after[i - 1], ops[i])
    IN  after[Len(ops)]

(* What headers say: a piece of the file, a range of the file loaded at an *)
(* address, and an address with what it is the address of.                 *)
Piece(what, at, n) == [what |-> what, at |-> at, size |-> n]
Load(at, mem, n) == [at |-> at, mem |-> mem, size |-> n]
Address(kind, addr, what, off) == [kind |-> kind, addr |-> addr, what |-> what, off |-> off]

-----------------------------------------------------------------------------
(* aot_write_elf64 *)

ShstrLen == 56   \* the section names

RelaSizeRel == 16 * Len(relocs)  \* mutant: entries without an addend
RelaSize == 24 * Len(relocs)

LayoutObj ==
    LET data == AlignUp(64 + text_len, 8)
        strtab == data + 24 * (Len(syms) + 1)
        rela == AlignUp(strtab + symstr.len, 8)
        shstr == rela + RelaSize
        shdrs == AlignUp(shstr + ShstrLen, 8)
    IN  [ops |-> <<Buf("magic", 4), Buf("ehdr", 60), Buf("text", text_len),
                   Pad(data - (64 + text_len)), Buf("symtab", strtab - data), Buf("strtab", symstr.len),
                   Pad(rela - (strtab + symstr.len)), Buf("rela", RelaSize),
                   Buf("shstrtab", ShstrLen), Pad(shdrs - (shstr + ShstrLen)), Buf("shdrs", 8 * 64)>>,
         pieces |-> {Piece("magic", 0, 4), Piece("text", 64, text_len),
                     Piece("symtab", data, strtab - data), Piece("strtab", strtab, symstr.len),
                     Piece("rela", rela, RelaSize), Piece("shstrtab", shstr, ShstrLen),
                     Piece("shdrs", shdrs, 8 * 64)},
         loads |-> {}, image |-> 0, addresses |-> {}]

-----------------------------------------------------------------------------
(* elf_exec_write, for the modes "dyn", "so" and "static".                 *)

IsExec(f) == f \in {"dyn", "so", "static"}
Base(mode) == IF mode = "static" THEN 4194304 ELSE 0
VaText(mode) == Base(mode) + 2 * PAGE

Fewer(a, b) == IF a < b THEN a ELSE b

(* Mutant: the address is the start of the text. *)
ExecExportsAtText(mode) ==
    [i \in 1 .. Fewer(Len(funcs), ExportCap) |-> [name |-> funcs[i].name, addr |-> VaText(mode)]]

(* elf_exec_add_export drops what does not fit; the writer gives each its  *)
(* address.                                                                *)
ExecExports(mode) ==
    [i \in 1 .. Fewer(Len(funcs), ExportCap) |->
        [name |-> funcs[i].name, addr |-> VaText(mode) + funcs[i].offset]]

(* The symbols and their names go into buffers on the stack whose sizes    *)
(* nothing is compared with.                                               *)
SymBytes == 24 * (Fewer(Len(funcs), ExportCap) + 1)
SymStrBytes ==
    LET len[i \in 0 .. Fewer(Len(funcs), ExportCap)] ==
            IF i = 0 THEN 1 ELSE len[i - 1] + NameLen[funcs[i].name] + 1
    IN  len[Fewer(Len(funcs), ExportCap)]
ExecFits == SymBytes <= SymBuf /\ SymStrBytes <= SymStrBuf

(* The escape in the string literal "\x7fELF" takes the E for a digit: the *)
(* four bytes written are not the magic number.                            *)
ExecMagic == "FE 'L' 'F' 00"

ExecEntryInFile(mode) == Base(mode) + PAGE  \* mutant: the file offset
ExecEntry(mode) == VaText(mode)

TextOffsetClose(headers) == AlignUp(headers, 16)  \* mutant
TextOffset(headers) == AlignUp(headers, PAGE)

DynOffsetNoGot(text, ntext) == text + ntext  \* mutant: no page after the text
DynOffset(text, ntext) == text + ntext + PAGE

LayoutExec(mode) ==
    LET dynamic == mode # "static"
        phdrs == 56 * (IF dynamic THEN 5 ELSE 2)
        interp == IF dynamic THEN 28 ELSE 0
        text == TextOffset(64 + phdrs + interp)
        ntext == AlignUp(text_len, PAGE)
        ndyn == IF dynamic THEN 16 * 6 ELSE 0
        nstr == IF dynamic THEN 11 ELSE 1
        dyn == DynOffset(text, ntext)
        shstr == dyn + AlignUp(ndyn, 8) + AlignUp(nstr, 8) + AlignUp(SymBytes, 8)
        shdrs == AlignUp(shstr + 17, 8)
        va_dyn == VaText(mode) + ntext + PAGE
    IN  [ops |-> <<Buf(ExecMagic, 4), Buf("ehdr", 60), Buf("phdrs", phdrs), PadTo(64 + phdrs),
                   Buf("interp", interp), PadTo(text), Buf("text", text_len), Align(PAGE), Pad(PAGE)>>
                 \o (IF dynamic THEN <<Buf("dynamic", ndyn), Align(8), Buf("dynstr", nstr), Align(8),
                                       Buf("dynsym", SymBytes), Align(8)>> ELSE << >>)
                 \o <<Buf("shstrtab", 17), Align(8), PadTo(shdrs), Buf("shdrs", 3 * 80)>>,
         pieces |-> {Piece("magic", 0, 4), Piece("phdrs", 64, phdrs), Piece("text", text, text_len),
                     Piece("shstrtab", shstr, 17), Piece("shdrs", shdrs, 3 * 64)}
                    \cup (IF dynamic THEN {Piece("interp", 64 + phdrs, interp),
                                           Piece("dynamic", dyn, ndyn)} ELSE {}),
         loads |-> {Load(0, Base(mode), text), Load(text, VaText(mode), ntext)},
         image |-> VaText(mode) + ntext,
         addresses |-> {Address("entry", ExecEntry(mode), "text", 0)}
             \cup (IF dynamic THEN {Address("dynamic", va_dyn, "dynamic", 0),
                                    Address("dynamic", va_dyn + PAGE, "dynstr", 0)} ELSE {})]

-----------------------------------------------------------------------------
(* build_kernel_elf: the ELF and program headers, the multiboot header and *)
(* the text in one buffer, loaded whole; the entry is what follows the ELF *)
(* headers.                                                                *)

KernelBase == 1048576

LayoutKernel ==
    LET total == 64 + 56 + 24 + text_len
    IN  [ops |-> <<Buf("magic", 4), Buf("ehdr", 60), Buf("phdrs", 56), Buf("mb2", 24),
                   Buf("text", text_len)>>,
         pieces |-> {Piece("magic", 0, 4), Piece("phdrs", 64, 56)},
         loads |-> {Load(0, KernelBase, total)}, image |-> KernelBase + total,
         addresses |-> {Address("entry", KernelBase + 64 + 56, "text", 0)}]

-----------------------------------------------------------------------------
(* pe_write *)

FA == 512
SA == 4096

(* The imports the driver declares for each format, 8 bytes each and 8     *)
(* for the end.                                                            *)
ImportBytes(f) == 8 * (IF f = "exe" THEN 8 ELSE 3) + 8

LayoutPE(f) ==
    LET headers == 64 + 60 + 4 + 20 + 240
        text == AlignUp(headers + 6 * 40, FA)
        rdata == text + AlignUp(text_len, FA)
        nrdata == AlignUp(ImportBytes(f) + 4096, FA)
        va_rdata == SA + AlignUp(text_len, SA)
        va_data == va_rdata + AlignUp(ImportBytes(f) + 4096, SA)
    IN  [ops |-> <<Buf("magic", 4), Buf("dos", 60), Buf("stub", 60), Buf("sig", 4), Buf("coff", 20),
                   Buf("optional", 240), Buf("sections", 3 * 40), Align(FA), Buf("text", text_len),
                   Align(FA), Buf("rdata", ImportBytes(f)), Align(FA), Buf("data", FA)>>,
         pieces |-> {Piece("magic", 0, 4), Piece("sig", 64 + 60, 4), Piece("sections", headers, 3 * 40),
                     Piece("text", text, text_len), Piece("rdata", rdata, ImportBytes(f)),
                     Piece("data", rdata + nrdata, FA)},
         loads |-> {Load(text, SA, AlignUp(text_len, FA)), Load(rdata, va_rdata, nrdata),
                    Load(rdata + nrdata, va_data, FA)},
         image |-> va_data + SA,
         addresses |-> {Address("entry", SA, "text", 0), Address("iat", va_rdata, "rdata", 0)}]

Layout(f) ==
    IF f = "obj" THEN LayoutObj
    ELSE IF f = "kernel" THEN LayoutKernel
    ELSE IF IsPE(f) THEN LayoutPE(f) ELSE LayoutExec(f)

-----------------------------------------------------------------------------
(* pe_compile_module *)

(* pe_emit_code doubles the capacity once. *)
PeRoom(n) == text_len + n <= 2 * text_cap \/ text_len + n <= text_cap

(* A function goes to the end of the text, unaligned; a DLL exports it if  *)
(* the table has room.                                                     *)
PeFunction(name, n) ==
    /\ IsPE(backend) /\ stage = "idle"
    /\ name \notin {pe_funcs[i].name : i \in DOMAIN pe_funcs}
    /\ PeRoom(n)
    /\ text_len' = text_len + n
    /\ text_cap' = IF text_len + n > text_cap THEN 2 * text_cap ELSE text_cap
    /\ pe_funcs' = Append(pe_funcs, [name |-> name, offset |-> text_len])
    /\ exports' = IF backend = "dll" /\ Len(exports) < ExportCap
                  THEN Append(exports, [name |-> name, addr |-> SA + text_len]) ELSE exports
    /\ UNCHANGED <<stage, cur, items, aotTables, arrived, calls, backend, outVars>>

PeOverruns(n) ==
    /\ IsPE(backend) /\ stage = "idle" /\ ~PeRoom(n)
    /\ Stop("overrun") /\ UNCHANGED <<backend, text_cap, pe_funcs, exports, outVars>>

PeEnd ==
    /\ IsPE(backend) /\ stage = "idle"
    /\ Stop("done") /\ UNCHANGED <<backend, text_cap, pe_funcs, exports, outVars>>

-----------------------------------------------------------------------------
Compile ==
    /\ backend = "aot" /\ AotNext
    /\ UNCHANGED <<backend, text_cap, pe_funcs, exports, outVars>>

Target(f) == f = backend \/ (backend = "aot" /\ ~IsPE(f))

WriteFile(f) ==
    /\ stage = "done" /\ Target(f)
    /\ IsExec(f) => ExecFits
    /\ stage' = "written" /\ fmt' = f
    /\ layout' = Layout(f)
    /\ file' = Written(layout'.ops)
    /\ exports' = IF IsExec(f) THEN ExecExports(f) ELSE exports
    /\ UNCHANGED <<cur, items, text_len, aotTables, arrived, calls, backend, text_cap, pe_funcs>>

(* The writer of executables runs over its buffers before it opens a file. *)
WriteOverruns(f) ==
    /\ stage = "done" /\ Target(f) /\ IsExec(f) /\ ~ExecFits
    /\ Stop("overrun") /\ fmt' = f
    /\ UNCHANGED <<backend, text_cap, pe_funcs, exports, layout, file>>

Formats == {"obj", "dyn", "so", "static", "kernel", "exe", "dll"}

WritersInit ==
    /\ AotInit
    /\ backend \in {"aot", "exe", "dll"} /\ text_cap = PeTextCap
    /\ pe_funcs = << >> /\ exports = << >> /\ fmt = "none" /\ layout = NoFile /\ file = NoFile

WritersNext ==
    \/ Compile
    \/ \E name \in FuncNames, n \in PeLengths : PeFunction(name, n)
    \/ \E n \in PeLengths : PeOverruns(n)
    \/ PeEnd
    \/ \E f \in Formats : WriteFile(f) \/ WriteOverruns(f)

WritersSpec == WritersInit /\ [][WritersNext]_writerVars

-----------------------------------------------------------------------------
At(what) == (CHOOSE p \in file.pieces : p.what = what).at

(* The offset in the file of what is loaded at an address, or -1. *)
FileAt(addr) ==
    IF \E l \in layout.loads : l.mem <= addr /\ addr < l.mem + l.size
    THEN LET l == CHOOSE l \in layout.loads : l.mem <= addr /\ addr < l.mem + l.size
         IN  l.at + (addr - l.mem)
    ELSE -1

(* What the headers say of the file and is not so: the magic number of     *)
(* elf_exec_write and its section headers, of 80 bytes and not 64; the     *)
(* section names of a static executable, placed behind tables only a       *)
(* dynamic one has; the sections of a PE file, placed behind six section   *)
(* headers of which three are written.                                     *)
Misplaced(f, what) ==
    \/ IsExec(f) /\ what \in {"magic", "shdrs"}
    \/ f = "static" /\ what = "shstrtab"
    \/ IsPE(f) /\ what \in {"text", "rdata", "data"}

(* Everything a header gives a place and a size is written there, whatever *)
(* was compiled, and nothing that Misplaced lists is.                      *)
HeadersDescribeFile ==
    stage = "written" =>
        \A p \in layout.pieces : p \in file.pieces <=> ~Misplaced(fmt, p.what)

(* What is loaded is page-aligned as in the file, the ranges share no page *)
(* and lie within the image, the text is loaded whole, and except in a PE  *)
(* file, whose last sections are placed behind its end, the ranges lie in  *)
(* the file.                                                               *)
SegmentsLoadable ==
    stage = "written" =>
        /\ \A l \in layout.loads :
              /\ IF IsPE(fmt) THEN l.at % FA = 0 /\ l.mem % SA = 0 ELSE l.at % PAGE = l.mem % PAGE
              /\ l.mem + l.size <= layout.image
        /\ \A k, l \in layout.loads :
              k.mem < l.mem => (k.mem + k.size - 1) \div PAGE < l.mem \div PAGE
        /\ fmt # "obj" => \E l \in layout.loads : l.size >= text_len
        /\ (\A l \in layout.loads : l.at + l.size <= file.size) <=> ~IsPE(fmt)

(* The addresses that lead elsewhere: the entry of a kernel is its         *)
(* multiboot header; the dynamic section and its strings are in no load of *)
(* an executable; those of a PE file suffer from its misplaced sections.   *)
Astray(f, kind) ==
    \/ f \in {"dyn", "so"} /\ kind = "dynamic"
    \/ f = "kernel" /\ kind = "entry"
    \/ IsPE(f) /\ kind \in {"entry", "iat"}

(* With at least one function, the entry is the first byte of the first    *)
(* one and every other address leads, through the ranges loaded, to what   *)
(* it is the address of, except those that Astray lists.                   *)
AddressesReachContents ==
    stage = "written" /\ text_len > 0 =>
        \A a \in layout.addresses :
            FileAt(a.addr) = At(a.what) + a.off <=> ~Astray(fmt, a.kind)

(* The file exports each function, up to ExportCap of them, under its name *)
(* and at the address at which its first byte is loaded.                   *)
Functions == IF IsPE(fmt) THEN pe_funcs ELSE funcs
VaOfText == IF IsPE(fmt) THEN SA ELSE VaText(fmt)
ExportsAreTheFunctions ==
    stage = "written" /\ (IsExec(fmt) \/ fmt = "dll") =>
        \A i \in DOMAIN Functions :
            [name |-> Functions[i].name, addr |-> VaOfText + Functions[i].offset]
                \in {exports[j] : j \in DOMAIN exports}
            <=> i <= ExportCap

(* An object file can be linked: each call of the module has in the file a *)
(* relocation for its operand, naming a symbol inside the symbol table     *)
(* whose name lies inside the string table.  In every other file the       *)
(* relocations are lost and no call leads anywhere.                        *)
Linkable(c) ==
    \E i \in DOMAIN relocs :
        /\ relocs[i].offset = c.at
        /\ \E rela \in file.pieces : rela.what = "rela" /\ 24 * i <= rela.size
        /\ \E symtab \in file.pieces : symtab.what = "symtab" /\ 24 * (relocs[i].sym + 1) <= symtab.size
        /\ \E strtab \in file.pieces :
              strtab.what = "strtab" /\ syms[relocs[i].sym].name + NameLen[c.callee] + 1 <= strtab.size
CallsCanBeLinked ==
    stage = "written" => \A k \in DOMAIN calls : Linkable(calls[k]) <=> fmt = "obj"
=============================================================================
