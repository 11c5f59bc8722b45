# PSPSDK tools: a TLA+ development

TLA+ models of the PSPSDK tools (`src/`), the TLC runs that check them on small
instances and the theorems TLAPS proves about them for instances of every size.
The tools are small sequential command-line programs written in C: nothing runs
concurrently and there are no messages. What is hard in them is of another kind:
passes over the same data that must agree without anything comparing them, caches
whose origin must tell the truth, tools that write over their own input and are
run again, boundaries of windows and sections, data that comes in pieces, and a
writer and a reader of one format kept in step by separate code.

1. [Inventory](#1-inventory)
2. [Plan](#2-plan)
3. [Modules](#3-modules)
4. [Runs and bounds](#4-runs-and-bounds)
5. [Fairness](#5-fairness)
6. [Proofs](#6-proofs)
7. [Disagreements found](#7-disagreements-found)
8. [Not modelled](#8-not-modelled)

Line numbers are those of the files under `src/`; `PROJECT.json` maps every
definition to its lines and lists the hazards, each at its line.

## 1. Inventory

The tools are steps of a build. `psp-build-exports` makes the export tables and
the stub sources of a module from an `.exp` file. After the link,
`psp-fixup-imports` completes the import records of the ELF, in place;
`psp-prxgen` strips the ELF to a PRX; `pack-pbp` packs PRX, icons and PARAM.SFO
in an EBOOT.PBP. `psp-sign-np` turns an ISO image into a signed NP PBP and signs
an EBOOT. They communicate through files only; inside one of them the functions
of a file share its globals.

| Component | State | Operations | Hard behaviour | Correct when |
|---|---|---|---|---|
| PRX generators (`prxgen/psp-prxgen.c`, `kprxgen/psp-kprxgen.c`) | section table with sizes, targets, output flags and new indices; totals and base offsets; the output buffer | load and link sections, remove weak relocations, renumber, size, five output passes | each pass walks the sections with conditions of its own; sizes shrink in between | every pass counts what the sizing pass counted, no write leaves its region, the result reads back as the stripped ELF |
| Import fixup (`fixup-imports/psp-fixup-imports.c`) | maps read from the map file; stub table, NIDs and import records of the ELF; the file on disk | read map file, complete the records, rename NIDs, collect variables, write over the input | order of stubs seen only through the last one; run on its own output; window of records by size of a struct | a record describes exactly its stubs, NIDs are renamed by the map of their library, running twice is running once |
| ISO reader (`sign_np-hykem/isoreader.c`) | file, index window with its origin, decompression buffer with its origin, sector buffer | open, find a path, read, close | two caches with origins, reused over sectors and images | a read returns the bytes of the disc |
| Export builder (`build-exports/psp-build-exports.c`) | list of libraries, the open library, the error text | one handler per `PSP_` line; four outputs | lines in any order; limits on functions and variables; counts kept beside lists | counts, tables, stubs and CMake lists agree |
| PBP packer (`pack-pbp/pack-pbp.c`) | section table, header, output file | parse arguments, sizes to header, copy sections, remove on error | sizes taken in one pass and used in another | offsets of the header are where the sections are; no broken output survives an error |
| NP signer (`sign_np-hykem/sign_np.c`) | NPUMDIMG header and block table, PBP offsets, PGD buffer | optional files, PBP layout, block loop (LZRC or plain), table encryption, header signature | the seed of a block is the offset of blocks of unequal size before it; header and table are written last, back at their place; failures the program goes on from | a reader that has only the file finds every section and block, every MAC in it is right, no keystream serves twice |
| BBMac, BBCipher (`libkirk/amctrl.c`) | MAC and cipher keys with a 16-byte pad and a seed | init, update, final, check, key search | data comes in pieces of any length through a buffer both share; a chunk starts from the counter before it | MAC and keystream do not depend on the pieces; a check accepts the right MAC only |
| PGD (`sign_np-hykem/pgd.c`) | one buffer | encrypt, decrypt | three MACs, each over what comes before it, in a layout computed from sizes | decrypt, with the key or without, gives the file back |
| EBOOT signer (`sign_np-hykem/eboot.c`) | one buffer and a `~PSP` header | build header, encrypt, sign | segments copied from program headers | header fields are those of the ELF |
| LZRC (`sign_np-hykem/tlzrc.c`) | range coder with its probabilities, window of positions in one list for each pair of bytes | compress, decompress | a position leaves its list for two reasons; the two sides choose the probability of each bit by code of their own | the lists are the window, the best match is found, decompress undoes compress |
| KIRK (`libkirk/kirk_engine.c`) | fuse id, keys, a random state | command dispatch | checks of sizes and modes before the work | each command rejects what its header forbids |
| Path and file helpers (`sign_np-hykem/utils.c`, `libs/common/common/util.c`) | none | string and number helpers | buffers of fixed size | |
| Primitives (AES, SHA-1, ECDSA, bignum) | round state | | | test vectors |
| `bin2s`/`bin2c` (`bin-utils/bin2cs.c`) | none | copy a file to text | | |
| Option parser, CMake, `b.sh` | | | vendored or build code | |

The hazards that follow from the fourth column are listed one by one in
`PROJECT.json`, with the properties that would notice each.

## 2. Plan

Order of work, the most important behaviour first. Each module takes its bounds as
constants with a named assumption, has one action per operation or loop body and
no recursive operator, so that it can be proved about as well as checked.

1. `PrxElf`, `PrxContract`, `PrxGen`, `PrxRefinement`: both PRX generators against
   the abstract specification "strip this ELF". *Done, with proofs.*
2. `IsoImage`, `IsoContract`, `IsoReader`: the reading of ISO and CISO images
   against "a read returns the bytes of the disc". *Done, with proofs, the
   refinement among them.* `IsoDir`, the walk of the directories over those sectors:
   *done, with proofs.*
3. `FixupImports`: map file, stubs, NIDs and the file on disk over several runs.
   *Done without imported variables, with proofs.*
4. `ExpFile`, `ExportsContract`, `BuildExports`, `ExportsRefinement`: the line processor
   and its four outputs against the blocks of the `.exp` file. *Done, with proofs, the
   refinement among them.*
5. `PackPbp`: the two passes over the section files, with the files changing and
   calls failing between them; the output is whole or absent. *Done, with proofs.*
6. `Kirk`, `Amctrl`: MAC and stream cipher over a block cipher taken as an arbitrary
   permutation, against the MAC of the whole message and the keystream of a
   position. *Done, with proofs.*
7. `NpCells`, `Pgd`, `NpPbp`, `NpReader`: `psp-sign-np -pbp` from its arguments to the
   file, against a reader of that file; composed with `IsoDir` and `Pgd`, on what
   `Amctrl` shows of MACs and keystreams. *Done, with proofs of all its properties.*
8. `Lzrc`: the compressor's lists, window and search, and the decompressor in step with
   it; composed with 7 in one run. *Done, with proofs of its safety properties.*

Left out for the reasons of section 8: `fixup_variables` and the EBOOT signer.

Theorem planned next: the step simulation of `PrxContract` by `PrxGen`.

## 3. Modules

### PRX generators

* `PrxElf`: constants and the shape of an input ELF: section types, sizes of ELF
  structures (`elftypes.h`), relocations with the index of their symbol and their
  kind, symbols reduced to "defined or not". `WellFormed` is what a linker
  produces and the tools rely on without a check: `sh_info` of a relocation
  section is a section, section 0 is the null section. The field `tool` says which
  of the two programs reads it.
* `PrxGen`: the program. `pc` names the loop being executed and `i` is its counter;
  one step is one iteration. In the order of the code: `ValidateHeader`,
  `LoadHeader` and `LinkSection` (`load_sections`; one loop in psp-kprxgen, two in
  psp-prxgen), `CheckLoaded`, `SkipSection`/`FilterReloc`/`ReplaceRelocs`
  (`remove_weak_relocs`), `Reindex`, `SizeSection`/`FinishSizing`
  (`calculate_outsize`), `OutputHeaders`, `OutputAlloc`, `StartHeaders`/
  `OutputShdr`/`OutputShstrShdr`, `OutputRelocs`, `StartStrings`/`OutputString`/
  `OutputShstrtabName`, `WriteFile`. The variables have the names of the globals
  and cursors (`iSize`, `blOutput`, `iIndex`, `shdr`, `reloc_ofs`, `pReloc`, ...).
  The output buffer is kept by part; a byte of the image is the section it comes
  from and its offset there. Two history variables, `rank` and `before`, remember
  what the numbering pass and the sizing pass had counted when they reached a
  section: the invariants compare the later cursors with them.
* `PrxContract`: one step, from an ELF to "rejected" or to the stripped PRX as a
  sequence of logical sections, without offsets, indices or cursors.
* `PrxRefinement`: reads the output buffer the way a loader does (header, then
  section headers, names, targets and bytes) and states that `PrxGen` implements
  `PrxContract` under that reading.
* `PrxGenProofs`: the theorems. `MCPrxGen`: the inputs.

### ISO and CISO reader

* `IsoImage`: an image: where each sector is in the file, whether it is stored raw,
  the length of its stream. `Roomy` says that every compressed sector is far enough
  from the start of the file that the origin -1 of a buffer never filled does not pass
  for a real one.
* `IsoReader`: `IsoOpen`, `IsoRead`, `IsoClose` are the calls; `ReadPlain`,
  `SectorEntry`, `NextEntry`, `FillBuffer`, `Inflate` are the steps of `readSector`,
  `CheckVolume`, `NextSector`, `CopySector`, `ReadDone` those of its callers. Bytes
  are their positions in the file, so that a wrong window shows as a wrong byte.
  `inflate` succeeds exactly when the bytes it is given are those of a stream.
* `IsoDir`: `findFile`, `findPath`, `isoGetFileInfo` as functions of a directory: records by
  position, each inside a sector, the next one behind it or at the start of the next
  sector. `Lookup` is the reference, the first record of that name. It is called by
  `NpPbp` and checked there.
* `IsoContract`: opens and reads without caches: a call is asked and answered, and a read
  is answered with the bytes of the plain image. `IsoRefinement`: the mapping from the
  reader to it, and `ContractInvariant`, which says among others that what a read has
  copied so far is the beginning of what was asked for. `IsoReaderProofs`: the theorems. `MCIsoReader`: images
  and requests.

### Import fixup

* `FixupImports`: the arguments (`StartRun`), the map file a line per step
  (`MapLibrary`, `MapNoName`, `MapComment`, `MapEntry`), `LoadElf`,
  `fixup_functions` a stub per step (`FixStub`, `SkipJump`, `RejectStub`,
  `StubsDone`), `fixup_nidmap` (`OpenRecord`, `MapNid`, `CloseRecord`,
  `RecordsDone`) and the end of `main` (`WriteOver`, `KeepInput`). The variable
  `file` is the file on disk; a second run starts from what the first left. The
  record after the last one stands for the bytes after `.lib.stub`, and records have
  positions in words, because the code accepts the first and mistakes the second.
  An address in the middle of a record is not modelled: linkers do not make one.
* `FixupImportsProofs`: the theorems. `MCFixupImports`: the inputs.

### Export builder

* `ExpFile`: the lines of an `.exp` file by what `process_command` does with them.
  A line that `parse_string` refuses is `bad`; comments, `PSP_BEGIN_EXPORTS` and
  `PSP_END_EXPORTS` are `other`.
* `BuildExports`: `load_exports` a line per step, one action per handler
  (`ExportStart`, `ExportEnd`, `ExportFunc`, `ExportVar`, `ExportAlias`) and one
  for each way a line is refused; then the loops over the list of libraries:
  `PrintTable`/`TablesDone`/`PrintEntry` (`build_exports`), `WriteStubs`
  (`build_stubs`), `PrintName`/`PrintCount` (`print_stubs_cmake`). The counts kept
  in a library and those printed are variables beside the lists they count.
  `refused` are the stub files that cannot be opened.
* `ExportsContract`: one step, from the lines to "rejected" or to what the output
  says, taken from the blocks of the file without an open library or counts.
* `ExportsRefinement`: the reading of the outputs (an array of NIDs and addresses as the
  module manager pairs them, a list as CMake splits it) under which `BuildExports`
  implements the contract, and `ExportsInvariant`, which the proof of it needs.
* `BuildExportsProofs`: the theorems. `MCBuildExports`: the inputs. `MCBuildTools`: the run, with
  `pack-pbp` after it.

### PBP packer

* `PackPbp`: `main` before the output is touched (`NothingToDo`), the opening of the
  output, `StatFile` for each section, `WriteHeader`, then `SkipInput`, `OpenInput`,
  `CopyChunk` and `CloseInput`, the two outcomes of the last `fclose`, and `Remove`.
  `CallFails` is every `ENDERR`: any call may fail, and `fread` of a file that is too
  short must. The environment is part of the module: between any two steps another
  program may delete, replace or rewrite one of the inputs (`OthersWrite`); a file
  that is replaced is still read through the handle opened before, one that is
  written anew is read as it is now. A byte of the output is known by file, version and position.
  The history variable `fits` says that no size or offset has been cut so far.
* `PackPbpProofs`: the theorems. `MCPackPbp`: disks and arguments.

### MAC and stream cipher

* `Kirk`: the engine as `amctrl.c` sees it: which commands there are and commands 4 and 7 on
  a block, a permutation for each key. A block is the exclusive or of a set of atoms,
  so that `Xor` has its laws and two blocks are equal only if they were made alike.
* `Amctrl`: the calls `BBMacInit`, `UpdatePad`/`UpdateBlocks` with the loop `UpdateChunk`,
  `BBMacFinal`, `BBMacFinal2`, `BBMacGetkey`, and `BBCipherInit`, `BBCipherUpdate` with
  `CipherChunk`, `BBCipherFinal`; any order, any lengths. A byte of the message is its
  position, so a byte that is lost, doubled or displaced on its way through pad and buffer
  shows. `kbuf` is the static `kirk_buf` both use; `given`, `swallowed`, `made`, `checked`,
  `stream`, `start` and `even` are history.
* `AmctrlProofs`: the theorems. `MCAmctrl`: keys and the constraint that one of the two
  is used at a time.

### NP image

* `NpCells`: cells, MACs and keystreams of the files. A MAC is an atom named by type, key and
  message and a keystream cell by keys and counter, which is what `Amctrl` shows of them.
* `Pgd`: `encrypt_pgd` and `decrypt_pgd`, part by part of the header.
* `NpPbp`: `main` in mode `-pbp` in its order: `OpenFiles`, `LookAtExtra` for each optional
  file, `MakePgd`, `MakeStartdat`, `LoadFile` for each file of the ISO, `WritePbp`,
  `WriteEmptyTable`, `WriteBlock`, `WriteBack`; and the ways each fails. Where the program
  goes on after a failure (`SigningFails`, `WriteUnreadBlock`, ...) the model goes on too,
  and `spoilt` remembers it; where it exits or reads through a null pointer it stops in
  `exited` or `crashed`. `PgdBufSize` and `PgdCopied` are the buffer of the PGD and what is
  copied to it; when the copy is longer (`Overruns`) the last MAC is kept or lost
  (`PgdsLeft`), or a later use of the heap ends the program (`HeapCrashes`).
* `NpReader`: what a reader of the file relies on, and the properties. It uses the cells of
  the output alone, starting from the offsets in the PBP's header.
* `NpPbpProofs`: the theorems. `MCNpPbp`: discs, files, and the composition with `Lzrc`.

### LZRC

* `Lzrc`: `InsertNode`, `Compare` for each node of the list, `Compared`; `MakeRoom` and `Slide`
  (`update_tree`); `CodeByte`, `CodeMatch`, `CodeEnd`; and the decompressor a step behind,
  `DecodeByte`, `DecodeMatch`, `DecodeEnd`. `coded` holds the bits of one item, each with
  the table entry its probability is taken from; the decompressor gets them only if it asks
  with the same ones (`InStep`). `re_find_match`, the plain search nobody calls, is the
  reference of `FoundIsBest`.
* `LzrcProofs`: the theorems.

## 4. Runs and bounds

| Run | Shows |
|---|---|
| `prxgen` | both generators, all invariants and the refinement, over ELFs of seven sections |
| `kprxgen_order` | violation: psp-kprxgen loses a relocation section that precedes its target |
| `isoreader` | caches, right sector and the refinement, over sequences of opens, reads and closes of any length |
| `fixup` | records, NIDs and idempotence over two runs of the tool |
| `fixup_mixed` | violation: a fixed-up table with a new stub in front |
| `fixup_words` | violation: records of five words |
| `fixup_end` | violation: the address where `.lib.stub` ends |
| `build` | `psp-build-exports`: counts, the refinement and that every file is decided, over short `.exp` files and every output mode; `pack-pbp`: the header describes the sections and the output is whole or absent, whatever fails and whatever changes |
| `pack_large` | violation: a file whose size is no `int` |
| `amctrl` | MACs and keystreams do not depend on the pieces and checks accept the right MAC, over any sequence of calls |
| `npimage` | a reader gets back all that `psp-sign-np -pbp` put into a file; the compressor's lists, search and bits, on its own blocks |
| `npimage_module` | violation: an optional module whose PGD is longer than its buffer |

`prxgen`. ELFs of seven sections: the null section, text, module info, a symbol
table, two relocation sections and bss. The four that refer to each other take every
order around module info (`Orders`), so every relation "before/after its target" and
every position of a dropped section occurs.
Relocation lists have up to three entries and include none, all weak, some weak,
an index beyond the symbol table; the second relocation section is one that is
dropped by name, one of another type or one with a non-allocated target. Sizes are
not multiples of four, so that rounding matters. Every rejected input of the code
is present. Passes interact through what is before or after a section; three
sections with a dropped one between them already meet every such case, and the
theorems of section 6 have no bound.

`isoreader`. Sizes are divided by 1024: a sector of 2, a buffer of 8, an index
window of 3 entries (128 in the code). Images have up to eight sectors, so the
window of the index moves at least three times and the buffer covers part of
the image; gaps longer and shorter than a sector, streams exactly as long as a
sector, raw sectors among compressed ones, and images at the start of which the
origin -1 passes for a real one. Sequences of calls are unbounded.

`fixup`. All tables of up to four stubs over two records (and of three over three),
each stub new or a jump; every kind of malformed file; two runs of the tool in
a row, so that the second sees what the first wrote or the original. Map files
of up to five lines of every kind with `MAX_MAPNIDS` 2, so that the limit is met.
A record needs two neighbours to be split, so four stubs are enough for an order
to go wrong in the middle, at either end and over a jump. `NidsRenamedByTheirLibrary` is
asked of the map files without lines old=new, which the code refuses although its comment
writes them (section 7); those with one are met too, by the other properties.

`build` is two tools, one after the other: they share no state, so what both can reach is what
each can, and `pack-pbp` is given all its inputs after one `.exp` file only (`MCBuildTools`).

`psp-build-exports` in it. Every file of up to three lines, every file of three lines after a start
line, and files of three libraries, with bodies of up to three lines among them one
over a limit; `MaxFuncs` is 2 and `MaxVars` 1, so that both are met and passed.
Names repeat, so that a library comes twice, is `syslib` first, in the middle and
last, and an alias comes before, after and twice for its function. A handler looks at
the open library and its counts only, so four lines reach every state it can
distinguish.

`pack-pbp` in it. Three sections (the code has eight and treats them alike, the first apart),
chunks of two bytes, a header of three, words of sixteen values. Sizes are 0,
below, at and above a chunk, and one that is no `int`; files are missing; the output
exists or not. The same file is given twice, an empty path is given, the output is
among the inputs. One change by another program happens at any moment
(`MaxChanges`): the two passes look at a file twice, so one change is what lies
between them; the theorems hold for any number.

`amctrl`. Blocks of two bytes (16 in the code), a buffer of two blocks (128), pieces of 0,
1, 2 and 5 bytes, messages of up to seven: a piece fits in the pad, fills it, passes it
by one, is more than the buffer, ends with the buffer. All three MAC types and both
cipher types, with and without a key, two seeds. MAC and cipher share only `kirk_buf`,
which each call fills before it reads it; the constraint `OneAtATime` therefore leaves
out states with both in use. `MaxLength` bounds the message of the model; the theorems
hold for any bound.

`npimage`. Words are those of the code: four to a unit of 16 bytes, eight to a table entry. A
block is two units, the page three, the encrypted part of the header one. The ISO is one
to three blocks, whole or with a rest, compressed or not, compressed blocks of a size
with and without padding and one that is not worth it: the offset of a block then
depends on those before it in every way. Directories take one to five sectors of 128
bytes, with records that end with a sector, before it, with long names, of the two
lengths records come in, a file in place of the folder. Up to two optional files of
every kind; modules of 5, 8 and 20 words, so that a PGD is not whole units, exactly one
block, and three blocks with a rest. Every failure at every place.
For `Lzrc`: all blocks of one, two, three and seven bytes over two letters, blocks of 12,
13 and 20 that repeat and blocks of 18 with marks; a window of five places, matches of
up to seven bytes (255), short ones up to three places away (255). So the window is
full and moves, positions leave lists at the window's end and as longest matches,
matches overlap themselves, and short ones are too far. A state of the composition has
one of the two at work: what they exchange is a size, for which `NpPbp` has
`LzSizes`.

`MaxRuns` (runs of the import fixup), `MaxLength` and `MaxChanges` are the only bounds on the length
of a behaviour.

## 5. Fairness

`PrxGen` and `BuildExports`: weak fairness of `Next`. `IsoReader`: weak fairness of
`Work`, the steps
inside a call; nothing obliges the caller to call. Both say only that a sequential
program that has been called runs until it returns: every loop reads local files
and has a counter. With it the refinement of `PrxContract` also shows that every ELF is
stripped or rejected. For the other two `ImplementsContract` is the safety part alone;
`FilesAreDecided` says that every `.exp` file is rejected or printed and `CallsReturn` that
every read returns.
`MCBuildTools`: that of `BuildExports`; nothing is assumed of `pack-pbp`.
`MCNpPbp`: weak fairness of the steps of `Lzrc`, a loop over a block in memory;
with it `CompressionEnds` says that no list the search follows is a ring.
`FixupImports`, `PackPbp`, `Amctrl` and `NpPbp` claim no liveness: their loops count up to a
number fixed before, and callers of `Amctrl` need not call.

## 6. Proofs

`PrxGenProofs` (any set of well-formed ELFs, any number of sections, both tools):

* `TypeCorrect`: the type invariant.
* `PassesAgreeAlways`: the inductive invariant `PassesAgree`. That a pass stays in
  its region is not inductive: it speaks of a cursor and of bases computed long
  before. `PassesAgree` says why: `rank` and `before` satisfy the recurrences of
  the numbering and the sizing pass (`Ranks`, `Sums`), the two counted the same
  sections (`RankIsCount`), and the cursor of an output pass at section `i` is
  `before[i]` again (`Cursors`). Each action disturbs one of them.
* `NoWriteOutsideRegion` and `HeadersWhereNumbered` follow from it without induction:
  `before` is monotone, so what a pass has still to write fits.

`IsoReaderProofs` (any images, requests and window sizes):

* `ReaderTypes`, and `ReaderInvariantHolds`: the inductive `ReaderInvariant`. The
  caches tell the truth about the open image, the sector being read is inside
  it, the locals are those of the sector, and when `inflate` is called the buffer
  holds the stream. `SectorsAreRight` is the conjunct that matters to a caller; it is
  about roomy images only, the next theorem about all.
* `ReaderImplementsContract`: every step of the reader is a step of `IsoContract` or a
  stutter. `ReaderInvariant` says which bytes `readSector` delivers; that a read made
  of them is the one that was asked for needs `ContractInvariant` too
  (`ContractInvariantHolds`): what has been copied is the plain image from the call's
  position on, the sector being read is the one where the rest begins, and a buffer
  without an origin is empty, so that of an image that ends early a byte is right or
  missing. All steps inside a call stutter but the one that answers it.

`FixupImportsProofs` (any object files, map files, number of runs and of stubs):

* `TypeCorrect`: the type invariant; among others a record found in the loop over
  the records is one of the section, and NIDs are walked inside the table.
* `RecordsAlwaysDescribe`: what a record says after the loop follows from what it
  says after `s` stubs. `StubsPassed` fixes what `pLastImport` remembers;
  `RecordsInvariant` says that the stubs passed of a record are an interval that
  its fields describe, which ends at `s` if the last stub was one of it. A stub of
  another record cannot be accepted later, because the count is then not zero;
  that is where `StartsInCompleted` has to be excluded.
* `NidsAreRenamed`: in a `Regular` file (no variables, records of the size the code
  steps by, those completed before as a run of the tool leaves them) and for map files
  without lines old=new every NID ends as the map in force for its library renames it. Two invariants carry it. `ReadingInvariant` is about the map file: for any
  library, the entries of the first map of that name rename what the lines read so far
  that are in force for it do, wherever its blocks are in the file. `WalkInvariant` is
  about the records: the NIDs of those before the present one are renamed, of the open
  one those before the cursor, all others are as in the input. That no NID is renamed
  twice is a fact about records (`OwnedOnce`): it belongs to a stub, and stubs to one
  record, which is where `RecordsAlwaysDescribe` enters.
* `RunningTwiceIsRunningOnce`: `NothingLeft` says that in a file the tool has written
  every stub is a jump, so a second run only passes them; `NidsKept` and `RecordOpen`
  that without a map no NID is touched.

`BuildExportsProofs` (`.exp` files of any length, any limits):

* `TypeCorrect`, and `CountsAlwaysMatch`: `CountsMatch` is inductive as it stands,
  because it speaks of the open library and of those in the list; the array of a
  library has the declared size by the lengths of four concatenated sequences.
* `ExportsInvariantHolds`: the inductive `ExportsInvariant`. The contract speaks of positions
  of lines and has neither an open library nor a list; `Reading` relates the two after each
  line: the block that is open is the last start without an end (`IsBlock`), the library
  being read is what the lines of that block say in their order (`Describes`), and the list
  is the other blocks in the order of their starts (`ListIs`). A line adds itself, the
  greatest position so far, to one set of positions, and `InOrder` of a set with a new
  greatest member is the old order and that member (`OneMore`). While a list
  is printed, `TablesTo`, `EntriesTo`, `StubsTo` and `ItemsTo` say the same of what is printed
  of the libraries before `pLib`; of several libraries of one name the stubs are those of
  the last.
* `BuilderImplementsContract`: every step is a stutter or the one step of the contract. A line
  is refused exactly if it is `OutOfPlace` (`RejectedLine`), a file at its end exactly if a block is
  open, and what is printed reads back as the blocks (`ExportsPrinted`, `StubsPrinted`,
  `ListsPrinted`).

`PackPbpProofs` (any number of sections, sizes, chunk and header, any number of
changes by other programs):

* `TypeCorrect`: the type invariant, with the modular arithmetic of `ToInt` and offsets.
* `HeaderIsRight` and `FilesAreWhole`: two conjuncts of the inductive `PackInvariant`
  seen from the end. `Sized` relates sizes and offsets during the first pass; in the
  second, `Copied` splits the sections at `i`: those before it are `Complete`, those
  behind it lack all their bytes, and section `i` has the `at` bytes read from its
  file so far, which are the last of the output. The end of section `i` is then the
  offset of section `i + 1`, which is why the chunks must add up to the size taken in
  the first pass and not to the file's present size.
* `OutputWholeOrAbsent`: `pc = "remove"` only with a code other than `ERR_OK`.

`AmctrlProofs` (any block and buffer size, any keys, pieces and lengths):

* `TypeCorrect`: the type invariant.
* `EveryByteHasItsPlace`: the inductive `MacInvariant`. Every byte given is in the chain, in
  the buffer, still at `buf`, or in the pad, in that order, and the chain is whole
  blocks. `MacOfThePieces` adds what `BBMacFinal` makes of it: the value is that of
  the message alone, if no piece was swallowed (a full pad forgotten, section 7). The invariant must speak of the middle of the loop, where the pad is
  the message's end already and the bytes before it are not yet in the chain.
* `ChecksOfThePieces`: a check accepts the MACs it should and no other, and `getkey` finds the
  key, if neither side had a piece swallowed. Beside the invariant above it needs that MACs can be told apart: `ContentTells`
  shows that the block encrypted last determines the length of the message, through the
  place of the padding's mark and the chain before it, `KeyedTells` that the MAC
  determines length and key, `StoredIs` that a MAC of type 3 is never taken for one of
  the others. A version key is a block of atoms of its own kind (`AmctrlConstants`): it
  was chosen without regard to the values of AES.
* `StreamOfPositions`: `CipherInductive` says that `seed` is the number of blocks passed, also
  between the chunks of one call.

`NpPbpProofs` (any ISO, directories, block size, compressed sizes, optional files, failures):

* `ImageKeystream`: no counter serves twice. `StreamInvariant` says that the seed of each block
  is its place (`Placed`): at or behind the table, and behind the blocks before it
  (`StreamsInOrder`); the page before the table keeps the header's counters apart.
* `SignerTypes`: types, among them that every cell of the output is one and that its length
  is that of a file.
* `FilesAreThoseOfTheDirectory`: the walk over the records of a directory, a recursive
  function, meets exactly the records there are, in discs without a record that is refused
  as corrupt (`ReadableDisc`). Shown by the least position at which it
  would not (`LeastNat`): each record ends in its sector, and from the end of the last in a
  sector the walk goes to the next.
* `SectionsAreDescribed`: `PbpInvariant`, what is below the image is, cell by cell, the header
  and the section `InSection` of it. Sections are in order (`SectionsInOrder`), also those of
  size zero, so a cell is in one of them only.
* `BlocksReadBack`: `BlocksInvariant`, for each block written there are a seed and a size such
  that the cells at that place decrypt to the block or its compressed form and the entry in
  the table is made of them. It speaks of every block so far, because a later one is
  written behind them only by `StreamInvariant`.
* `HeaderOfTheImageVerifies`: `WrittenBack`, at the end header and table are in their places.
  `SeekingBackDamagesNothing` is the other half: nothing else changed since `WritePbp`.
* `OptionalFilesReadBack`: `ExtrasInvariant`, the PGD is one of those that can be left in its
  buffer (`PgdsMade`) and the start picture is that of its file, until DATA.PSP is put
  together. That `DecryptPgd` undoes `EncryptPgd` is a lemma about the layout, which the two
  compute apart from sizes (`PgdReadsBack`). A module of whole units fits the buffer
  (`WholeUnitsFit`); of another the last MAC may be lost, and the MAC over the table then
  differs from the one in the header, so the PGD is refused (`LostMacRefused`).

`LzrcProofs` (any blocks, any window up to the 16384 bytes of the code, any longest match and
limit of a near one):

* `LzInvariantHolds`: the inductive invariant. `Chains` gives the lists as relations (`IsLatest`,
  `IsEarliest`) between linked positions, which an insertion at the front and a removal
  anywhere preserve (`LinkLast`, `UnlinkOne`). A position missing from the window is `Kept`:
  a later linked one is like it for as many bytes as a match can have. So the search may skip
  it, but this must survive the later one's removal too, and the move of the window.
  `SearchInvariant`: every position behind the node under inspection is beaten by the match
  found so far, the missing ones because their substitutes are.
* `ListsAreTheWindow` and `BestMatchIsFound` follow; the latter says with `Accept` what becomes of
  a short match that is too far.
* `DecoderKeepsInStep`: `DecodeInvariant`. Between items both coders are in one state and the
  output is the data so far; while an item is on its way, it is a byte, a match or the end,
  coded from the decompressor's state, and a match repeats in the data at its distance.
  That an item is asked for as it was coded (`LiteralDecodes`, `MatchDecodes`, `EndDecodes`)
  rests on three facts: a number is what its bits make (`NumberRead`), a tree ends where the
  number in it is complete (`TreeRead`, with `DistanceBits` for the size of a distance),
  and the flags of a length count to its number of bits (`FlagsCounted`). `CopyRepeats` is the
  copy of a match that overlaps itself. The provers know neither powers nor induction, so
  these go by a least counterexample (`LeastNat`), and `2 ^ (n + 1) = 2 * 2 ^ n` (`TwoPower`)
  counts the subsets of a set with one element more.

The assumptions are those of the modules: `PrxConstants`, `IsoConstants`,
`IsoRequests`, `FixupConstants`, `ExpConstants`, `PackConstants`, `AmctrlConstants`,
`UnitSize`, `PgdBlocks`, `IsoDirConstants`, `NpConstants` and `LzrcConstants`: well-formed
inputs, sizes positive, whole units in a block, a page and an entry. Among them: the value
for "no data" is no sequence of bytes (`IsoConstants`), a directory is one of an ISO 9660 image
(`IsDisc`), and the window has at most 16384 bytes, for which a distance has a number of bits
below `FarLimit` (`LzrcConstants`). TLC evaluates them in the runs.

Only model-checked: the refinement of `PrxContract` (it reads back the result of folds over
sections and includes fairness); and the liveness properties `CallsReturn`, `CompressionEnds`
and `FilesAreDecided`: fairness and `ENABLED` are out of the prover's reach.

## 7. Disagreements found

Six runs end in a counterexample; `PROJECT.json` quotes code and text.

* `kprxgen_order`: psp-kprxgen links a relocation section while reading headers
  (`psp-kprxgen.c:288`), so a section before its target is lost; the README calls
  the tool equivalent to `prxgen`.
* `fixup_mixed`: the order check of `fixup_functions` needs a previous stub; the
  first stub of a table that was partly fixed up before is accepted into a record
  already complete (`psp-fixup-imports.c:684`).
* `fixup_words`: `fixup_nidmap` steps by `sizeof(struct PspModuleImport)`, six words,
  over records of five (`psp-fixup-imports.c:1078`), and misses their NIDs.
* `fixup_end`: the test of a stub's address admits the end of the section
  (`psp-fixup-imports.c:660`).
* `pack_large`: `getfilesize` casts the size of a file to `int` (`util.c:181`); a file of
  2^31 bytes or more makes offsets that point backwards or outside the PBP, and
  `pack-pbp` reports success.
* `npimage_module`: `pgd_buf` is allocated for the size of the optional module
  (`sign_np.c:818`), but `encrypt_pgd` copies to it a PGD of that size rounded up to 16
  (`pgd.c:20`, `:121`): up to 15 bytes of the last MAC land behind the buffer. If the heap
  uses them the PGD in DATA.PSP is refused; `pgd.c:120` says that the generated PGD is
  copied back. `DataPspReadsBack` asks that any other module is given back, and that such a
  module is given back or refused.

Met while reading, without a run: the comment at `psp-fixup-imports.c:486` gives map
entries as OLDNID=NEWNID, the code wants a colon (`:569`, `:578`) and refuses them as
invalid, so `NidsRenamedByTheirLibrary` excepts map files that have one; `var_count` is added to
the number of NIDs renamed from the first *function* NID (`:1031`); a map entry
before any library line dereferences NULL (`:558`, state `crashed` of the model);
except for `pack-pbp` no tool reports a failed write in its exit status, and
`psp-build-exports` returns 0 whatever happens. A `PSP_EXPORT_END` without a start
writes an error text and succeeds (`psp-build-exports.c:719`); a CMake list ends with a
separator when `syslib` is last (`:615`); a line of more than 1023 characters is
read as two (`:1010`). `pack-pbp` returns 0 for an option it does not know
(`pack-pbp.c:343`), removes an output it could not open (`:384`), and truncates an
input that is also the output, which becomes an empty section (`:113`).

In `psp-sign-np`: `sceDrmBBMacUpdate` forgets a full pad when a piece of at most a block follows
(`amctrl.c:244`; the tools give one piece); MAC type 2 uses kirk commands that do not
exist (`:352`); `sizeof` of a directory record counts a byte of its name, so
plain records of a name of odd length are refused as corrupt (`isoreader.c:268`); `write_pbp` returns 0 when signing
fails and `main` writes the image without it and reports success (`sign_np.c:907`), as
it does after a block it could not read; a file that cannot be opened is closed all the
same; `re_flush` writes the last byte without a carry that is pending
(`tlzrc.c:275`). No document says what should happen instead, so these are no
findings; the properties except them by name (`good`, `spoilt`, `ReadableDisc`).

## 8. Not modelled

* `fixup_variables`: it takes the symbol of a relocation (`symbol & 0xFF` and above) as
  the numbers of two program headers. That is what a PRX has there; the tool is given
  the linked ELF, where it is an index into the symbol table, and then reads program
  headers that are not there. No test or document gives an input it is meant for, so
  there is nothing a model of it could be held against. The NIDs of variables
  (`psp-fixup-imports.c:1031`) are left out with it.
* `psp-sign-np -elf` (`eboot.c`): a straight sequence of copies and kirk commands, one call in
  a run, no state kept. Only the console reads the result, and nothing in the repository
  says what must hold of it.
* `bbmac_forge`, which nothing calls. `sceNpDrmGetFixedKey`, the signature of
  `NPUMDIMG` and kirk's signing and hashing commands are atoms of their operands.
* In `Lzrc`: the arithmetic of the range coder (`re_bit` and `rc_bit` are taken to agree when
  they use the same probability), and blocks longer than the ring of `text_buf`, which
  `psp-sign-np` does not make. The calls of the compressor within `NpPbp` are the sizes
  it returns.
* Path and string helpers (`utils.c`, `util.c` but for `getfilesize`): functions of
  strings without state.
* AES, SHA-1, ECDSA and the bignum code: arithmetic on long words that a model
  checker cannot reach at its real width and that published vectors test; other
  modules take them as functions.
* `bin2s`/`bin2c`: copy a file to text; no state.
* getopt (vendored), `b.sh`, CMake files.
* In the modelled parts: failure of `malloc` and overflow of 32-bit addresses (both
  modelled in `PackPbp`), images shorter than their index says, wording of messages,
  `pack-pbp`'s sizes for people. `remove` is taken to succeed, and nobody but
  `pack-pbp` writes its output.
* The write behind `pgd_buf` (section 7) is taken to keep the last MAC, to lose it, or to make a
  later `malloc` or `free` abort; that it changes other data of the program is left out.
