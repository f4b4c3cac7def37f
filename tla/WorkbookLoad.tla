----------------------------- MODULE WorkbookLoad -----------------------------
(***************************************************************************)
(* Opening a workbook (xl-io: package.rs build_workbook, read_part) and    *)
(* handing its sheets and names to the engine (xl-engine: Engine::load,    *)
(* analyze.rs resolve_sheet, resolve_name).                                *)
(*                                                                         *)
(* A package is its parts, its relationships, the entries of <sheets> and  *)
(* the defined names.  A part says how large it claims to be, how large it *)
(* is packed and how large it really is, in chunks of the reader's buffer. *)
(* Reading a part takes one action per chunk, so the memory held is known  *)
(* at every moment.  The XML is abstract: whether it is well formed, how   *)
(* many strings it has or refers to, whether it repeats a cell.            *)
(***************************************************************************)
EXTENDS Naturals, Sequences, FiniteSets, FiniteSetsExt

CONSTANTS
  Packages,            \* the packages to open
  MaxParts, MaxSingle, MaxTotal, MaxRatio,  \* Caps
  None                 \* no relationship id, no scope, no part

ASSUME CapsAssumption == {MaxParts, MaxSingle, MaxTotal, MaxRatio} \subseteq Nat

\* None is no sheet, no position and no reason.
ASSUME NoneAssumption ==
  None \notin Nat \cup {"part_count", "missing", "single_part", "ratio", "total", "structure", "zip"}

\* Any package a reader may meet: finitely many parts, each of some size, and a
\* list of sheets.
ASSUME PackagesAssumption ==
  \A p \in Packages :
    /\ IsFiniteSet(DOMAIN p.parts)
    /\ \A q \in DOMAIN p.parts :
         {p.parts[q].declared, p.parts[q].packed, p.parts[q].actual} \subseteq Nat
    /\ Len(p.sheets) \in Nat /\ DOMAIN p.sheets = 1 .. Len(p.sheets)
    /\ \A i \in DOMAIN p.names :
         DOMAIN p.names[i] = {"name", "scope"} /\ p.names[i].scope \in Nat \cup {None}

VARIABLES
  package,  \* the package being opened
  pc,       \* what comes next
  part,     \* the part being read
  role,     \* what it is read as
  held,     \* chunks of it in the buffer
  total,    \* running_total
  strings,  \* the shared string table's length
  at,       \* the entry of <sheets> being loaded
  sheets,   \* the worksheets loaded
  skipped,  \* how many entries had none
  error,    \* why the load ended early, or None
  engine    \* the engine made of it, or None

vars == <<package, pc, part, role, held, total, strings, at, sheets, skipped, error, engine>>

Init ==
  /\ package \in Packages
  /\ pc = "count"
  /\ part = None
  /\ role = None
  /\ held = 0
  /\ total = 0
  /\ strings = 0
  /\ at = 1
  /\ sheets = <<>>
  /\ skipped = 0
  /\ error = None
  /\ engine = None

Present(p) == p \in DOMAIN package.parts
Part == package.parts[part]

Refuse(why) ==
  /\ pc' = "failed"
  /\ error' = why
  /\ UNCHANGED <<package, part, role, held, total, strings, at, sheets, skipped, engine>>

CountParts ==
  /\ pc = "count"
  /\ IF Cardinality(DOMAIN package.parts) > MaxParts
     THEN Refuse("part_count")
     ELSE /\ pc' = "open"
          /\ part' = "workbook"
          /\ role' = "workbook"
          /\ UNCHANGED <<package, held, total, strings, at, sheets, skipped, error, engine>>

\* --------------------------------------------------------------- read_part
\* The checks of the declared size, before anything is read.
Implausible(p) ==
  IF p.packed = 0 THEN p.declared > 0 ELSE p.declared > p.packed * MaxRatio

\* A part that is not there: an error, but for the optional ones, which are
\* only looked for where they are.
OpenPart ==
  /\ pc = "open"
  /\ IF ~Present(part) THEN Refuse("missing")
     ELSE IF Part.declared > MaxSingle THEN Refuse("single_part")
     ELSE IF Implausible(Part) THEN Refuse("ratio")
     ELSE IF total + Part.declared > MaxTotal THEN Refuse("total")
     ELSE /\ pc' = "read"
          /\ held' = 0
          /\ UNCHANGED <<package, part, role, total, strings, at, sheets, skipped, error, engine>>

\* Fault: the declared size is trusted.
Overfull_Trusting(chunks) == FALSE

Overfull(chunks) == chunks > MaxSingle

ReadChunk ==
  /\ pc = "read" /\ held < Part.actual
  /\ IF Overfull(held + 1) THEN Refuse("single_part")
     ELSE /\ held' = held + 1
          /\ UNCHANGED <<package, pc, part, role, total, strings, at, sheets, skipped, error, engine>>

\* The archive has no directory that can be read, or a part of it cannot be
\* opened, does not decompress or fails its checksum.
ArchiveFails ==
  /\ pc \in {"count", "open", "read"}
  /\ pc = "open" => Present(part)
  /\ Refuse("zip")

PartRead ==
  /\ pc = "read" /\ held = Part.actual
  /\ IF total + held > MaxTotal THEN Refuse("total")
     ELSE /\ total' = total + held
          /\ held' = 0
          /\ pc' = "parse"
          /\ UNCHANGED <<package, part, role, strings, at, sheets, skipped, error, engine>>

\* ----------------------------------------------------------- build_workbook
\* resolve_optional_part: a relationship of the type whose target is there, in
\* the order of a HashMap; else the conventional path.
Optional(type, conventional) ==
  LET targets == {package.rels[r].target : r \in {q \in DOMAIN package.rels :
                    /\ package.rels[q].type = type
                    /\ Present(package.rels[q].target)}}
  IN IF targets # {} THEN targets ELSE {conventional} \cap DOMAIN package.parts

Proceed(next) ==
  /\ pc' = next
  /\ UNCHANGED <<package, held, total, at, sheets, skipped, error, engine>>

\* The optional part of this type, or the next step without it.
Seek(type, conventional, next) ==
  IF Optional(type, conventional) = {} THEN UNCHANGED <<part, role>> /\ Proceed(next)
  ELSE part' \in Optional(type, conventional) /\ role' = type /\ Proceed("open")

Parse(what) == pc = "parse" /\ role = what /\ Part.wellFormed

Malformed == pc = "parse" /\ ~Part.wellFormed /\ Refuse("structure")

ParseWorkbook ==
  /\ Parse("workbook")
  /\ part' = "rels" /\ role' = "rels"
  /\ Proceed("open")
  /\ UNCHANGED strings

ParseRels ==
  Parse("rels") /\ Seek("sharedStrings", "strings", "styles") /\ UNCHANGED strings

ParseStrings ==
  /\ Parse("sharedStrings")
  /\ strings' = Part.strings
  /\ Seek("styles", "styles", "sheet")

SkipStrings ==
  pc = "styles" /\ Seek("styles", "styles", "sheet") /\ UNCHANGED strings

ParseStyles ==
  Parse("styles") /\ Proceed("sheet") /\ UNCHANGED <<part, role, strings>>

\* The next entry of <sheets>: no relationship id, or one that is not of a
\* worksheet, is skipped; an id that resolves nowhere is an error.
Entry == package.sheets[at]

IsWorksheet(entry) == entry.rid # None /\ package.rels[entry.rid].type = "worksheet"

NextSheet ==
  /\ pc = "sheet" /\ at <= Len(package.sheets)
  /\ IF Entry.rid # None /\ Entry.rid \notin DOMAIN package.rels THEN Refuse("structure")
     ELSE IF IsWorksheet(Entry)
     THEN /\ part' = package.rels[Entry.rid].target
          /\ role' = "worksheet"
          /\ pc' = "open"
          /\ UNCHANGED <<package, held, total, strings, at, sheets, skipped, error, engine>>
     ELSE /\ skipped' = skipped + 1
          /\ at' = at + 1
          /\ UNCHANGED <<package, pc, part, role, held, total, strings, sheets, error, engine>>

\* sheet_xml: a cell given twice and a string the table does not have end the
\* load.
ParseSheet ==
  /\ Parse("worksheet")
  /\ IF Part.repeats \/ Part.strings > strings THEN Refuse("structure")
     ELSE /\ sheets' = Append(sheets, [name |-> Entry.name, index |-> at - 1, from |-> part])
          /\ at' = at + 1
          /\ pc' = "sheet"
          /\ UNCHANGED <<package, part, role, held, total, strings, skipped, error, engine>>

\* ------------------------------------------------------------- Engine::load
Tabs == 1 .. Len(sheets)  \* SheetId, here from 1
Lower(name) == package.lower[name]

\* NameScope
Global == <<"global">>
Local(tab) == <<"local", tab>>
LocalUnmapped == <<"local unmapped">>

\* Fault: localSheetId taken as a position among the loaded sheets.
ScopeOf_ByTab(scope) ==
  IF scope = None THEN Global
  ELSE IF scope + 1 \in Tabs THEN Local(scope + 1)
  ELSE LocalUnmapped

\* localSheetId counts the entries of <sheets>, the skipped included.
ScopeOf(scope) ==
  IF scope = None THEN Global
  ELSE IF \E t \in Tabs : sheets[t].index = scope
       THEN Local(CHOOSE t \in Tabs : sheets[t].index = scope)
  ELSE LocalUnmapped

\* The engine's sheets by lower-cased name, the last one of a name, and its names.
Loaded ==
  [sheet_ids |-> [n \in {Lower(sheets[t].name) : t \in Tabs} |->
                    CHOOSE t \in Tabs : /\ Lower(sheets[t].name) = n
                                        /\ \A u \in Tabs : Lower(sheets[u].name) = n => u <= t],
   names |-> [i \in DOMAIN package.names |->
                [package.names[i] EXCEPT !.scope = ScopeOf(@)]]]

Load ==
  /\ pc = "sheet" /\ at > Len(package.sheets)
  /\ engine' = Loaded
  /\ pc' = "done"
  /\ UNCHANGED <<package, part, role, held, total, strings, at, sheets, skipped, error>>

Next ==
  \/ CountParts \/ OpenPart \/ ReadChunk \/ PartRead \/ ArchiveFails \/ Malformed
  \/ ParseWorkbook \/ ParseRels \/ ParseStrings \/ SkipStrings \/ ParseStyles
  \/ NextSheet \/ ParseSheet \/ Load

Spec == Init /\ [][Next]_vars

\* ------------------------------------------------------ resolution of names
\* resolve_name, first part: a name of this sheet's scope, else a global one,
\* the first in the file's order.
ResolveName(name, tab) ==
  LET scoped(s) == {i \in DOMAIN engine.names :
                      Lower(engine.names[i].name) = Lower(name) /\ engine.names[i].scope = s}
      first(S) == CHOOSE i \in S : \A j \in S : i <= j
  IN IF scoped(Local(tab)) # {} THEN first(scoped(Local(tab)))
     ELSE IF scoped(Global) # {} THEN first(scoped(Global))
     ELSE None

\* resolve_sheet of a qualified reference.
ResolveSheet(name) ==
  IF Lower(name) \in DOMAIN engine.sheet_ids THEN engine.sheet_ids[Lower(name)] ELSE None

\* --------------------------------------------------------------- properties
TypeOK ==
  /\ pc \in {"count", "open", "read", "parse", "styles", "sheet", "done", "failed"}
  /\ role \in {"workbook", "rels", "sharedStrings", "styles", "worksheet", None}
  /\ (part = None) = (role = None)
  /\ {held, total, strings, skipped} \subseteq Nat
  /\ at \in 1 .. Len(package.sheets) + 1
  /\ (error # None) = (pc = "failed")
  /\ (engine # None) = (pc = "done")

\* What a load reads, in order: the workbook, its relationships, the shared
\* strings, the styles and the sheets.  Sources are the parts that the k-th may
\* be of, none where it is skipped or missing.
Reads == 4 + Len(package.sheets)

Sources(k) ==
  CASE k = 1 -> {"workbook"} \cap DOMAIN package.parts
    [] k = 2 -> {"rels"} \cap DOMAIN package.parts
    [] k = 3 -> Optional("sharedStrings", "strings")
    [] k = 4 -> Optional("styles", "styles")
    [] OTHER -> LET entry == package.sheets[k - 4] IN
                IF entry.rid \in DOMAIN package.rels /\ IsWorksheet(entry)
                THEN {package.rels[entry.rid].target} \cap DOMAIN package.parts
                ELSE {}

Larger(p) ==
  IF package.parts[p].declared > package.parts[p].actual
  THEN package.parts[p].declared ELSE package.parts[p].actual

\* The least that the k-th read holds, and the most it may hold or claim.
Least(k) == IF Sources(k) = {} THEN 0 ELSE Min({package.parts[p].actual : p \in Sources(k)})
Most(k) == IF Sources(k) = {} THEN 0 ELSE Max({Larger(p) : p \in Sources(k)})

\* The sums of a sequence's beginnings.
Sums(sizes, n) ==
  LET sum[k \in 0 .. n] == IF k = 0 THEN 0 ELSE sum[k - 1] + sizes[k] IN sum

LeastSums == Sums([k \in 1 .. Reads |-> Least(k)], Reads)
MostSums == Sums([k \in 1 .. Reads |-> Most(k)], Reads)

\* The package itself is over a limit.
Excessive ==
  \/ Cardinality(DOMAIN package.parts) > MaxParts
  \/ \E k \in 1 .. Reads : \E p \in Sources(k) :
       Larger(p) > MaxSingle \/ Implausible(package.parts[p])
  \/ \E k \in 1 .. Reads : MostSums[k] > MaxTotal

(* The caps hold at every moment, whatever the package claims of itself: a
   part's buffer and the running total stay within their limits, and where the
   sizes are as declared, so does all that is held.  A workbook that loads is
   within the limits by its true sizes, and a load that is refused for its size
   was of a package over one of them. *)
CapsBound ==
  /\ total <= MaxTotal
  /\ held <= MaxSingle
  /\ (\A p \in DOMAIN package.parts : package.parts[p].actual = package.parts[p].declared) =>
       total + held <= MaxTotal
  /\ pc = "done" =>
       LeastSums[Reads] <= MaxTotal /\ \A k \in 1 .. Reads : Least(k) <= MaxSingle
  /\ error \in {"part_count", "single_part", "ratio", "total"} => Excessive

(* Names keep the sheets they were defined for, though the loader skips entries
   of <sheets> and the engine counts the rest anew: from the sheet at a position
   of <sheets>, a name means the first one scoped to that position, else the
   first global one; a qualified reference reaches the contents that its
   relationship names, and a skipped sheet is never taken for another. *)
NamesKeepSheets ==
  pc = "done" =>
    LET Position(t) == sheets[t].index
        Defined(name, scope) ==
          {i \in DOMAIN package.names :
             Lower(package.names[i].name) = Lower(name) /\ package.names[i].scope = scope}
        First(S) == CHOOSE i \in S : \A j \in S : i <= j
        Meant(name, p) ==
          IF Defined(name, p) # {} THEN First(Defined(name, p))
          ELSE IF Defined(name, None) # {} THEN First(Defined(name, None)) ELSE None
    IN /\ \A t \in Tabs, i \in DOMAIN package.names :
            ResolveName(package.names[i].name, t) = Meant(package.names[i].name, Position(t))
       /\ \A i \in DOMAIN package.sheets :
            LET entry == package.sheets[i]
                tab == ResolveSheet(entry.name)
                alone == \A j \in DOMAIN package.sheets :
                           Lower(package.sheets[j].name) = Lower(entry.name) => j = i
            IN alone =>
                 IF IsWorksheet(entry)
                 THEN tab # None /\ sheets[tab].from = package.rels[entry.rid].target
                 ELSE tab = None
       /\ skipped + Len(sheets) = Len(package.sheets)

(* The caps' documentation: exceeding one is an error "before the corresponding
   buffer is grown past the limit, never after".  The total is compared with
   the true size of a part once the part is in memory. *)
TotalNeverExceeded == total + held <= MaxTotal
=============================================================================
