------------------------------ MODULE Includes ------------------------------
(* The preprocessor's walk over a translation unit (preprocessor.go run,
   directive.go directive, include.go include and readFile): a stack of readers,
   one per file being read, the macro table, and the open-once cache that decides
   whether a file is read again.

   A file is a sequence of lines.  A line is a record whose field "op" names it:
     text                     ordinary tokens
     null                     the null directive
     define, undef [m]        the macro m
     include, import [file]   the two directives that read a file
     once                     #pragma once
     other                    #line, #error, #warning, any other #pragma
     if [lits]                a disjunction of literals [neg, m] on defined macros
     ifdef, ifndef [m]
     elif [lits], else, endif
   Macros are only defined or not: what a body says does not matter here. *)
EXTENDS Reader, FiniteSets

CONSTANTS Files,            \* the names of the files
          Main,             \* the primary source file
          MaxIncludeDepth,  \* Config.MaxIncludeDepth: readers on the stack
          Programs          \* the sets of files explored: [Files -> Seq(Line)]

Literals == [m : Macros, neg : BOOLEAN]

(* A logical line, by its operator. *)
LineRecords ==
    [op : {"text", "null", "once", "other", "else", "endif"}]
        \cup [op : {"define", "undef", "ifdef", "ifndef"}, m : Macros]
        \cup [op : {"include", "import"}, file : Files]
        \cup [op : {"if", "elif"}, lits : Seq(Literals)]

ASSUME IncludesAssumption ==
    /\ Main \in Files
    /\ MaxIncludeDepth \in Nat \ {0}
    /\ Programs \subseteq [Files -> Seq(LineRecords)]

VARIABLES text,     \* the contents of the files, fixed from Init on
          macros,   \* Table: the macros that are defined
          cache,    \* files map[string]*cached, for every file
          stack,    \* []*reader, the primary file first
          out,      \* the text lines kept, as <<file, line number>>
          nesting,  \* history: the files whose conditionals drew a diagnostic
          asked     \* history: the files that asked for, or were asked, once

vars == <<text, macros, cache, stack, out, nesting, asked>>

(* Neither the include-guard macro nor anything else is known of a file before
   it has been opened. *)
Unread == [guard |-> NoGuard, done |-> FALSE, once |-> FALSE, entered |-> FALSE,
           reads |-> 0]

(* A reader of file f that a directive of the given mode started.  "met" is
   history: the macro table at each line met so far. *)
NewFrame(f, mode) == [file |-> f, mode |-> mode, pc |-> 1, rd |-> NewReader, met |-> <<>>]

Init ==
    /\ text \in Programs
    /\ macros = {}
    /\ cache = [f \in Files |-> Unread]
    /\ stack = <<NewFrame(Main, "primary")>>
    /\ out = <<>>
    /\ nesting = {}
    /\ asked = {}

-----------------------------------------------------------------------------
Conditionals == {"if", "ifdef", "ifndef", "elif", "else", "endif"}
Opening      == {"if", "ifdef", "ifndef"}
Inclusions   == {"include", "import"}

Running == stack # <<>>
Top     == stack[Len(stack)]
Lines   == text[Top.file]
AtEnd   == Top.pc > Len(Lines)
Line    == Lines[Top.pc]

(* Another line to read, with this operator; live where the operator is skipped
   in a dead group. *)
Reading(ops) == Running /\ ~AtEnd /\ Line.op \in ops
ReadingLive(ops) == Reading(ops) /\ Live(Top.rd)

(* The top reader becomes rd and moves past its line. *)
Past(rd) == [stack EXCEPT ![Len(stack)].rd  = rd,
                          ![Len(stack)].pc  = @ + 1,
                          ![Len(stack)].met = Append(@, macros)]

Advance(rd) == stack' = Past(rd)

(* Eval, on a line's disjunction. *)
Holds(lits, defined) == \E k \in 1..Len(lits) : (lits[k].m \in defined) # lits[k].neg

(* The value of an opening or #elif line. *)
Verdict(line, defined) ==
    CASE line.op = "ifdef"  -> line.m \in defined
      [] line.op = "ifndef" -> line.m \notin defined
      [] OTHER              -> Holds(line.lits, defined)

(* The macro an opening line names as a guard: that of #ifndef, and, for an #if
   that starts with !defined, the first name after it, whatever follows. *)
GuardNamed(line) ==
    CASE line.op = "ifndef" -> line.m
      [] line.op = "if" /\ line.lits # <<>> /\ line.lits[1].neg -> line.lits[1].m
      [] OTHER -> NoGuard

-----------------------------------------------------------------------------
TextLine ==
    /\ ReadingLive({"text"})
    /\ out' = Append(out, <<Top.file, Top.pc>>)
    /\ Advance(TakeText(Top.rd))
    /\ UNCHANGED <<text, macros, cache, nesting, asked>>

(* A text line, or a directive that is no conditional, in a dead group. *)
SkipLine ==
    /\ Running /\ ~AtEnd
    /\ Line.op \notin Conditionals \cup {"null"}
    /\ ~Live(Top.rd)
    /\ Advance(Top.rd)
    /\ UNCHANGED <<text, macros, cache, out, nesting, asked>>

(* The null directive does nothing and invalidates nothing. *)
NullDirective ==
    /\ Reading({"null"})
    /\ Advance(Top.rd)
    /\ UNCHANGED <<text, macros, cache, out, nesting, asked>>

Define ==
    /\ ReadingLive({"define"})
    /\ macros' = macros \cup {Line.m}
    /\ Advance(CloseWindow(Top.rd))
    /\ UNCHANGED <<text, cache, out, nesting, asked>>

Undef ==
    /\ ReadingLive({"undef"})
    /\ macros' = macros \ {Line.m}
    /\ Advance(CloseWindow(Top.rd))
    /\ UNCHANGED <<text, cache, out, nesting, asked>>

(* A #line, #error, #warning or pass-through #pragma. *)
Other ==
    /\ ReadingLive({"other"})
    /\ Advance(CloseWindow(Top.rd))
    /\ UNCHANGED <<text, macros, cache, out, nesting, asked>>

OpenConditional ==
    /\ Reading(Opening)
    /\ Advance(BeginIf(Top.rd, Verdict(Line, macros), GuardNamed(Line)))
    /\ UNCHANGED <<text, macros, cache, out, nesting, asked>>

(* The diagnostic a misplaced #elif, #else or #endif draws. *)
Diagnose(broken) == nesting' = IF broken THEN nesting \cup {Top.file} ELSE nesting

Elif ==
    /\ Reading({"elif"})
    /\ Advance(DoElif(Top.rd, Verdict(Line, macros)))
    /\ Diagnose(Misplaced(Top.rd))
    /\ UNCHANGED <<text, macros, cache, out, asked>>

Else ==
    /\ Reading({"else"})
    /\ Advance(DoElse(Top.rd))
    /\ Diagnose(Misplaced(Top.rd))
    /\ UNCHANGED <<text, macros, cache, out, asked>>

Endif ==
    /\ Reading({"endif"})
    /\ Advance(DoEndif(Top.rd))
    /\ Diagnose(Stray(Top.rd))
    /\ UNCHANGED <<text, macros, cache, out, asked>>

(* #pragma once takes effect at once, not when the file finishes.  The primary
   file has no cache entry. *)
PragmaOnce ==
    /\ ReadingLive({"once"})
    /\ cache' = IF Top.mode = "primary" THEN cache
                ELSE [cache EXCEPT ![Top.file].once = TRUE]
    /\ asked' = IF Top.mode = "primary" THEN asked ELSE asked \cup {Top.file}
    /\ Advance(CloseWindow(Top.rd))
    /\ UNCHANGED <<text, macros, out, nesting>>

-----------------------------------------------------------------------------
TooDeep == Len(stack) >= MaxIncludeDepth

(* The guard of a file read to its end stands while its macro is defined. *)
Guarded(f) == cache[f].done /\ cache[f].guard \in macros

(* A file need not be read again: it said so, this #import says so, or its guard
   does. *)
NotAgain(f, mode) ==
    \/ cache[f].once
    \/ mode = "import" /\ cache[f].entered
    \/ Guarded(f)

IncludeTooDeepStays ==                  \* mutant: the line is met again
    ReadingLive(Inclusions) /\ TooDeep /\ UNCHANGED vars

(* Nested too deeply: reported, and nothing is read or marked. *)
IncludeTooDeep ==
    /\ ReadingLive(Inclusions) /\ TooDeep
    /\ Advance(CloseWindow(Top.rd))
    /\ UNCHANGED <<text, macros, cache, out, nesting, asked>>

Asked(f, mode) == asked' = IF mode = "import" THEN asked \cup {f} ELSE asked

IncludeSkipped ==
    /\ ReadingLive(Inclusions) /\ ~TooDeep
    /\ LET f == Line.file IN
        /\ NotAgain(f, Line.op)
        /\ cache' = IF Line.op = "import" THEN [cache EXCEPT ![f].once = TRUE] ELSE cache
        /\ Asked(f, Line.op)
    /\ Advance(CloseWindow(Top.rd))
    /\ UNCHANGED <<text, macros, out, nesting>>

EnteredLate(f, mode) ==                 \* mutant: the mark waits for the end of the read
    [cache EXCEPT ![f].reads = @ + 1]

(* readFile, up to the run of the new reader: an import is marked on the way in. *)
Entered(f, mode) ==
    [cache EXCEPT ![f].entered = TRUE, ![f].once = @ \/ mode = "import",
                  ![f].reads = @ + 1]

IncludeRead ==
    /\ ReadingLive(Inclusions) /\ ~TooDeep
    /\ LET f == Line.file IN
        /\ ~NotAgain(f, Line.op)
        /\ cache' = Entered(f, Line.op)
        /\ Asked(f, Line.op)
        /\ stack' = Append(Past(CloseWindow(Top.rd)), NewFrame(f, Line.op))
    /\ UNCHANGED <<text, macros, out, nesting>>

(* The end of run and readFile: open conditionals are reported, the reader is
   popped, and the first read of the file to finish records its guard. *)
EndOfFile ==
    /\ Running /\ AtEnd
    /\ LET f == Top.file IN
        /\ Diagnose(Top.rd.conds # <<>>)
        /\ cache' = IF Top.mode = "primary" \/ cache[f].done THEN cache
                    ELSE [cache EXCEPT ![f].done = TRUE, ![f].guard = GuardFound(Top.rd)]
    /\ stack' = SubSeq(stack, 1, Len(stack) - 1)
    /\ UNCHANGED <<text, macros, out, asked>>

Next == \/ TextLine \/ SkipLine \/ NullDirective \/ Define \/ Undef \/ Other
        \/ OpenConditional \/ Elif \/ Else \/ Endif \/ PragmaOnce
        \/ IncludeTooDeep \/ IncludeSkipped \/ IncludeRead \/ EndOfFile

(* One sequential program: it takes its next step until none is left. *)
Spec == Init /\ [][Next]_vars /\ WF_vars(Next)

-----------------------------------------------------------------------------
(* A reading of the conditionals that needs no stack: the groups a line lies in
   are found by counting, and a group is read when its condition holds and no
   earlier one of its chain did.  met[i] is the macro table when line i was met. *)
DepthAt(ls, i) == Cardinality({j \in 1..(i - 1) : ls[j].op \in Opening})
                    - Cardinality({j \in 1..(i - 1) : ls[j].op = "endif"})

(* Line i belongs to the chain that line o opens. *)
Spans(ls, o, i) == /\ o < i /\ ls[o].op \in Opening
                   /\ \A j \in (o + 1)..i : DepthAt(ls, j) > DepthAt(ls, o)

(* The lines that start a group of o's chain, before line i. *)
Arms(ls, o, i) ==
    {o} \cup {a \in (o + 1)..(i - 1) : /\ ls[a].op \in {"elif", "else"}
                                      /\ Spans(ls, o, a)
                                      /\ DepthAt(ls, a) = DepthAt(ls, o) + 1}

Chosen(ls, a, met) == ls[a].op = "else" \/ Verdict(ls[a], met[a])

(* The group of o's chain that line i lies in is the one that is read. *)
GroupRead(ls, o, i, met) ==
    LET arms == Arms(ls, o, i)
    IN  \E last \in arms : /\ \A b \in arms : b <= last
                           /\ Chosen(ls, last, met)
                           /\ \A a \in arms \ {last} : ~Chosen(ls, a, met)

InReadGroups(ls, i, met) ==
    \A o \in 1..(i - 1) : Spans(ls, o, i) => GroupRead(ls, o, i, met)

(* Line i may stand where it does: an #endif closes, an arm belongs to a chain
   that has had no #else. *)
PlacedAt(ls, i) ==
    /\ ls[i].op = "endif" => DepthAt(ls, i) > 0
    /\ ls[i].op \in {"elif", "else"} =>
        /\ DepthAt(ls, i) > 0
        /\ \A o \in 1..(i - 1) :
            (Spans(ls, o, i) /\ DepthAt(ls, i) = DepthAt(ls, o) + 1)
                => \A a \in Arms(ls, o, i) : ls[a].op # "else"

WellNested(ls) == /\ DepthAt(ls, Len(ls) + 1) = 0
                  /\ \A i \in 1..Len(ls) : PlacedAt(ls, i)

(* With the macros as they are, reading the file again would do nothing: no line
   of it that does anything stands in a group that would be read. *)
Inert(ls, defined) ==
    \A i \in 1..Len(ls) :
        ls[i].op \notin Conditionals \cup {"null"}
            => ~InReadGroups(ls, i, [j \in 1..Len(ls) |-> defined])

-----------------------------------------------------------------------------
(* A line is kept or obeyed exactly when the conditionals around it say so: the
   flags on the stack agree with the counting reading, through nested chains,
   #elif after an untaken arm, and macros that change while the file is read. *)
LiveMatchesStructure ==
    (Running /\ ~AtEnd /\ WellNested(Lines) /\ Line.op \notin Conditionals)
        => (Live(Top.rd) <=> InReadGroups(Lines, Top.pc, Top.met))

(* A file that has been read has drawn a diagnostic about its conditionals exactly
   when they do not nest, whichever groups were skipped. *)
DiagnosedIffIllNested ==
    \A f \in Files : cache[f].done => (f \in nesting <=> ~WellNested(text[f]))

(* The multiple-include optimization is an optimization: a file skipped on account
   of its guard would have contributed nothing. *)
GuardSkipInvisible ==
    (/\ ReadingLive(Inclusions) /\ ~TooDeep
     /\ ~cache[Line.file].once
     /\ ~(Line.op = "import" /\ cache[Line.file].entered)
     /\ Guarded(Line.file)
     /\ WellNested(text[Line.file]))
        => Inert(text[Line.file], macros)

(* The include-guard idiom as the optimization needs it: a line outside every
   conditional that names a guard tests nothing else, no other such line names
   one, and its chain has no #elif. *)
NamesGuard(ls, o) == ls[o].op \in Opening /\ DepthAt(ls, o) = 0 /\ GuardNamed(ls[o]) # NoGuard

GuardIdiom(ls) ==
    \A o \in 1..Len(ls) : NamesGuard(ls, o) =>
        /\ ls[o].op = "if" => Len(ls[o].lits) = 1
        /\ \A p \in 1..Len(ls) : NamesGuard(ls, p) => p = o
        /\ \A a \in Arms(ls, o, Len(ls) + 1) : ls[a].op # "elif"

Idiomatic == \A f \in Files : GuardIdiom(text[f])

(* At most once: a file that was imported, or that has read its own #pragma once,
   is never read again, by any directive, from any file, even from inside itself. *)
OnceStands == [][\A f \in asked : cache'[f].reads = cache[f].reads]_vars

(* Every translation unit is read to its end, headers that include themselves too:
   the depth limit and the once marks stop every recursion. *)
Terminates == <>(stack = <<>>)
=============================================================================
