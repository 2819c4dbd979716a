----------------------------- MODULE ObjectInit -----------------------------
(***************************************************************************)
(* A declaration with an initializer, from the analyzer's completion of    *)
(* its type (analyzer/decl.go) to the object: written into automatic       *)
(* storage (lower/stmt.go) or built as a value (lower/decl.go).  The       *)
(* program writes the initializer item by item; what is legal is           *)
(* InitRules's to say.                                                     *)
(***************************************************************************)
EXTENDS Initializers

CONSTANTS
    Objects,   \* declared types with what their initializers are written of:
               \* [t, desigs, vals]
    MaxItems,  \* bound: items in the outer brace
    Shapes     \* the initializers set apart: see SetApart

VARIABLES
    decl,      \* the declaration: a member of Objects
    init,      \* its initializer so far
    object     \* what became of it: the completed type and the cells

vars == <<decl, init, object>>

Local == INSTANCE LocalInit
Const == INSTANCE ConstInit
Rules == INSTANCE InitRules

\* The expressions of an item are known by the item's number.
RECURSIVE Numbered(_, _)
Numbered(v, n) ==
    IF v.v # "list" THEN [v EXCEPT !.id = n]
    ELSE [v EXCEPT !.items = [k \in DOMAIN @ |-> [@[k] EXCEPT !.val = Numbered(@, n * 10 + k)]]]

\* What the declaration's length is when the standard counts: enough elements
\* for the furthest position (p22).
Longest == 9
Declared(t, n) == IF IsArray(t) /\ t.len = -1 THEN [t EXCEPT !.len = n] ELSE t
StandardLength(v) == Rules!Standard(Declared(decl.t, Longest), v).reach
StandardType(v) == Declared(decl.t, StandardLength(v))
Legal(v) == ~Rules!Standard(Declared(decl.t, Longest), v).bad

----------------------------------------------------------------------------
(* The initializers that one of the walks does not read as the standard    *)
(* does, by where their items go.                                          *)

Root == Declared(decl.t, Longest)
TypeAt(p) == Rules!At(Root, p)
Within(p) == TypeAt(Front(p))
IsBit(p) == p # <<>> /\ IsRecord(Within(p)) /\ Within(p).fields[Last(p)].bit

\* The aggregates an item passes on the way down to where it goes.
Passed(e) == {TypeAt(SubSeq(e.place, 1, n)) : n \in Len(e.from) .. Len(e.place) - 1}

\* Both walks refuse a bit-field's value in braces: no list is an expression.
Refused(v) == \E e \in ToSet(Rules!Standard(Root, v).log) : IsBit(e.place) /\ e.it.val.v = "list"

\* Two bit-fields of one run, of one record.
OneRun(p, q) == IsBit(p) /\ IsBit(q) /\ Front(p) = Front(q)
                /\ Const!RangeOf(Within(p), Last(p)) = Const!RangeOf(Within(p), Last(q))

RECURSIVE UnnamedBits(_)
UnnamedBits(t) ==
    CASE IsArray(t)  -> UnnamedBits(t.elem)
      [] IsRecord(t) -> \E f \in ToSet(t.fields) : (f.bit /\ f.name = "" /\ f.width > 0) \/ UnnamedBits(f.t)
      [] OTHER       -> FALSE

SetApart(v) ==
    LET log  == Rules!Standard(Root, v).log
        pairs == {<<j, k>> \in (DOMAIN log) \X (DOMAIN log) : j < k}
        desig(k) == log[k].it.desig
        val(k)   == log[k].it.val
        indices(k) == SelectSeq(desig(k), LAMBDA d : d.d = "index")
    IN  \* char s[4] = {"abc"}: the characters' address is converted to a char.
        \/ /\ "braced string" \notin Shapes
           /\ \/ v.v = "list" /\ Rules!IsCharArray(Root) /\ Rules!StringIn(v).v = "string"
              \/ \E k \in DOMAIN log : /\ val(k).v = "list" /\ Rules!StringIn(val(k)).v = "string"
                                       /\ Rules!IsCharArray(TypeAt(log[k].place))
        \* struct { char *a[2]; } = {"x", "y"}: the characters go into the array.
        \/ /\ "string in pointers" \notin Shapes
           /\ \E k \in DOMAIN log : val(k).v = "string"
                                    /\ \E t \in Passed(log[k]) : IsArray(t)
        \* An unnamed bit-field takes an item.
        \/ "unnamed bit-field" \notin Shapes /\ UnnamedBits(decl.t)
        \* {.s.a = 1, .b = 2}, a a bit-field and b a member of s too.
        \/ /\ "designator after bits" \notin Shapes
           /\ \E <<j, k>> \in pairs :
                 /\ k = j + 1 /\ IsBit(log[j].place) /\ Len(log[j].place) > Len(log[j].brace) + 1
                 /\ desig(k) # <<>> /\ desig(k)[1].d = "field"
                 /\ FindField(Within(log[j].place), desig(k)[1].name)
        \* {.a = 5, .a = 2} and {.s.a = 1, .s.b = 2}, a and b bit-fields: a
        \* static object or's the first, and starts the run again in the second.
        \/ /\ "bits again" \notin Shapes
           /\ \E <<j, k>> \in pairs :
                 /\ OneRun(log[j].place, log[k].place)
                 /\ \/ log[j].place = log[k].place
                    \/ /\ Len(log[k].place) > Len(log[k].brace) + 1
                       /\ \E n \in j + 1 .. k : desig(n) # <<>>
        \* {in, 1, 2} for a record whose first member's first member is an in.
        \/ /\ "record in first" \notin Shapes
           /\ \E k \in DOMAIN log : val(k).v = "record" /\ \E t \in Passed(log[k]) : IsRecord(t)
        \* union u = {.a = 1, .b = 2}: the walk ends with the first.
        \/ /\ "union twice" \notin Shapes
           /\ \E <<j, k>> \in pairs : /\ log[j].brace = log[k].brace
                                      /\ IsRecord(TypeAt(log[k].brace)) /\ TypeAt(log[k].brace).union
        \* {.s = "abc", .s[1] = 'X'}: a static object keeps the X alone.
        \/ /\ "string again" \notin Shapes
           /\ \E <<j, k>> \in pairs : /\ val(j).v = "string" /\ Rules!IsCharArray(TypeAt(log[j].place))
                                      /\ Rules!Under(log[k].place, log[j].place)
        \* int m[][2] = {1, 2, 3, 4} and {[0].a[3] = 1}: the length is counted
        \* in items, and an inner index counts.
        \/ /\ "length" \notin Shapes /\ IsArray(decl.t) /\ decl.t.len = -1
           /\ \/ "braced string" \in Shapes /\ Rules!IsCharArray(Root)
              \/ \E k \in DOMAIN log : \/ Len(indices(k)) > 1
                                       \/ desig(k) = <<>> /\ Len(log[k].place) > 1

----------------------------------------------------------------------------

Writing == object.storage = "none"

\* The program adds an item to the outer brace, or writes a string bare.
Write == \E d \in decl.desigs, x \in decl.vals :
    /\ Writing /\ init.v = "list" /\ Len(init.items) < MaxItems
    /\ LET more == [init EXCEPT !.items = Append(@, [desig |-> d, val |-> Numbered(x, Len(init.items) + 1)])]
       IN  Legal(more) /\ ~Refused(more) /\ ~SetApart(more) /\ init' = more
    /\ UNCHANGED <<decl, object>>

WriteString == \E x \in decl.vals :
    /\ Writing /\ init.v = "list" /\ init.items = <<>>
    /\ x.v = "string" /\ Rules!IsCharArray(Root)
    /\ init' = Numbered(x, 1)
    /\ UNCHANGED <<decl, object>>

Ready == Writing /\ (init.v = "list" => init.items # <<>>)

\* A local object: storage that held anything is written to.
Junk == <<-1, 0>>
DeclareLocal ==
    /\ Ready
    /\ LET t == CompleteArray(decl.t, init)
       IN  object' = [storage |-> "local", t |-> t,
                      cells |-> Local!InitLocal([x \in 0 .. SizeOf(t) - 1 |-> Junk], 0, t, init)]
    /\ UNCHANGED <<decl, init>>

\* A static object: its value is folded, and has the object's cells.  A value
\* of record type is refused there, for no constant has one.
RECURSIVE HasRecord(_)
HasRecord(v) == v.v = "record" \/ (v.v = "list" /\ \E it \in ToSet(v.items) : HasRecord(it.val))

DeclareStatic ==
    /\ Ready /\ ~HasRecord(init)
    /\ LET t == CompleteArray(decl.t, init)
       IN  object' = [storage |-> "static", t |-> t, cells |-> Const!Cells(Const!InitConst(init, t), t)]
    /\ UNCHANGED <<decl, init>>

Init == /\ decl \in Objects
        /\ init = [v |-> "list", items |-> <<>>]
        /\ object = [storage |-> "none"]

Next == Write \/ WriteString \/ DeclareLocal \/ DeclareStatic

Spec == Init /\ [][Next]_vars

----------------------------------------------------------------------------
(* Properties.                                                             *)

\* An array without a length gets the one that holds every element its
\* initializer gives a value to, however its braces are left out.
LengthInferred ==
    object.storage # "none" /\ IsArray(decl.t) /\ decl.t.len = -1
    => object.t.len = (IF init.v = "string" THEN init.len + 1 ELSE StandardLength(init))

AsStandard(Reads(_, _)) ==
    LET t == object.t
        o == Rules!Standard(t, init)
    IN  \A l \in Rules!Readable(o, t) : Reads(Rules!CellOf(t, l), o.val[l])

\* Whatever mix of braces left out, designators and overriding an initializer
\* is, every member of an automatic object that can be read holds the item the
\* standard gives it, and zero if it gives none (lower/init.go's walk), and an
\* object of any storage has room for them.
LocalAsStandard ==
    /\ LengthInferred
    /\ object.storage = "local" => AsStandard(LAMBDA x, v : object.cells[x] = v)

\* The same of the value built for a static object (lower/constinit.go's walk,
\* which keeps what an earlier designation built where a later one adds).
StaticAsStandard ==
    object.storage = "static"
    => AsStandard(LAMBDA x, v : object.cells[x + 1] = IF v = Zero THEN {} ELSE {v})
=============================================================================
