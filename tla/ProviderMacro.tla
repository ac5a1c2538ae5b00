---------------------------- MODULE ProviderMacro ----------------------------
(***************************************************************************)
(* #[provider]: parsing the attribute (provider/parser.rs), choosing the     *)
(* expansion (provider/mod.rs, struct_gen.rs, templates/) and what the two   *)
(* constructors it emits do at run time, the framework one behind resolve()  *)
(* and the managed one behind resolve_managed().                             *)
(*                                                                          *)
(* A declaration is an item (a struct or a function), a primary argument and *)
(* named arguments in the order they are written.  Types are reduced to the  *)
(* wrapper decompose_type finds: "Arc", "ArcRwLock", "ArcMutex", or "Plain". *)
(***************************************************************************)
EXTENDS Integers, Sequences, FiniteSets

CONSTANT MaxNamed       \* bound: named arguments of one attribute

ASSUME NamedAssumption == MaxNamed \in Nat

VARIABLES
    decl,       \* the declaration being expanded
    step,       \* "primary", "named", "expand", "done" or "error"
    rest,       \* the named arguments not parsed yet
    args,       \* ProviderArgs
    output      \* the expansion

jvars == <<decl, step, rest, args, output>>

Wrappers == {"Arc", "ArcRwLock", "ArcMutex"}
AddrTemplates == {"Listen", "UnixListen", "UnixConnect"}
Templates == AddrTemplates \cup {"Notify", "Queue"}

\* env = "..", capacity = N, eager = b, and a key the macro does not know.
NamedArgs ==
    [key : {"env"}, val : {"str"}] \cup [key : {"capacity"}, val : {"zero", "num", "str"}]
        \cup [key : {"eager"}, val : {"true", "false"}] \cup [key : {"other"}, val : {"str"}]
NamedLists == UNION {[1 .. n -> NamedArgs] : n \in 0 .. MaxNamed}

\* The types of the fields, or of the parameters.
TypeLists == UNION {[1 .. n -> Wrappers \cup {"Plain"}] : n \in 0 .. 2}
\* The places of those that are injected; they are taken in order.
Injected(types) == {n \in DOMAIN types : types[n] \in Wrappers}

Items ==
    [item : {"unit", "tuple"}, string : {FALSE}, types : {<<>>}, fallible : {FALSE}]
        \cup [item : {"tuple"}, string : {TRUE}, types : {<<>>}, fallible : {FALSE}]
        \cup [item : {"named"}, string : {FALSE}, types : TypeLists,
              fallible : {FALSE}]
        \cup [item : {"fn"}, string : {FALSE}, types : TypeLists,
              fallible : BOOLEAN]
Primaries ==
    [kind : {"Empty", "named", "expr"}, name : {"-"}, paren : {"-"}]
        \cup [kind : {"Template"}, name : Templates, paren : {"none", "type", "str", "extra"}]

Declared(i, p, l) ==
    /\ decl = [i |-> i, p |-> p, l |-> l]
    /\ step = "primary" /\ rest = l
    /\ args = [kind |-> "Empty", arg |-> "none", env |-> FALSE, capacity |-> -1,
               eager |-> FALSE, eagerSeen |-> FALSE]
    /\ output = [ctor |-> "none", style |-> "none", params |-> {}, capacity |-> 0, eager |-> FALSE]

JInit ==
    \E i \in Items, p \in Primaries, l \in NamedLists :
        /\ p.kind = "Empty" => l = <<>>
        /\ p.kind = "named" => l # <<>>
        /\ Declared(i, p, l)

(* --------------------------------- parser -------------------------------- *)

\* template_takes_addr decides what the parentheses are parsed as; whatever
\* follows in them is refused.
ParenParses(p) ==
    p.paren \in {"none", IF p.name \in AddrTemplates THEN "str" ELSE "type"}

\* Phase 1.  A name that is no template and is followed by no "=" is a value.
ParsePrimary ==
    /\ step = "primary"
    /\ LET p == decl.p IN
       IF p.kind = "Template" /\ ~ParenParses(p)
         THEN step' = "error" /\ UNCHANGED args
         ELSE /\ args' = [args EXCEPT !.kind = CASE p.kind = "named" -> "ValueNone"
                                                 [] p.kind = "expr" -> "ValueDefault"
                                                 [] OTHER -> p.kind,
                                      !.arg = IF p.kind = "Template" THEN p.paren ELSE "none"]
              /\ step' = IF p.kind = "Empty" THEN "expand" ELSE "named"
    /\ UNCHANGED <<decl, rest, output>>

\* set_once, set_eager, parse_capacity_literal: kind "refused" is an Err.
Store(a, x) ==
    CASE x.key = "env" /\ ~a.env -> [a EXCEPT !.env = TRUE]
      [] x.key = "capacity" /\ a.capacity = -1 /\ x.val = "num" -> [a EXCEPT !.capacity = 5]
      [] x.key = "eager" /\ ~a.eagerSeen -> [a EXCEPT !.eager = (x.val = "true"), !.eagerSeen = TRUE]
      [] OTHER -> [a EXCEPT !.kind = "refused"]

\* One turn of parse_trailing_attrs (the first key of a named-only attribute is
\* handled alike), and its end.
ParseNamed ==
    /\ step = "named"
    /\ IF rest = <<>>
         THEN /\ step' = IF args.capacity # -1 /\ args.kind \in {"ValueNone", "ValueDefault"}
                           THEN "error" ELSE "expand"
              /\ UNCHANGED <<args, rest>>
         ELSE /\ args' = Store(args, Head(rest)) /\ rest' = Tail(rest)
              /\ step' = IF args'.kind = "refused" THEN "error" ELSE "named"
    /\ UNCHANGED <<decl, output>>

(* -------------------------------- expansion ------------------------------ *)

\* Signals and queues: Default, in memory.
MemoryTemplate(name) ==
    [ctor |-> "default", style |-> "Infallible", params |-> {},
     capacity |-> IF name # "Queue" THEN 0 ELSE IF args.capacity = -1 THEN 100 ELSE args.capacity,
     eager |-> args.eager]

\* Listeners and the client: fallible, and an address is required.
AddrTemplate(name) ==
    [ctor |-> name, style |-> "Fallible", params |-> {}, capacity |-> 0, eager |-> args.eager]

Template ==
    LET name == decl.p.name IN
    IF name \in AddrTemplates /\ args.arg # "str"
      THEN step' = "error" /\ UNCHANGED output
      ELSE /\ step' = "done"
           /\ output' = IF name \in AddrTemplates THEN AddrTemplate(name) ELSE MemoryTemplate(name)

\* required_env_value_provider
RequiredEnv == decl.i.item = "tuple" /\ args.kind = "ValueNone" /\ args.env

\* The dependencies the registry entry names, for validation and eager order.
ParamEntries(types) == Injected(types)

HelperStyle(i) ==
    IF \/ RequiredEnv
       \/ i.item = "named" /\ Injected(i.types) # {}
       \/ i.item = "fn" /\ (i.fallible \/ ParamEntries(i.types) # {})
      THEN "Fallible" ELSE "Infallible"

\* generate_struct_provider without a template.
Struct ==
    /\ step' = "done"
    /\ output' = [ctor |-> CASE RequiredEnv -> "requiredEnv" [] decl.i.item = "named" -> "fields"
                             [] OTHER -> "default",
                  style |-> HelperStyle(decl.i), params |-> ParamEntries(decl.i.types),
                  capacity |-> 0, eager |-> args.eager]

\* generate_async_fn_provider: only eager is used of the arguments.
Function ==
    IF Injected(decl.i.types) # DOMAIN decl.i.types
      THEN step' = "error" /\ UNCHANGED output
      ELSE /\ step' = "done"
           /\ output' = [ctor |-> "fn", style |-> HelperStyle(decl.i),
                         params |-> ParamEntries(decl.i.types), capacity |-> 0, eager |-> args.eager]

Expand ==
    /\ step = "expand"
    /\ IF decl.i.item = "fn" THEN Function ELSE IF args.kind = "Template" THEN Template ELSE Struct
    /\ UNCHANGED <<decl, rest, args>>

(* ------------------------------- at run time ----------------------------- *)

\* What a constructor may return, told apart by where it comes from.
Values == {"env", "default", "built"}

\* The environment variable, what resolving a dependency gives, and what the
\* bind, the probe or the provider function gives (a bind does not panic: there
\* "panic" is one more fatal error).  All dependencies fare alike.
Worlds == [env : {"unset", "good", "bad"}, dep : {"ok", "retryable", "fatal"},
           own : {"ok", "retryable", "fatal", "panic"}]

\* std::env::var(..) and, unless the field is a String, parse()
EnvParses(w) == w.env = "good" \/ (w.env = "bad" /\ decl.i.string)

\* The generated Default.
DefaultValue(w) ==
    IF args.kind = "ValueDefault" /\ args.env /\ decl.i.item = "tuple" /\ EnvParses(w)
      THEN "env" ELSE "default"

\* Address templates: any value the variable has is tried.
AddressOf(w) == IF args.env /\ w.env # "unset" THEN "env" ELSE "default"

First(places) == CHOOSE n \in places : \A m \in places : n <= m

\* What the constructors resolve, in field or parameter order.
Resolved == IF output.ctor \in {"fields", "fn"} THEN Injected(decl.i.types) ELSE {}

\* What the provider's own code does: fields are put together, and a function without a
\* Result returns no error.
Own(w) ==
    IF output.ctor = "fields" \/ (~decl.i.fallible /\ w.own \in {"retryable", "fatal"})
      THEN "ok" ELSE w.own

\* The framework constructor, under catch_init_panic; a retryable failure is
\* tried again by init_fallible.
Framework(w) ==
    CASE output.ctor = "requiredEnv" -> IF EnvParses(w) THEN "env" ELSE "fatal"
      [] output.ctor = "default" -> DefaultValue(w)
      [] output.ctor \in {"fields", "fn"} ->
            IF Resolved # {} /\ w.dep # "ok" THEN "dependency"
            ELSE (CASE Own(w) = "ok" -> "built" [] Own(w) = "retryable" -> "retrying"
                    [] OTHER -> Own(w))
      [] OTHER -> (CASE w.own = "ok" -> AddressOf(w) [] w.own = "retryable" -> "retrying"
                     [] OTHER -> "fatal")

\* Mutant of Managed: the managed constructor of a value provider.
ManagedDefaults(w) ==
    CASE output.ctor \in {"requiredEnv", "default"} -> DefaultValue(w)
      [] output.ctor \in {"fields", "fn"} /\ Resolved # {} /\ w.dep # "ok" -> "fatal"
      [] OTHER -> Framework(w)

\* The managed constructor: one attempt, panics not caught, and the failure of a
\* lock-wrapped dependency always fatal.
Managed(w) ==
    CASE output.ctor = "requiredEnv" -> IF EnvParses(w) THEN "env" ELSE "fatal"
      [] output.ctor = "default" -> DefaultValue(w)
      [] output.ctor \in {"fields", "fn"} ->
            IF Resolved # {} /\ w.dep # "ok"
              THEN IF decl.i.types[First(Resolved)] = "Arc" THEN w.dep ELSE "fatal"
              ELSE IF Own(w) = "ok" THEN "built" ELSE Own(w)
      [] OTHER -> IF w.own = "ok" THEN AddressOf(w) ELSE IF w.own = "panic" THEN "fatal" ELSE w.own

\* Provided::resolve, resolve_rwlock and resolve_mutex: a panic is caught and fatal.
Resolve(w) == IF Framework(w) = "panic" THEN "fatal" ELSE Framework(w)

\* The direct helpers: Infallible ones have no Result and panic on an error.
Helper(w) ==
    IF output.style = "Infallible" /\ Resolve(w) \notin Values THEN "panic" ELSE Resolve(w)

(* ----------------------------- specification ----------------------------- *)

JNext == ParsePrimary \/ ParseNamed \/ Expand

JSpec == JInit /\ [][JNext]_jvars

(* ------------------------------ properties ------------------------------ *)

Count(k) == Cardinality({n \in 1 .. Len(decl.l) : decl.l[n].key = k})
Written(k, v) == \E n \in 1 .. Len(decl.l) : decl.l[n] = [key |-> k, val |-> v]

\* An attribute is accepted exactly when it reads unambiguously (no key twice or
\* unknown, a positive capacity and not on a value, parentheses of the right
\* kind), and then means what is written, in whatever order it is written.
AcceptedAsWritten ==
    LET p == decl.p
        clear == /\ \A k \in {"env", "capacity", "eager"} : Count(k) <= 1
                 /\ Count("other") = 0 /\ ~Written("capacity", "zero") /\ ~Written("capacity", "str")
                 /\ Count("capacity") = 1 => p.kind = "Template"
                 /\ p.kind = "Template" => ParenParses(p)
    IN  /\ step \in {"expand", "done"} =>
            /\ clear
            /\ args.env = (Count("env") = 1) /\ args.eager = Written("eager", "true")
            /\ args.capacity = IF Count("capacity") = 1 THEN 5 ELSE -1
        /\ step = "error" =>
            \/ ~clear
            \/ decl.i.item = "fn" /\ Injected(decl.i.types) # DOMAIN decl.i.types
            \/ decl.i.item # "fn" /\ p.name \in AddrTemplates /\ p.paren = "none"

\* What #[provider] generates hangs together.  Its attribute means what is written;
\* the registry entry names every dependency the constructors resolve, which cycle
\* detection and the eager order rest on; where one of resolve() and
\* resolve_managed() succeeds so does the other, with the same value; and a direct
\* helper panics only where the provider's own code does.
ProviderFaithful ==
    /\ AcceptedAsWritten
    /\ step = "done" =>
         /\ Resolved = output.params
         /\ \A w \in Worlds :
              /\ (Resolve(w) \in Values \/ Managed(w) \in Values) => Resolve(w) = Managed(w)
              /\ Helper(w) = "panic" => w.own = "panic"
=============================================================================
