------------------------------ MODULE Features ------------------------------
(***************************************************************************)
(* The feature registry (pkg/feature): goroutines that register, remove    *)
(* and overwrite features, one by one or as a bundle.                      *)
(*                                                                         *)
(* Each method of Registry is one critical section.  Overwrite is three of *)
(* them, and the registration of a bundle one per feature.                 *)
(*                                                                         *)
(* A string is a text and whether it is spelled with upper-case letters.   *)
(* The two levels of the map are one function on pairs: a namespace that   *)
(* is missing and one that is empty differ in the wording of an error, and *)
(* in LookupAll, which like Size only reads.                               *)
(***************************************************************************)
EXTENDS Integers, SequencesExt

CONSTANTS
    Threads,
    Features,   \* [ns, name, factory, stability]
    Nil,        \* a factory that is nil
    Bundles,    \* sequences of features
    Requested   \* stabilities that Filter asks for

ASSUME FeaturesAssumption == Bundles \subseteq Seq(Features)

VARIABLES
    namespaces, \* Registry.namespaces
    call,       \* the call of each goroutine: its place, its argument, its result
    up,         \* no Must function has panicked
    known,      \* history: names that are registered, but for Unregister
    touched     \* history: names that others changed during the call

vars == <<namespaces, call, up, known, touched>>

Normalize(s) == [s EXCEPT !.upper = FALSE]

Key(ns, name) == <<Normalize(ns), Normalize(name)>>

KeyOf(f) == Key(f.ns, f.name)

Keys == {KeyOf(f) : f \in Features}

NoCall == [kind |-> "none", pc |-> "idle", todo |-> <<>>, given |-> <<>>, must |-> FALSE, result |-> "none"]

\* Keys are normalised, and belong to the features under them, which have a
\* factory.
TypeOK ==
    /\ DOMAIN namespaces \subseteq Keys
    /\ \A k \in DOMAIN namespaces : /\ namespaces[k] \in Features
                                    /\ KeyOf(namespaces[k]) = k
                                    /\ namespaces[k].factory # Nil
    /\ call \in [Threads -> [kind : {"none", "register", "overwrite", "bundle"},
                             pc : {"idle", "unregister", "register"},
                             todo : Seq(Features), given : Seq(Features),
                             must : BOOLEAN, result : {"none", "ok", "error"}]]
    /\ up \in BOOLEAN
    /\ known \subseteq Keys
    /\ touched \in [Threads -> SUBSET Keys]

Init ==
    /\ namespaces = [k \in {} |-> Nil]
    /\ call = [t \in Threads |-> NoCall]
    /\ up = TRUE
    /\ known = {}
    /\ touched = [t \in Threads |-> {}]

(***************************************************************************)
(* The methods of Registry.                                                *)
(***************************************************************************)

\* There is no safe way to compare functions: factories are global.
FeaturesEqual(f, g) == f.name = g.name /\ f.ns = g.ns /\ f.factory = g.factory

RegisterFails(f) ==
    \/ f.factory = Nil
    \/ KeyOf(f) \in DOMAIN namespaces /\ ~FeaturesEqual(f, namespaces[KeyOf(f)])

\* Mutant: the feature is stored under the name as it is spelled.
RegisteredRaw(f) ==
    IF RegisterFails(f) \/ KeyOf(f) \in DOMAIN namespaces THEN namespaces
    ELSE [k \in DOMAIN namespaces \cup {<<Normalize(f.ns), f.name>>} |->
            IF k = <<Normalize(f.ns), f.name>> THEN f ELSE namespaces[k]]

\* Registry.Register
Registered(f) ==
    IF RegisterFails(f) \/ KeyOf(f) \in DOMAIN namespaces THEN namespaces
    ELSE [k \in DOMAIN namespaces \cup {KeyOf(f)} |-> IF k = KeyOf(f) THEN f ELSE namespaces[k]]

\* Registry.Unregister: the name is taken as it is spelled.
UnregisterFails(ns, name) == <<Normalize(ns), name>> \notin DOMAIN namespaces

\* Mutant: the whole namespace is deleted.
UnregisteredNamespace(ns, name) ==
    [k \in {j \in DOMAIN namespaces : j[1] # Normalize(ns)} |-> namespaces[k]]

Unregistered(ns, name) ==
    [k \in DOMAIN namespaces \ {<<Normalize(ns), name>>} |-> namespaces[k]]

\* Registry.Lookup
Found(ns, name) == Key(ns, name) \in DOMAIN namespaces

(***************************************************************************)
(* Calls.                                                                  *)
(***************************************************************************)

\* The registry becomes m in a step of t; the other calls notice.
Change(t, m) ==
    LET changed == {k \in Keys : \/ (k \in DOMAIN namespaces) # (k \in DOMAIN m)
                                 \/ k \in DOMAIN m /\ m[k] # namespaces[k]}
    IN /\ namespaces' = m
       /\ touched' = [u \in Threads |-> IF u = t THEN touched[u] ELSE touched[u] \cup changed]

Fresh(t) == up /\ call[t].pc = "idle"

\* A Must function panics on error.
Return(t, fails) ==
    /\ call' = [call EXCEPT ![t] = [@ EXCEPT !.pc = "idle",
                                             !.result = IF fails THEN "error" ELSE "ok"]]
    /\ up' = ~(fails /\ call[t].must)

\* Unregister, called by itself: the name need not survive.
Unregister(t, f) ==
    /\ Fresh(t)
    /\ ~UnregisterFails(f.ns, f.name)
    /\ namespaces' = Unregistered(f.ns, f.name)
    /\ known' = known \ {KeyOf(f)}
    /\ call' = [call EXCEPT ![t] = NoCall]
    /\ touched' = [u \in Threads |-> IF u = t THEN {} ELSE touched[u] \cup {KeyOf(f)}]
    /\ UNCHANGED up

\* A call with a list of features begins.
Begin(t, kind, pc, fs, must) ==
    /\ Fresh(t)
    /\ call' = [call EXCEPT ![t] = [kind |-> kind, pc |-> pc, todo |-> fs, given |-> fs,
                                    must |-> must, result |-> "none"]]
    /\ touched' = [touched EXCEPT ![t] = {}]
    /\ UNCHANGED <<namespaces, up, known>>

\* Mutant: an existing feature is not looked for.
OverwriteRegisters(t, f) == Begin(t, "overwrite", "register", <<f>>, FALSE)

\* Overwrite, with its first critical section.
Overwrite(t, f) ==
    Begin(t, "overwrite", IF Found(f.ns, f.name) THEN "unregister" ELSE "register", <<f>>, FALSE)

\* Its second one, if the feature was found.
OverwriteUnregister(t) ==
    LET f == Head(call[t].todo)
    IN /\ up /\ call[t].pc = "unregister"
       /\ IF UnregisterFails(f.ns, f.name)
          THEN Return(t, TRUE) /\ UNCHANGED <<namespaces, touched, known>>
          ELSE /\ Change(t, Unregistered(f.ns, f.name))
               /\ call' = [call EXCEPT ![t].pc = "register"]
               /\ known' = IF f.factory = Nil THEN known \ {KeyOf(f)} ELSE known
               /\ UNCHANGED up

\* Its last one, and Register and MustRegister as a whole.
RegisterOne(t) ==
    LET f == Head(call[t].todo)
    IN /\ up /\ call[t].pc = "register" /\ call[t].kind # "bundle"
       /\ Change(t, Registered(f))
       /\ known' = known \cup DOMAIN namespaces'
       /\ Return(t, RegisterFails(f))

\* Mutant: the remaining features are registered all the same.
RegisterNextGoesOn(t) ==
    /\ up /\ call[t].pc = "register" /\ call[t].kind = "bundle" /\ call[t].todo # <<>>
    /\ Change(t, Registered(Head(call[t].todo)))
    /\ known' = known \cup DOMAIN namespaces'
    /\ call' = [call EXCEPT ![t].todo = Tail(@)]
    /\ UNCHANGED up

\* RegisterBundle: the next feature.  The first error ends it, and what was
\* registered before stays.
RegisterNext(t) ==
    LET f == Head(call[t].todo)
    IN /\ up /\ call[t].pc = "register" /\ call[t].kind = "bundle" /\ call[t].todo # <<>>
       /\ Change(t, Registered(f))
       /\ known' = known \cup DOMAIN namespaces'
       /\ IF RegisterFails(f) THEN Return(t, TRUE)
          ELSE call' = [call EXCEPT ![t].todo = Tail(@)] /\ UNCHANGED up

BundleDone(t) ==
    /\ up /\ call[t].pc = "register" /\ call[t].kind = "bundle" /\ call[t].todo = <<>>
    /\ Return(t, FALSE)
    /\ UNCHANGED <<namespaces, known, touched>>

(***************************************************************************)
(* Bundles.                                                                *)
(***************************************************************************)

HasStabilityPred(f) == f.stability \in Requested

Filter(b) ==
    LET filtered[i \in 0 .. Len(b)] ==
            IF i = 0 THEN <<>>
            ELSE IF HasStabilityPred(b[i]) THEN Append(filtered[i - 1], b[i])
            ELSE filtered[i - 1]
    IN filtered[Len(b)]

MustBundle(bs) == FlattenSeq(bs)

\* RegisterBundle and OverwriteBundle, which does the same, and their Must forms.
RegisterBundle(t) ==
    \E b, c \in Bundles, must \in BOOLEAN : Begin(t, "bundle", "register", Filter(MustBundle(<<b, c>>)), must)

Register(t) == \E f \in Features, must \in BOOLEAN : Begin(t, "register", "register", <<f>>, must)

Panicked == ~up /\ UNCHANGED vars

Next == \/ \E t \in Threads : \/ Register(t) \/ RegisterBundle(t)
                              \/ \E f \in Features : Unregister(t, f) \/ Overwrite(t, f)
                              \/ OverwriteUnregister(t) \/ RegisterOne(t)
                              \/ RegisterNext(t) \/ BundleDone(t)
        \/ Panicked

Spec == Init /\ [][Next]_vars

(***************************************************************************)
(* Properties.                                                             *)
(***************************************************************************)

\* A name that is registered stays registered, with one feature or another,
\* until Unregister is called for it: while Overwrite replaces a feature it is
\* missing for a moment, and any Register, Overwrite or Unregister may come in
\* between.  Only an Overwrite without a factory loses it.
NameSurvives ==
    up => \A k \in known : \/ k \in DOMAIN namespaces
                          \/ \E t \in Threads : /\ call[t].kind = "overwrite"
                                               /\ call[t].pc = "register"
                                               /\ KeyOf(call[t].todo[1]) = k
                                               /\ call[t].todo[1].factory # Nil

\* Overwrite of a feature with a factory and a normalised name fails only if
\* somebody else changed that name meanwhile.
OverwriteSucceeds ==
    \A t \in Threads : LET f == call[t].given[1]
                       IN /\ call[t].kind = "overwrite" /\ call[t].result = "error"
                          /\ f.factory # Nil /\ f.name = Normalize(f.name)
                          => KeyOf(f) \in touched[t]

\* The features of a bundle that are done, all of them when it has returned
\* without an error, are registered, but for names that somebody else has
\* changed since the call began.
BundleIsRegistered ==
    \A t \in Threads : call[t].kind = "bundle" =>
        \A i \in 1 .. Len(call[t].given) - Len(call[t].todo) :
            LET f == call[t].given[i]
            IN \/ KeyOf(f) \in touched[t]
               \/ KeyOf(f) \in DOMAIN namespaces /\ FeaturesEqual(f, namespaces[KeyOf(f)])
=============================================================================
