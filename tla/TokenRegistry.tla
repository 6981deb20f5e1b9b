---------------------------- MODULE TokenRegistry ----------------------------
(* The table of tokens: get_token and get_string of genet-abi with their two  *)
(* locks, the function pointers load_library sets in a plug-in's own copy of  *)
(* genet-abi, which has tables of its own, and the maps of token.js.          *)
EXTENDS Integers, Sequences, FiniteSets

CONSTANTS Names,      \* the strings tokens are made of, without ""
          Libraries,  \* plug-ins
          Kernel,     \* the copy of genet-abi the program is linked with
          Main,       \* the thread of JavaScript, which loads the plug-ins
          Workers,    \* threads of the decoders and the readers
          MaxCalls    \* bound: calls of each thread

Threads == Workers \union {Main}
Copies == Libraries \union {Kernel}
Empty == ""
Free == "free"

ASSUME RegistryAssumption ==
    /\ Kernel \notin Libraries /\ Main \notin Workers /\ Free \notin Threads
    /\ Empty \notin Names /\ IsFiniteSet(Names) /\ MaxCalls \in Nat

VARIABLES
    tokens,     \* GLOBAL_TOKENS of a copy: a name's token, 0 for none
    strings,    \* GLOBAL_STRINGS of a copy; index 0 is its first element
    tokensLock, stringsLock,
    pc,         \* where a thread is in its call
    call,       \* the copy called, by which library, the argument, the locals
    loaded,     \* load_library's steps done for a library; -1: rejected
    scriptTokens, scriptNames,   \* tokenMap and tokenReverseMap of token.js
    calls,      \* calls of a thread so far
    given,      \* history: the names and the tokens callers were given for them
    answers     \* history: what callers were told a token's name is

tableVars == <<tokens, strings>>
lockVars == <<tokensLock, stringsLock>>
scriptVars == <<scriptTokens, scriptNames>>
history == <<given, answers>>
vars == <<tableVars, lockVars, pc, call, loaded, scriptVars, calls, history>>

NoCall == [copy |-> Kernel, lib |-> Kernel, name |-> Empty, token |-> 0,
           next |-> 0, expected |-> {}]

Init ==
    /\ tokens = [c \in Copies |-> [n \in Names |-> 0]]
    /\ strings = [c \in Copies |-> <<Empty>>]
    /\ tokensLock = [c \in Copies |-> Free] /\ stringsLock = [c \in Copies |-> Free]
    /\ pc = [t \in Threads |-> "idle"] /\ call = [t \in Threads |-> NoCall]
    /\ loaded = [l \in Libraries |-> 0]
    /\ scriptTokens = [n \in Names |-> 0] /\ scriptNames = {}
    /\ calls = [t \in Threads |-> 0] /\ given = {} /\ answers = {}

---------------------------------------------------------------------------
(* load_library, on the main thread: the version, the three pointers, then    *)
(* the library's decoders, readers and writers, whose code may use tokens.    *)

\* Mutant of LoadSteps: the decoders are asked for first.
LoadStepsLate == <<"version", "decoders", "token", "string", "ready">>

LoadSteps == <<"version", "token", "string", "decoders", "ready">>

Done(l, step) == \E i \in 1..loaded[l] : LoadSteps[i] = step

\* A step; a wrong version is the end of it.
LoadStep(l) ==
    /\ pc[Main] = "idle" /\ loaded[l] \in 0..4
    /\ \/ loaded' = [loaded EXCEPT ![l] = @ + 1]
       \/ loaded[l] = 0 /\ loaded' = [loaded EXCEPT ![l] = -1]
    /\ UNCHANGED <<tableVars, lockVars, pc, call, scriptVars, calls, history>>

\* The copy the pointers of a library's copy lead to.
TokenCopy(l) == IF l \in Libraries /\ ~Done(l, "token") THEN l ELSE Kernel
StringCopy(l) == IF l \in Libraries /\ ~Done(l, "string") THEN l ELSE Kernel

\* The code a thread runs: the program's, or a library's, which runs on the
\* main thread while it is loaded and on the others from then on.
MayRun(t, l) ==
    l \in Libraries => Done(l, "ready") \/ (t = Main /\ Done(l, "decoders"))

---------------------------------------------------------------------------
(* Token::from *)

Give(name, token) == given' = given \union {[name |-> name, token |-> token]}

Begin(t) == /\ pc[t] = "idle" /\ calls[t] < MaxCalls
            /\ calls' = [calls EXCEPT ![t] = @ + 1]

\* env::token: the empty string is the null token; token.js has its own map.
GetKnown(t, name) ==
    /\ Begin(t)
    /\ \/ name = Empty /\ Give(name, 0)
       \/ t = Main /\ name # Empty /\ scriptTokens[name] # 0
          /\ Give(name, scriptTokens[name])
    /\ UNCHANGED <<tableVars, lockVars, pc, call, loaded, scriptVars, answers>>

GetToken(t, l, name) ==
    /\ Begin(t) /\ MayRun(t, l)
    /\ t = Main /\ l = Kernel => scriptTokens[name] = 0
    /\ pc' = [pc EXCEPT ![t] = "tokens"]
    /\ call' = [call EXCEPT ![t] = [NoCall EXCEPT !.copy = TokenCopy(l), !.lib = l,
                                                  !.name = name]]
    /\ UNCHANGED <<tableVars, lockVars, loaded, scriptVars, history>>

\* GLOBAL_TOKENS.lock(), and tokens.len() + 1.
LockTokens(t) ==
    /\ pc[t] = "tokens" /\ tokensLock[call[t].copy] = Free
    /\ tokensLock' = [tokensLock EXCEPT ![call[t].copy] = t]
    /\ call' = [call EXCEPT ![t].next =
                    Cardinality({n \in Names : tokens[call[t].copy][n] # 0}) + 1]
    /\ pc' = [pc EXCEPT ![t] = "strings"]
    /\ UNCHANGED <<tableVars, stringsLock, loaded, scriptVars, calls, history>>

\* GLOBAL_STRINGS.lock(), and the string of a vacant entry.
LockStrings(t) ==
    LET c == call[t].copy
    IN  /\ pc[t] = "strings" /\ stringsLock[c] = Free
        /\ stringsLock' = [stringsLock EXCEPT ![c] = t]
        /\ strings' = IF tokens[c][call[t].name] # 0 THEN strings
                      ELSE [strings EXCEPT ![c] = Append(@, call[t].name)]
        /\ pc' = [pc EXCEPT ![t] = "insert"]
        /\ UNCHANGED <<tokens, tokensLock, call, loaded, scriptVars, calls, history>>

\* or_insert_with, and both locks are released.
Insert(t) ==
    LET c == call[t].copy
        name == call[t].name
        token == IF tokens[c][name] # 0 THEN tokens[c][name] ELSE call[t].next
    IN  /\ pc[t] = "insert"
        /\ tokens' = [tokens EXCEPT ![c][name] = token]
        /\ tokensLock' = [tokensLock EXCEPT ![c] = Free]
        /\ stringsLock' = [stringsLock EXCEPT ![c] = Free]
        /\ Give(name, token)
        /\ scriptTokens' = IF t = Main /\ call[t].lib = Kernel
                           THEN [scriptTokens EXCEPT ![name] = token] ELSE scriptTokens
        /\ pc' = [pc EXCEPT ![t] = "idle"]
        /\ UNCHANGED <<strings, call, loaded, scriptNames, calls, answers>>

---------------------------------------------------------------------------
(* Token::to_string *)

NamesGiven(token) == {g.name : g \in {h \in given : h.token = token}}
ScriptName(token) == {s.name : s \in {r \in scriptNames : r.token = token}}
Answer(expected, name) ==
    answers' = answers \union {[expected |-> expected, name |-> name]}

\* env::string: the null token is the empty string; token.js has its own map.
NameKnown(t, token) ==
    /\ Begin(t)
    /\ \/ token = 0 /\ Answer({Empty}, Empty)
       \/ t = Main /\ token # 0
          /\ \E name \in ScriptName(token) : Answer(NamesGiven(token), name)
    /\ UNCHANGED <<tableVars, lockVars, pc, call, loaded, scriptVars, given>>

GetString(t, l, token) ==
    /\ Begin(t) /\ MayRun(t, l)
    /\ t = Main /\ l = Kernel => ScriptName(token) = {}
    /\ pc' = [pc EXCEPT ![t] = "lookup"]
    /\ call' = [call EXCEPT ![t] = [NoCall EXCEPT !.copy = StringCopy(l), !.lib = l,
                                    !.token = token, !.expected = NamesGiven(token)]]
    /\ UNCHANGED <<tableVars, lockVars, loaded, scriptVars, history>>

\* Mutant of LookUp: both tables are locked, the strings first.
LookUpBoth(t) ==
    LET c == call[t].copy
    IN  /\ \/ /\ pc[t] = "lookup" /\ stringsLock[c] = Free
              /\ stringsLock' = [stringsLock EXCEPT ![c] = t]
              /\ pc' = [pc EXCEPT ![t] = "lookup2"]
           \/ /\ pc[t] = "lookup2" /\ tokensLock[c] = Free
              /\ stringsLock' = [stringsLock EXCEPT ![c] = Free]
              /\ pc' = [pc EXCEPT ![t] =
                            IF call[t].token < Len(strings[c]) THEN "copy" ELSE "unknown"]
        /\ UNCHANGED <<tableVars, tokensLock, call, loaded, scriptVars, calls, history>>

\* abi_genet_get_string: under the lock, the address of the string; beyond the
\* table, of an empty one.  Nothing else happens before the lock is released.
LookUp(t) ==
    /\ pc[t] = "lookup" /\ stringsLock[call[t].copy] = Free
    /\ pc' = [pc EXCEPT ![t] =
                 IF call[t].token < Len(strings[call[t].copy]) THEN "copy" ELSE "unknown"]
    /\ UNCHANGED <<tableVars, lockVars, call, loaded, scriptVars, calls, history>>

\* Mutant of Remember: token.js keeps an unknown token's empty string as well.
RememberAll(t, name) ==
    scriptNames' = IF t = Main /\ call[t].lib = Kernel
                   THEN scriptNames \union {[token |-> call[t].token, name |-> name]}
                   ELSE scriptNames

\* token.js: only a string that is not empty is kept.
Remember(t, name) ==
    scriptNames' = IF t = Main /\ call[t].lib = Kernel /\ name # Empty
                   THEN scriptNames \union {[token |-> call[t].token, name |-> name]}
                   ELSE scriptNames

\* to_string() copies from that address after the lock is released.
CopyString(t) ==
    /\ pc[t] \in {"copy", "unknown"}
    /\ LET name == IF pc[t] = "copy" THEN strings[call[t].copy][call[t].token + 1]
                                     ELSE Empty
       IN  Answer(call[t].expected, name) /\ Remember(t, name)
    /\ pc' = [pc EXCEPT ![t] = "idle"]
    /\ UNCHANGED <<tableVars, lockVars, call, loaded, scriptTokens, calls, given>>

---------------------------------------------------------------------------

\* Tokens a caller may ask for: those it could have been given, and others.
Askable == 0..(Cardinality(Names) + 1)

Continue(t) == LockTokens(t) \/ LockStrings(t) \/ Insert(t) \/ LookUp(t) \/ CopyString(t)
Start(t) ==
    \/ \E name \in Names \union {Empty} : GetKnown(t, name)
    \/ \E token \in Askable : NameKnown(t, token)
    \/ \E l \in Copies : \/ \E name \in Names : GetToken(t, l, name)
                         \/ \E token \in Askable \ {0} : GetString(t, l, token)

Next == (\E t \in Threads : Start(t) \/ Continue(t)) \/ \E l \in Libraries : LoadStep(l)

\* A thread that has begun a call goes on with it.
Spec == Init /\ [][Next]_vars /\ \A t \in Threads : WF_vars(Continue(t))

---------------------------------------------------------------------------
(* Properties *)

\* A token is a constant of the process (genet-sdk/src/token.rs): whichever
\* threads and plug-ins ask, and whenever, a string has one token, and two
\* strings never have the same.
OneToken ==
    \A g, h \in given : g.name = h.name <=> g.token = h.token

\* Whoever asks for the name of a token that somebody was given before is told
\* that name, although the string is copied without the lock and JavaScript
\* remembers what it was told.
NamesComeBack ==
    \A a \in answers : a.expected # {} => a.expected = {a.name}

\* No two threads wait for each other's lock.
CallsReturn == \A t \in Threads : pc[t] # "idle" ~> pc[t] = "idle"
=============================================================================
