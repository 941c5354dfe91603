---------------------------- MODULE StoresProofs ----------------------------
(***************************************************************************)
(* Theorems about where passphrases are kept and how they are asked for,   *)
(* for any number of shells, clients and askers, of items and of           *)
(* misfortunes: the Secret Service, the prompters, and the stores driven   *)
(* by a command or a library.                                              *)
(***************************************************************************)
EXTENDS MCWallets, FiniteSetTheorems, TLAPS

(* The bounds of the three models are numbers.                             *)
LEMMA StoresBounds ==
    /\ MaxItems \in Nat /\ MaxFailures \in Nat /\ MaxOutside \in Nat
    /\ MaxSsCalls \in Nat /\ MaxCollections \in Nat /\ MaxSsFailures \in Nat
    /\ MaxUnlucky \in Nat
BY WalletsAssumption, SecretServiceAssumption, PromptsAssumption

-----------------------------------------------------------------------------
(* The prompters.                                                          *)

(* A dialog is asked at its place in a chain, and a chain is short.         *)
Chosen == prChain # <<"unknown">>
ChainLength == Len(prChain)
AtItsDialog(a) ==
    /\ prAt[a] # "idle" => Chosen
    /\ prAt[a] = "dialog" => prDialog[a] \in 0..ChainLength

(* Past the opening of the terminal.                                       *)
Talking(a) == prAt[a] \in OnTerminal \ {"open"}

(* What was found is what is put back: where one asks at a time, a terminal *)
(* that hides what is typed has one on it who found that it did not.       *)
OneAtATerminal == ~prShared => \A a, b \in Askers : Talking(a) /\ Talking(b) => a = b
OnlySecretsHide == \A a \in Askers : prAt[a] \in {"look", "hide"} => prSecret[a]
HiddenByOne ==
    ~prShared /\ ~prKilled =>
        /\ prEcho \/ \E a \in Askers : prAt[a] \in {"write", "read", "restore"} /\ prSecret[a]
        /\ \A a \in Askers : prAt[a] \in {"hide", "write", "read", "restore"} /\ prSecret[a] => prFound[a]

PromptsSound ==
    /\ ChainLength \in 0..3 /\ \A a \in Askers : AtItsDialog(a)
    /\ OneAtATerminal /\ OnlySecretsHide /\ HiddenByOne

LEMMA ChainsAreShort ==
    ASSUME NEW chain \in Chains
    PROVE  Len(chain) \in 0..3
<1> SUFFICES ASSUME NEW dialogs \in {LinuxDialogs, DarwinDialogs, WindowsDialogs},
                    chain \in Graphical(dialogs)
             PROVE  Len(chain) \in 0..3
  BY DEF Chains
<1>1. Len(dialogs) \in 0..3
  BY DEF LinuxDialogs, DarwinDialogs, WindowsDialogs
<1>0. \A n \in 0..3 : n \in Nat /\ \A i \in 0..n : i \in 0..3
  OBVIOUS
<1>2. CASE chain = <<>>
  BY <1>2
<1>3. CASE chain \in NamedDialog(dialogs)
  BY <1>3 DEF NamedDialog
<1>4. CASE chain \in ChooseDialog(dialogs)
  <2>1. PICK n \in 0..Len(dialogs) : \E able \in [1..n -> DOMAIN dialogs] :
           chain = [i \in 1..n |-> dialogs[able[i]]]
    BY <1>4 DEF ChooseDialog
  <2>2. n \in Nat /\ n \in 0..3
    BY <1>0, <1>1, <2>1
  <2>3. Len(chain) = n
    BY <2>1, <2>2
  <2> QED BY <2>2, <2>3
<1> QED BY <1>2, <1>3, <1>4 DEF Graphical

LEMMA InitPrompts == PromptsInit => PromptsTypeOK /\ PromptsSound
<1> SUFFICES ASSUME PromptsInit PROVE PromptsTypeOK /\ PromptsSound
  OBVIOUS
<1>1. ChainLength \in 0..3
  BY DEF PromptsInit, ChainLength
<1>2. PromptsTypeOK
  <2>1. prChain \in Chains \cup {<<"unknown">>}
    BY Zenon DEF PromptsInit
  <2>2. prUnlucky \in 0..MaxUnlucky /\ prDialog \in [Askers -> 0..4]
    BY StoresBounds DEF PromptsInit
  <2>3. /\ prEcho \in BOOLEAN /\ {prShared, prKilled} \subseteq BOOLEAN
        /\ prSecret \in [Askers -> BOOLEAN] /\ prFound \in [Askers -> BOOLEAN]
    BY Zenon DEF PromptsInit
  <2>4. /\ prAt \in [Askers -> OnTerminal \cup {"idle", "dialog", "done"}]
        /\ prResult \in [Askers -> {"none", "answered", "canceled", "no_terminal", "error", "killed"}]
        /\ prRefused \subseteq Askers
    BY DEF PromptsInit
  <2> QED BY <2>1, <2>2, <2>3, <2>4 DEF PromptsTypeOK
<1>3. \A a \in Askers : prAt[a] = "idle"
  BY DEF PromptsInit
<1>4. OneAtATerminal /\ OnlySecretsHide /\ \A a \in Askers : AtItsDialog(a)
  BY <1>3 DEF OneAtATerminal, OnlySecretsHide, AtItsDialog, Talking, OnTerminal
<1>5. HiddenByOne
  BY <1>3 DEF HiddenByOne, PromptsInit
<1> QED BY <1>1, <1>2, <1>4, <1>5 DEF PromptsSound

PromptSteps == OnTerminal \cup {"idle", "dialog", "done"}

(* The chain, and where in it one asks.                                    *)
LEMMA NextChain ==
    ASSUME PromptsTypeOK, PromptsSound, PromptsNext
    PROVE  /\ prChain' \in Chains \cup {<<"unknown">>} /\ ChainLength' \in 0..3
           /\ prDialog' \in [Askers -> 0..4] /\ \A a \in Askers : AtItsDialog(a)'
           /\ prAt' \in [Askers -> PromptSteps]
<1> DEFINE Goal ==
      /\ prChain' \in Chains \cup {<<"unknown">>} /\ ChainLength' \in 0..3
      /\ prDialog' \in [Askers -> 0..4] /\ \A a \in Askers : AtItsDialog(a)'
      /\ prAt' \in [Askers -> PromptSteps]
<1>t. /\ prDialog \in [Askers -> 0..4] /\ prAt \in [Askers -> PromptSteps]
      /\ prChain \in Chains \cup {<<"unknown">>}
      /\ ChainLength \in 0..3 /\ \A a \in Askers : AtItsDialog(a)
  BY DEF PromptsTypeOK, PromptsSound, PromptSteps
<1>c. ASSUME UNCHANGED prChain
      PROVE  /\ prChain' \in Chains \cup {<<"unknown">>}
             /\ ChainLength' = ChainLength /\ Chosen' = Chosen
  BY <1>t, <1>c, Zenon DEF ChainLength, Chosen
<1>1. ASSUME Chooses PROVE Goal
  <2>1. prChain' \in Chains /\ UNCHANGED <<prAt, prDialog>> /\ ~Chosen
    BY <1>1 DEF Chooses, Chosen
  <2>2. ChainLength' \in 0..3
    BY <2>1, ChainsAreShort DEF ChainLength
  <2>3. \A a \in Askers : prAt'[a] = "idle"
    BY <1>t, <2>1 DEF AtItsDialog
  <2>4. \A a \in Askers : AtItsDialog(a)'
    BY <2>3 DEF AtItsDialog
  <2> QED BY <1>t, <2>1, <2>2, <2>4
<1>2. ASSUME NEW a \in Askers, NEW next \in PromptSteps \ {"dialog"},
             prAt' = [prAt EXCEPT ![a] = next], UNCHANGED prChain,
             prDialog' = prDialog \/ \E n \in 0..4 : prDialog' = [prDialog EXCEPT ![a] = n],
             next # "idle" => Chosen
      PROVE  Goal
  <2>1. prDialog' \in [Askers -> 0..4] /\ \A b \in Askers \ {a} : prDialog'[b] = prDialog[b]
    BY <1>t, <1>2
  <2>2. /\ prAt' \in [Askers -> PromptSteps] /\ prAt'[a] = next
        /\ \A b \in Askers \ {a} : prAt'[b] = prAt[b]
    BY <1>t, <1>2
  <2>3. \A b \in Askers \ {a} : AtItsDialog(b)'
    BY <1>t, <1>2, <1>c, <2>1, <2>2 DEF AtItsDialog
  <2>4. AtItsDialog(a)'
    BY <1>2, <1>c, <2>2 DEF AtItsDialog
  <2> QED BY <1>t, <1>2, <1>c, <2>1, <2>2, <2>3, <2>4
<1>3. ASSUME NEW a \in Askers, NEW n \in 0..ChainLength, Beyond(a, n), UNCHANGED prChain,
             prDialog' = [prDialog EXCEPT ![a] = n + 1], Chosen
      PROVE  Goal
  <2>1. /\ prDialog' \in [Askers -> 0..4] /\ prDialog'[a] = n + 1
        /\ \A b \in Askers \ {a} : prDialog'[b] = prDialog[b]
    BY <1>t, <1>3
  <2>2. PICK next \in {"dialog", "open"} :
           prAt' = [prAt EXCEPT ![a] = next] /\ (next = "dialog" => n < ChainLength)
    BY <1>3 DEF Beyond, PrGoes, ChainLength
  <2>3. /\ prAt' \in [Askers -> PromptSteps] /\ prAt'[a] = next
        /\ \A b \in Askers \ {a} : prAt'[b] = prAt[b]
    BY <1>t, <2>2 DEF PromptSteps, OnTerminal
  <2>4. \A b \in Askers \ {a} : AtItsDialog(b)'
    BY <1>t, <1>3, <1>c, <2>1, <2>3 DEF AtItsDialog
  <2>5. next = "dialog" => n + 1 \in 0..ChainLength
    BY <1>t, <2>2
  <2>6. AtItsDialog(a)'
    BY <1>3, <1>c, <2>1, <2>3, <2>5 DEF AtItsDialog
  <2> QED BY <1>t, <1>3, <1>c, <2>1, <2>3, <2>4, <2>6
<1>4. ASSUME NEW a \in Askers, AsksForKey(a) PROVE Goal
  <2>1. /\ Chosen /\ UNCHANGED prChain /\ Beyond(a, 0)
        /\ prDialog' = [prDialog EXCEPT ![a] = 0 + 1] /\ 0 \in 0..ChainLength
    BY <1>t, <1>4 DEF AsksForKey, Chosen
  <2> HIDE DEF Goal
  <2> QED BY <1>3, <2>1
<1>5. ASSUME NEW a \in Askers, DoesNotAsk(a) \/ Dismisses(a) \/ AnswersPrompt(a) PROVE Goal
  <2>1. /\ prAt[a] = "dialog" /\ UNCHANGED prChain
        /\ \/ FallsBack(a)
           \/ prAt' = [prAt EXCEPT ![a] = "done"] /\ UNCHANGED prDialog
    BY <1>5 DEF DoesNotAsk, Dismisses, AnswersPrompt, AtDialog, PinentryFails, KDialogFails,
       ZenityFails, OsascriptFails, WindowFails, WindowTimeIsUp, Canceled, PrEnds
  <2>2. prDialog[a] \in 0..ChainLength /\ Chosen
    BY <1>t, <2>1 DEF AtItsDialog
  <2> HIDE DEF Goal
  <2>3. CASE FallsBack(a)
    <3>1. Beyond(a, prDialog[a]) /\ prDialog' = [prDialog EXCEPT ![a] = prDialog[a] + 1]
      BY <2>3 DEF FallsBack
    <3> QED BY <1>3, <2>1, <2>2, <3>1
  <2>4. CASE prAt' = [prAt EXCEPT ![a] = "done"] /\ UNCHANGED prDialog
    <3>1. "done" \in PromptSteps \ {"dialog"}
      BY DEF PromptSteps
    <3> QED BY <1>2, <2>1, <2>2, <2>4, <3>1
  <2> QED BY <2>1, <2>3, <2>4
<1>6. ASSUME NEW a \in Askers,
             \/ OpensTerminal(a) \/ LooksAtEcho(a) \/ HidesTyping(a) \/ WritesPrompt(a)
             \/ (\E line \in BOOLEAN : ReadsLine(a, line)) \/ CannotReadTTY(a) \/ RestoresEcho(a)
             \/ PrKilled(a) \/ (\E secret \in BOOLEAN : AsksForSsh(a, secret))
      PROVE  Goal
  <2>1. /\ UNCHANGED <<prChain, prDialog>>
        /\ \E next \in OnTerminal \cup {"done"} : prAt' = [prAt EXCEPT ![a] = next]
    BY <1>6 DEF OpensTerminal, LooksAtEcho, HidesTyping, WritesPrompt, ReadsLine, CannotReadTTY,
       RestoresEcho, PrKilled, AsksForSsh, AtTerminal, AfterReading, EndsInError, PrGoes, PrEnds,
       OnTerminal
  <2>2. prAt[a] # "idle" \/ Chosen
    BY <1>6 DEF OpensTerminal, LooksAtEcho, HidesTyping, WritesPrompt, ReadsLine, CannotReadTTY,
       RestoresEcho, PrKilled, AsksForSsh, AtTerminal, Chosen, OnTerminal
  <2>3. Chosen
    BY <1>t, <2>2 DEF AtItsDialog
  <2>4. OnTerminal \cup {"done"} \subseteq PromptSteps \ {"dialog"}
    BY DEF PromptSteps, OnTerminal
  <2> HIDE DEF Goal
  <2> QED BY <1>2, <2>1, <2>3, <2>4
<1>7. ASSUME NEW a \in Askers, Asked(a) PROVE Goal
  <2>1. /\ prAt' = [prAt EXCEPT ![a] = "idle"] /\ UNCHANGED prChain
        /\ prDialog' = [prDialog EXCEPT ![a] = 0] /\ "idle" \in PromptSteps \ {"dialog"}
        /\ 0 \in 0..4
    BY <1>7 DEF Asked, PromptSteps
  <2> HIDE DEF Goal
  <2> QED BY <1>2, <2>1
<1> HIDE DEF Goal
<1>8. Goal
  BY <1>1, <1>4, <1>5, <1>6, <1>7, Zenon DEF PromptsNext
<1> QED BY <1>8 DEF Goal

(* The echo, and who hides it.                                             *)
LEMMA NextEcho ==
    ASSUME PromptsTypeOK, PromptsSound, PromptsNext
    PROVE  OneAtATerminal' /\ OnlySecretsHide' /\ HiddenByOne'
<1> DEFINE Goal == OneAtATerminal' /\ OnlySecretsHide' /\ HiddenByOne'
<1>t. /\ prAt \in [Askers -> PromptSteps]
      /\ prSecret \in [Askers -> BOOLEAN] /\ prFound \in [Askers -> BOOLEAN]
      /\ OneAtATerminal /\ OnlySecretsHide /\ HiddenByOne
  BY DEF PromptsTypeOK, PromptsSound, PromptSteps
<1> USE DEF OneAtATerminal, OnlySecretsHide, HiddenByOne, Talking, OnTerminal
(* Away from the terminal, and where the echo is neither hidden nor put    *)
(* back.                                                                   *)
<1>1. ASSUME NEW a \in Askers, NEW next, prAt' = [prAt EXCEPT ![a] = next],
             UNCHANGED <<prEcho, prShared>>, prKilled => prKilled',
             \A b \in Askers \ {a} : prSecret'[b] = prSecret[b] /\ prFound'[b] = prFound[b],
             \/ ~Talking(a) /\ next \notin OnTerminal \ {"open"}
             \/ Talking(a) /\ next \notin OnTerminal /\ prKilled'
      PROVE  Goal
  <2>1. prAt'[a] = next /\ \A b \in Askers \ {a} : prAt'[b] = prAt[b]
    BY <1>t, <1>1
  <2> QED BY <1>t, <1>1, <2>1
<1> HIDE DEF Goal
<1>2. ASSUME Chooses PROVE Goal
  BY <1>t, <1>2 DEF Chooses, PrTerminal, Goal
<1>3. ASSUME NEW a \in Askers,
             \/ AsksForKey(a) \/ (\E secret \in BOOLEAN : AsksForSsh(a, secret))
             \/ AnswersPrompt(a) \/ Dismisses(a) \/ DoesNotAsk(a) \/ Asked(a)
      PROVE  Goal
  <2>1. /\ UNCHANGED <<prEcho, prShared, prKilled>> /\ prAt[a] \in {"idle", "dialog", "done"}
        /\ \E next \in {"idle", "dialog", "open", "done"} : prAt' = [prAt EXCEPT ![a] = next]
    BY <1>3 DEF AsksForKey, AsksForSsh, AnswersPrompt, Dismisses, DoesNotAsk, Asked, AtDialog,
       PinentryFails, KDialogFails, ZenityFails, OsascriptFails, WindowFails, WindowTimeIsUp,
       Canceled, FallsBack, Beyond, PrEnds, PrGoes, PrTerminal
  <2>2. \A b \in Askers \ {a} : prSecret'[b] = prSecret[b] /\ prFound'[b] = prFound[b]
    BY <1>t, <1>3 DEF AsksForKey, AsksForSsh, AnswersPrompt, Dismisses, DoesNotAsk, Asked, AtDialog,
       PrTerminal
  <2> QED BY <1>1, <2>1, <2>2
<1>4. ASSUME NEW a \in Askers, PrKilled(a) PROVE Goal
  <2>1. /\ prAt' = [prAt EXCEPT ![a] = "done"] /\ UNCHANGED <<prEcho, prShared, prSecret, prFound>>
        /\ prAt[a] \in OnTerminal \cup {"dialog"}
        /\ prKilled' = (prKilled \/ prAt[a] \in OnTerminal)
    BY <1>4 DEF PrKilled, PrEnds
  <2> QED BY <1>1, <2>1
<1>5. ASSUME NEW a \in Askers, OpensTerminal(a) PROVE Goal
  <2>1. /\ prAt[a] = "open" /\ UNCHANGED <<prEcho, prSecret, prFound, prKilled>>
        /\ \/ /\ prAt' = [prAt EXCEPT ![a] = IF prSecret[a] THEN "look" ELSE "write"]
              /\ prShared' = (prShared \/ \E b \in Askers \ {a} : prAt[b] \in OnTerminal \ {"open"})
           \/ prAt' = [prAt EXCEPT ![a] = "done"] /\ UNCHANGED prShared
    BY <1>5 DEF OpensTerminal, AtTerminal, PrGoes, PrEnds
  <2>2. CASE prAt' = [prAt EXCEPT ![a] = "done"] /\ UNCHANGED prShared
    BY <1>1, <2>1, <2>2
  <2>3. ASSUME NEW next \in {"look", "write"}, next = "look" <=> prSecret[a],
               prAt' = [prAt EXCEPT ![a] = next],
               prShared' = (prShared \/ \E b \in Askers \ {a} : prAt[b] \in OnTerminal \ {"open"})
        PROVE  Goal
    <3>1. prAt'[a] = next /\ \A b \in Askers \ {a} : prAt'[b] = prAt[b]
      BY <1>t, <2>3
    <3>2. ~prShared' => ~prShared /\ \A b \in Askers : ~Talking(b)
      BY <2>1, <2>3
    <3>3. OneAtATerminal'
      BY <3>1, <3>2
    <3>4. OnlySecretsHide'
      BY <1>t, <2>1, <2>3, <3>1
    <3>5. HiddenByOne'
      <4>1. /\ \A b \in Askers : prSecret'[b] = prSecret[b] /\ prFound'[b] = prFound[b]
            /\ prEcho' = prEcho /\ prKilled' = prKilled
        BY <2>1
      <4>2. ~prShared' /\ ~prKilled' => prEcho'
        BY <1>t, <3>2, <4>1
      <4> QED BY <2>3, <3>1, <3>2, <4>1, <4>2
    <3> QED BY <3>3, <3>4, <3>5 DEF Goal
  <2> QED BY <2>1, <2>2, <2>3
<1>6. ASSUME NEW a \in Askers, LooksAtEcho(a) PROVE Goal
  <2>1. /\ prAt[a] = "look" /\ UNCHANGED <<prEcho, prSecret, prShared, prKilled>>
        /\ \/ prAt' = [prAt EXCEPT ![a] = "hide"] /\ prFound' = [prFound EXCEPT ![a] = prEcho]
           \/ prAt' = [prAt EXCEPT ![a] = "done"] /\ UNCHANGED prFound
    BY <1>6 DEF LooksAtEcho, AtTerminal, PrGoes, PrEnds
  <2>2. /\ prAt'[a] \in {"hide", "done"} /\ \A b \in Askers \ {a} : prAt'[b] = prAt[b]
        /\ prAt'[a] = "hide" => prFound'[a] = prEcho
        /\ \A b \in Askers \ {a} : prFound'[b] = prFound[b]
    BY <1>t, <2>1
  <2>3. ~prShared /\ ~prKilled => prEcho
    BY <1>t, <2>1
  <2> QED BY <1>t, <2>1, <2>2, <2>3 DEF Goal
<1>7. ASSUME NEW a \in Askers, HidesTyping(a) PROVE Goal
  <2>1. /\ prAt[a] = "hide" /\ UNCHANGED <<prSecret, prFound, prShared, prKilled>>
        /\ \/ prAt' = [prAt EXCEPT ![a] = "write"] /\ prEcho' = FALSE
           \/ prAt' = [prAt EXCEPT ![a] = "done"] /\ UNCHANGED prEcho
    BY <1>7 DEF HidesTyping, AtTerminal, PrGoes, PrEnds
  <2>2. /\ prAt'[a] \in {"write", "done"} /\ \A b \in Askers \ {a} : prAt'[b] = prAt[b]
        /\ prAt'[a] = "done" => prEcho' = prEcho
    BY <1>t, <2>1
  <2> QED BY <1>t, <2>1, <2>2 DEF Goal
<1>8. ASSUME NEW a \in Askers, NEW next, UNCHANGED <<prEcho, prSecret, prFound, prShared, prKilled>>,
             prAt' = [prAt EXCEPT ![a] = next], prAt[a] \in {"write", "read"}, next \in {"read", "restore"}
      PROVE  Goal
  <2>1. prAt'[a] = next /\ \A b \in Askers \ {a} : prAt'[b] = prAt[b]
    BY <1>t, <1>8
  <2> QED BY <1>t, <1>8, <2>1 DEF Goal
<1>9. ASSUME NEW a \in Askers,
             WritesPrompt(a) \/ (\E line \in BOOLEAN : ReadsLine(a, line)) \/ CannotReadTTY(a)
      PROVE  Goal
  <2>1. /\ UNCHANGED <<prEcho, prSecret, prFound, prShared, prKilled>> /\ prAt[a] \in {"write", "read"}
        /\ \E next \in {"read", "restore"} : prAt' = [prAt EXCEPT ![a] = next]
    BY <1>9 DEF WritesPrompt, ReadsLine, CannotReadTTY, AtTerminal, AfterReading, EndsInError, PrGoes
  <2> QED BY <1>8, <2>1
<1>10. ASSUME NEW a \in Askers, RestoresEcho(a) PROVE Goal
  <2>1. /\ prAt[a] = "restore" /\ UNCHANGED <<prSecret, prFound, prShared, prKilled>>
        /\ prAt' = [prAt EXCEPT ![a] = "done"]
        /\ prEcho' = IF prSecret[a] THEN prFound[a] ELSE prEcho
    BY <1>10 DEF RestoresEcho, AtTerminal, PrEnds
  <2>2. prAt'[a] = "done" /\ \A b \in Askers \ {a} : prAt'[b] = prAt[b]
    BY <1>t, <2>1
  <2> QED BY <1>t, <2>1, <2>2 DEF Goal
<1>11. Goal
  BY <1>2, <1>3, <1>4, <1>5, <1>6, <1>7, <1>9, <1>10, Zenon DEF PromptsNext
<1> QED BY <1>11 DEF Goal

(* A setting of a function of flags is one.                                *)
LEMMA FlagIsSet ==
    ASSUME NEW f \in [Askers -> BOOLEAN], NEW a, NEW b \in BOOLEAN
    PROVE  [f EXCEPT ![a] = b] \in [Askers -> BOOLEAN]
BY Zenon

LEMMA NextFlags ==
    ASSUME PromptsTypeOK, PromptsNext
    PROVE  /\ prSecret' \in [Askers -> BOOLEAN] /\ prFound' \in [Askers -> BOOLEAN]
           /\ prEcho' \in BOOLEAN /\ {prShared', prKilled'} \subseteq BOOLEAN
<1>t. /\ prSecret \in [Askers -> BOOLEAN] /\ prFound \in [Askers -> BOOLEAN]
      /\ prEcho \in BOOLEAN /\ prShared \in BOOLEAN /\ prKilled \in BOOLEAN
  BY Zenon DEF PromptsTypeOK
<1>1. \/ prSecret' = prSecret
      \/ \E a \in Askers, b \in BOOLEAN : prSecret' = [prSecret EXCEPT ![a] = b]
  BY Zenon DEF PromptsNext, Chooses, AsksForKey, AsksForSsh, AnswersPrompt, Dismisses, DoesNotAsk,
     OpensTerminal, LooksAtEcho, HidesTyping, WritesPrompt, ReadsLine, CannotReadTTY,
     RestoresEcho, PrKilled, Asked, AtDialog, AtTerminal
<1>2. \/ prFound' = prFound
      \/ \E a \in Askers, b \in BOOLEAN : prFound' = [prFound EXCEPT ![a] = b]
  BY <1>t, Zenon DEF PromptsNext, Chooses, AsksForKey, AsksForSsh, AnswersPrompt, Dismisses,
     DoesNotAsk, OpensTerminal, LooksAtEcho, HidesTyping, WritesPrompt, ReadsLine, CannotReadTTY,
     RestoresEcho, PrKilled, Asked, AtDialog, PrTerminal
<1>3. prSecret' \in [Askers -> BOOLEAN] /\ prFound' \in [Askers -> BOOLEAN]
  BY <1>t, <1>1, <1>2, FlagIsSet, Zenon
<1>4. prEcho' \in {prEcho, TRUE, FALSE} \/ \E a \in Askers : prEcho' = prFound[a]
  BY DEF PromptsNext, Chooses, AsksForKey, AsksForSsh, AnswersPrompt, Dismisses,
     DoesNotAsk, OpensTerminal, LooksAtEcho, HidesTyping, WritesPrompt, ReadsLine, CannotReadTTY,
     RestoresEcho, PrKilled, Asked, AtDialog, PrTerminal
<1>5. prShared' \in BOOLEAN /\ prKilled' \in BOOLEAN
  BY <1>t DEF PromptsNext, Chooses, AsksForKey, AsksForSsh, AnswersPrompt, Dismisses,
     DoesNotAsk, OpensTerminal, LooksAtEcho, HidesTyping, WritesPrompt, ReadsLine, CannotReadTTY,
     RestoresEcho, PrKilled, Asked, AtDialog, PrTerminal
<1>6. prEcho' \in BOOLEAN
  BY <1>t, <1>4, Zenon
<1> QED BY <1>3, <1>5, <1>6, Zenon

LEMMA NextPrompts ==
    PromptsTypeOK /\ PromptsSound /\ [PromptsNext]_prVars => PromptsTypeOK' /\ PromptsSound'
<1> SUFFICES ASSUME PromptsTypeOK, PromptsSound, [PromptsNext]_prVars
             PROVE  PromptsTypeOK' /\ PromptsSound'
  OBVIOUS
<1>1. CASE UNCHANGED prVars
  <2>1. UNCHANGED <<prChain, prAt, prDialog, prSecret, prEcho, prFound, prResult, prRefused,
                    prShared, prUnlucky, prKilled>>
    BY <1>1 DEF prVars
  <2>2. PromptsTypeOK'
    BY <2>1 DEF PromptsTypeOK
  <2>3. ChainLength' = ChainLength /\ Chosen' = Chosen
    BY <2>1, Zenon DEF ChainLength, Chosen
  <2> QED
    BY <2>1, <2>2, <2>3 DEF PromptsSound, AtItsDialog, OneAtATerminal, OnlySecretsHide, HiddenByOne,
       Talking
<1>2. CASE PromptsNext
  <2>1. /\ prChain' \in Chains \cup {<<"unknown">>} /\ ChainLength' \in 0..3
        /\ prDialog' \in [Askers -> 0..4] /\ \A a \in Askers : AtItsDialog(a)'
        /\ prAt' \in [Askers -> OnTerminal \cup {"idle", "dialog", "done"}]
    BY <1>2, NextChain DEF PromptSteps
  <2>2. OneAtATerminal' /\ OnlySecretsHide' /\ HiddenByOne'
    BY <1>2, NextEcho
  <2>3. prUnlucky' \in 0..MaxUnlucky
    <3>1. prUnlucky' = prUnlucky \/ (prUnlucky < MaxUnlucky /\ prUnlucky' = prUnlucky + 1)
      BY <1>2 DEF PromptsNext, Chooses, AsksForKey, AsksForSsh, AnswersPrompt, Dismisses, DoesNotAsk,
         OpensTerminal, LooksAtEcho, HidesTyping, WritesPrompt, ReadsLine, CannotReadTTY,
         RestoresEcho, PrKilled, Asked, WindowTimeIsUp, EndsInError, PrUnlucky
    <3> QED BY <3>1, StoresBounds DEF PromptsTypeOK
  <2>4. prRefused' \subseteq Askers
    BY <1>2 DEF PromptsNext, Chooses, AsksForKey, AsksForSsh, AnswersPrompt, Dismisses, DoesNotAsk,
       OpensTerminal, LooksAtEcho, HidesTyping, WritesPrompt, ReadsLine, CannotReadTTY,
       RestoresEcho, PrKilled, Asked, WindowTimeIsUp, PromptsTypeOK
  <2>5. /\ prSecret' \in [Askers -> BOOLEAN] /\ prFound' \in [Askers -> BOOLEAN]
        /\ prEcho' \in BOOLEAN /\ {prShared', prKilled'} \subseteq BOOLEAN
    BY <1>2, NextFlags
  <2>6. prResult' \in [Askers -> {"none", "answered", "canceled", "no_terminal", "error", "killed"}]
    BY <1>2 DEF PromptsNext, Chooses, AsksForKey, AsksForSsh, AnswersPrompt, Dismisses, DoesNotAsk,
       OpensTerminal, LooksAtEcho, HidesTyping, WritesPrompt, ReadsLine, AfterReading, CannotReadTTY,
       RestoresEcho, PrKilled, Asked, WindowTimeIsUp, EndsInError, PrGoes, PrEnds, PinentryFails,
       KDialogFails, ZenityFails, OsascriptFails, WindowFails, Canceled, FallsBack, Beyond,
       PromptsTypeOK
  <2>7. PromptsTypeOK'
    BY <2>1, <2>3, <2>4, <2>5, <2>6 DEF PromptsTypeOK
  <2>8. PromptsSound'
    BY <2>1, <2>2, Zenon DEF PromptsSound
  <2> QED BY <2>7, <2>8
<1> QED BY <1>1, <1>2

(* What the prompters' variables may hold.                                  *)
THEOREM PromptsTypes == PromptsSpec => []PromptsTypeOK
<1>1. PromptsInit => PromptsTypeOK /\ PromptsSound
  BY InitPrompts
<1>2. (PromptsTypeOK /\ PromptsSound) /\ [PromptsNext]_prVars => (PromptsTypeOK /\ PromptsSound)'
  BY NextPrompts
<1> QED BY <1>1, <1>2, PTL DEF PromptsSpec

(* When nobody asks on the terminal any more it shows what is typed, but    *)
(* where two asked on it at once or one was killed while it asked.          *)
THEOREM TerminalIsGivenBack == PromptsSpec => []TerminalGivenBack
<1>1. PromptsInit => PromptsTypeOK /\ PromptsSound
  BY InitPrompts
<1>2. (PromptsTypeOK /\ PromptsSound) /\ [PromptsNext]_prVars => (PromptsTypeOK /\ PromptsSound)'
  BY NextPrompts
<1>3. PromptsTypeOK /\ PromptsSound => TerminalGivenBack
  BY DEF PromptsSound, HiddenByOne, TerminalGivenBack, OnTerminal
<1> QED BY <1>1, <1>2, <1>3, PTL DEF PromptsSpec

-----------------------------------------------------------------------------
(* The Secret Service.                                                     *)

SsSteps == Creating \cup {"idle", "alias", "find", "unlock", "work", "lock", "prompt", "wait"}
SsWishes == Creating \cup {"unlock", "lock", "store", "delete"}
SsSignals == [code: {"none", "completed", "dismissed"}, col: Collections \cup {NoCollection}]

(* A prompt is some client's, and is about a collection there is, or one    *)
(* that is to be.                                                          *)
WantedOf(d, cols) ==
  /\ d \in DialogIds /\ d.client \in SsClients /\ d.wants \in SsWishes
  /\ d.wants \in Creating \/ d.of \in cols
Wanted(d) == WantedOf(d, ssCollections)

(* What a client works on is there, what it waits for is about that, and    *)
(* once it is told, the dialog is gone.                                    *)
ClientStands(c) ==
  /\ ssAt[c] \in {"unlock", "work", "lock"} => ssCol[c] \in ssCollections
  /\ ssAt[c] \in {"prompt", "wait"} =>
       ssPrompt[c].client = c /\ ssPrompt[c].of = ssCol[c] /\ Wanted(ssPrompt[c])
  /\ \/ ssSignal[c] = NoSignal \/ ssSignal[c].code = "dismissed"
     \/ ssSignal[c].code = "completed" /\ ssSignal[c].col \in ssCollections
  /\ ssAt[c] = "wait" /\ ssSignal[c] # NoSignal => ssPrompt[c] \notin ssDialogs

DialogsStand == (\A d \in ssDialogs : Wanted(d)) /\ NoDialogForNobody

(* What the service keeps.                                                 *)
ServiceTypes ==
  /\ ssDesktop \in {"unknown", "alias", "label"} /\ ssAlias \in ssCollections \cup {NoCollection}
  /\ ssCollections \in SUBSET Collections
  /\ ssUnlocked \in SUBSET ssCollections /\ ssItems \in SUBSET ssCollections
CountsAreTyped ==
  ssCalls \in 0..MaxSsCalls /\ ssFailed \in 0..MaxSsFailures /\ ssOverlapped \in BOOLEAN
ClientTypes ==
  /\ ssAt \in [SsClients -> SsSteps] /\ ssOp \in [SsClients -> SsOps \cup {"none"}]
  /\ ssCol \in [SsClients -> ssCollections \cup {NoCollection}]
  /\ ssPrompt \in [SsClients -> DialogIds] /\ ssSignal \in [SsClients -> SsSignals]
DialogTypes == ssDialogs \in SUBSET DialogIds /\ ssAstray \in SUBSET DialogIds

ServiceSound ==
  /\ ServiceTypes /\ ClientTypes /\ DialogTypes /\ CountsAreTyped
  /\ (\A c \in SsClients : ClientStands(c)) /\ DialogsStand

LEMMA ServiceTyped == ServiceSound => SecretServiceTypeOK
BY DEF ServiceSound, ServiceTypes, CountsAreTyped, ClientTypes, DialogTypes, SsSteps, SsSignals,
   SecretServiceTypeOK

LEMMA InitService == SecretServiceInit => ServiceSound
<1> SUFFICES ASSUME SecretServiceInit PROVE ServiceSound
  OBVIOUS
<1>1. ServiceTypes /\ DialogTypes
  BY DEF SecretServiceInit, ServiceTypes, DialogTypes
<1>2. CountsAreTyped
  <2>1. ssCalls \in 0..MaxSsCalls /\ ssFailed \in 0..MaxSsFailures
    BY StoresBounds DEF SecretServiceInit
  <2>2. ssOverlapped \in BOOLEAN
    BY Zenon DEF SecretServiceInit
  <2> QED BY <2>1, <2>2 DEF CountsAreTyped
<1>3. SsNoPrompt \in DialogIds /\ NoSignal \in SsSignals
  BY StoresBounds DEF SsNoPrompt, NoSignal, DialogIds, SsSignals
<1>4. ClientTypes
  BY <1>3 DEF SecretServiceInit, ClientTypes, SsSteps
<1>5. \A c \in SsClients : ClientStands(c)
  BY DEF SecretServiceInit, ClientStands
<1>6. DialogsStand
  BY DEF SecretServiceInit, DialogsStand, NoDialogForNobody
<1> QED BY <1>1, <1>2, <1>4, <1>5, <1>6 DEF ServiceSound

(* There is one more collection to be had where they are not all there.    *)
LEMMA FreshIsNew ==
    ASSUME ssCollections \in SUBSET Collections, Cardinality(ssCollections) < MaxCollections
    PROVE  FreshCollection \in Collections /\ FreshCollection \notin ssCollections
<1>1. IsFiniteSet(Collections) /\ Cardinality(Collections) = MaxCollections
  BY StoresBounds, FS_Interval, 1 \in Int, MaxCollections \in Int DEF Collections
<1>2. \E col \in Collections : col \notin ssCollections
  <2> SUFFICES ASSUME Collections \subseteq ssCollections PROVE FALSE
    OBVIOUS
  <2>1. ssCollections = Collections
    OBVIOUS
  <2> QED BY <1>1, <2>1, StoresBounds
<1> QED BY <1>2 DEF FreshCollection

(* What the service keeps when it has done what it was asked.              *)
LEMMA DoneStands ==
    ASSUME ServiceTypes, NEW wants, NEW of, NEW col \in Collections, Done(wants, of, col),
           wants \in Creating \/ of \in ssCollections, UNCHANGED ssDesktop
    PROVE  ServiceTypes' /\ ssCollections \subseteq ssCollections' /\ col \in ssCollections'
<1>1. CASE wants \in Creating /\ SsCreated(wants = "create_aliased", col) /\ UNCHANGED ssItems
  <2>1. CASE UNCHANGED <<ssCollections, ssAlias, ssUnlocked>> /\ col = ssAlias /\ ssAlias # NoCollection
    BY <1>1, <2>1 DEF ServiceTypes
  <2>2. CASE /\ Cardinality(ssCollections) < MaxCollections /\ col = FreshCollection
             /\ ssCollections' = ssCollections \cup {col} /\ ssUnlocked' = ssUnlocked \cup {col}
             /\ ssAlias' \in {col, ssAlias}
    BY <1>1, <2>2 DEF ServiceTypes
  <2> QED BY <1>1, <2>1, <2>2 DEF SsCreated
<1>2. CASE /\ wants \notin Creating /\ col = of /\ UNCHANGED <<ssCollections, ssAlias>>
           /\ ssUnlocked' \in {ssUnlocked \cup {of}, ssUnlocked \ {of}, ssUnlocked}
           /\ ssItems' \in {ssItems \cup {of}, ssItems \ {of}, ssItems}
  BY <1>2 DEF ServiceTypes
<1> QED BY <1>1, <1>2 DEF Done

LEMMA UntouchedStands ==
    ASSUME ServiceTypes, Untouched, UNCHANGED ssDesktop
    PROVE  ServiceTypes' /\ ssCollections \subseteq ssCollections'
BY DEF ServiceTypes, Untouched

(* Where a client may turn to, with what.                                  *)
Rightly(c, to, op, col, prompt, cols) ==
  /\ to \in SsSteps /\ op \in SsOps \cup {"none"} /\ col \in cols \cup {NoCollection}
  /\ prompt \in DialogIds
  /\ to \in {"unlock", "work", "lock"} => col \in cols
  /\ to \in {"prompt", "wait"} => prompt.client = c /\ prompt.of = col /\ WantedOf(prompt, cols)

(* A step of one client.  No other client's dialog comes or goes, and one   *)
(* of its own is left only where it waits or went astray.                  *)
LEMMA SsClientSteps ==
    ASSUME ServiceSound, NEW c \in SsClients, NEW to, NEW op, NEW col, NEW prompt,
           SsTurns(c, to, op, col, prompt, NoSignal), Rightly(c, to, op, col, prompt, ssCollections'),
           ServiceTypes', ssCollections \subseteq ssCollections', CountsAreTyped',
           ssAstray \subseteq ssAstray', ssAstray' \subseteq DialogIds,
           \A d \in ssDialogs' \ ssDialogs :
              d.client = c /\ Wanted(d)' /\ (d \in ssAstray' \/ (to = "wait" /\ d = prompt)),
           \A d \in ssDialogs : d.client = c => d \notin ssDialogs' \/ d \in ssAstray'
                                              \/ (to = "wait" /\ d = prompt)
    PROVE  ServiceSound'
<1>t. /\ ClientTypes /\ DialogTypes /\ DialogsStand /\ \A e \in SsClients : ClientStands(e)
  BY DEF ServiceSound
<1>1. /\ ssAt' \in [SsClients -> SsSteps] /\ ssAt'[c] = to
      /\ \A e \in SsClients \ {c} : ssAt'[e] = ssAt[e]
  BY <1>t DEF SsTurns, Rightly, ClientTypes
<1>2. ssOp' \in [SsClients -> SsOps \cup {"none"}]
  BY <1>t DEF SsTurns, Rightly, ClientTypes
<1>3. /\ ssCol' \in [SsClients -> ssCollections' \cup {NoCollection}] /\ ssCol'[c] = col
      /\ \A e \in SsClients \ {c} : ssCol'[e] = ssCol[e]
  BY <1>t DEF SsTurns, Rightly, ClientTypes
<1>4. /\ ssPrompt' \in [SsClients -> DialogIds] /\ ssPrompt'[c] = prompt
      /\ \A e \in SsClients \ {c} : ssPrompt'[e] = ssPrompt[e]
  BY <1>t DEF SsTurns, Rightly, ClientTypes
<1>5. /\ ssSignal' \in [SsClients -> SsSignals] /\ ssSignal'[c] = NoSignal
      /\ \A e \in SsClients \ {c} : ssSignal'[e] = ssSignal[e]
  <2>1. NoSignal \in SsSignals
    BY DEF NoSignal, SsSignals
  <2> QED BY <1>t, <2>1 DEF SsTurns, ClientTypes
<1>6. ClientTypes'
  BY <1>1, <1>2, <1>3, <1>4, <1>5 DEF ClientTypes
<1>7. \A d : Wanted(d) => Wanted(d)'
  BY DEF Wanted, WantedOf
<1>8. DialogTypes'
  BY <1>t DEF DialogTypes, Wanted, WantedOf
<1>9. ClientStands(c)'
  BY <1>1, <1>3, <1>4, <1>5 DEF ClientStands, Rightly, Wanted
<1>10. ASSUME NEW e \in SsClients \ {c} PROVE ClientStands(e)'
  <2>1. /\ ssAt'[e] = ssAt[e] /\ ssCol'[e] = ssCol[e] /\ ssPrompt'[e] = ssPrompt[e]
        /\ ssSignal'[e] = ssSignal[e] /\ ClientStands(e)
    BY <1>t, <1>1, <1>3, <1>4, <1>5
  <2>2. ssAt[e] = "wait" /\ ssSignal[e] # NoSignal => ssPrompt[e] \notin ssDialogs'
    BY <2>1 DEF ClientStands
  <2>3. ssAt[e] \in {"prompt", "wait"} =>
          ssPrompt[e].client = e /\ ssPrompt[e].of = ssCol[e] /\ Wanted(ssPrompt[e])'
    BY <1>7, <2>1 DEF ClientStands
  <2>4. /\ ssAt[e] \in {"unlock", "work", "lock"} => ssCol[e] \in ssCollections'
        /\ \/ ssSignal[e] = NoSignal \/ ssSignal[e].code = "dismissed"
           \/ ssSignal[e].code = "completed" /\ ssSignal[e].col \in ssCollections'
    BY <2>1 DEF ClientStands
  <2> QED BY <2>1, <2>2, <2>3, <2>4 DEF ClientStands
<1>11. (\A d \in ssDialogs : Wanted(d))'
  BY <1>t, <1>7 DEF DialogsStand
<1>12. ASSUME NEW d \in ssDialogs' \ ssAstray'
       PROVE  ssAt'[d.client] = "wait" /\ ssPrompt'[d.client] = d
  <2>1. CASE d.client = c
    BY <1>1, <1>4, <1>12, <2>1
  <2>2. CASE d.client # c
    <3>1. d \in ssDialogs \ ssAstray /\ d.client \in SsClients
      BY <1>12, <1>11, <2>2 DEF Wanted, WantedOf
    <3>2. ssAt[d.client] = "wait" /\ ssPrompt[d.client] = d
      BY <1>t, <3>1 DEF DialogsStand, NoDialogForNobody
    <3> QED BY <1>1, <1>4, <2>2, <3>1, <3>2
  <2> QED BY <2>1, <2>2
<1>13. DialogsStand'
  BY <1>11, <1>12 DEF DialogsStand, NoDialogForNobody
<1> QED BY <1>6, <1>8, <1>9, <1>10, <1>13 DEF ServiceSound

(* A client that does not wait has no dialog in front of the user, but one  *)
(* that went astray.                                                       *)
LEMMA NoneOfItsOwn ==
    ASSUME ServiceSound, NEW c \in SsClients, ssAt[c] # "wait" \/ ssPrompt[c] \notin ssDialogs
    PROVE  \A d \in ssDialogs : d.client = c => d \in ssAstray
BY DEF ServiceSound, DialogsStand, NoDialogForNobody

(* So, a step that leaves the dialogs alone.                               *)
LEMMA SsQuietSteps ==
    ASSUME ServiceSound, NEW c \in SsClients, NEW to, NEW op, NEW col, NEW prompt,
           SsTurns(c, to, op, col, prompt, NoSignal), Rightly(c, to, op, col, prompt, ssCollections'),
           ServiceTypes', ssCollections \subseteq ssCollections', CountsAreTyped',
           UNCHANGED ssDialogs, ssAstray \subseteq ssAstray', ssAstray' \subseteq DialogIds,
           ssAt[c] # "wait" \/ ssPrompt[c] \notin ssDialogs \/ ssPrompt[c] \in ssAstray'
    PROVE  ServiceSound'
<1>1. \A d \in ssDialogs : d.client = c => d \in ssAstray'
  BY NoneOfItsOwn DEF ServiceSound, DialogsStand, NoDialogForNobody
<1>2. \A d \in ssDialogs' \ ssDialogs :
         d.client = c /\ Wanted(d)' /\ (d \in ssAstray' \/ (to = "wait" /\ d = prompt))
  OBVIOUS
<1>3. \A d \in ssDialogs : d.client = c => d \notin ssDialogs' \/ d \in ssAstray'
                                             \/ (to = "wait" /\ d = prompt)
  BY <1>1
<1> QED BY <1>2, <1>3, SsClientSteps

LEMMA MishapCounted ==
    ASSUME CountsAreTyped, SsMishap \/ UNCHANGED ssFailed,
           UNCHANGED ssCalls \/ (ssCalls < MaxSsCalls /\ ssCalls' = ssCalls + 1),
           ssOverlapped' = ssOverlapped \/ ssOverlapped' \in BOOLEAN
    PROVE  CountsAreTyped'
<1>1. ssCalls' \in 0..MaxSsCalls /\ ssFailed' \in 0..MaxSsFailures
  BY StoresBounds DEF CountsAreTyped, SsMishap
<1>2. ssOverlapped' \in BOOLEAN
  BY Zenon DEF CountsAreTyped
<1> QED BY <1>1, <1>2 DEF CountsAreTyped

(* The answers of the service lead where they may.                         *)
LEMMA ProceedsRightly ==
    ASSUME ServiceSound, NEW c \in SsClients, NEW wants \in SsWishes, NEW col,
           SsProceeds(c, wants, col), ServiceTypes', ssCollections \subseteq ssCollections',
           wants \in Creating => col \in ssCollections',
           wants \notin Creating => ssCol[c] \in ssCollections
    PROVE  \E to \in SsSteps, op \in SsOps \cup {"none"}, left \in ssCollections' \cup {NoCollection} :
             /\ SsTurns(c, to, op, left, SsNoPrompt, NoSignal)
             /\ Rightly(c, to, op, left, SsNoPrompt, ssCollections')
<1>1. SsNoPrompt \in DialogIds
  BY StoresBounds DEF SsNoPrompt, DialogIds
<1>2. ssOp[c] \in SsOps \cup {"none"} /\ ssCol[c] \in ssCollections' \cup {NoCollection}
  BY DEF ServiceSound, ClientTypes
<1>3. CASE wants \in Creating
  <2>1. SsTurns(c, "unlock", ssOp[c], col, SsNoPrompt, NoSignal)
    BY <1>3 DEF SsProceeds, Resolved, Creating, SsWishes
  <2>2. "unlock" \in SsSteps /\ Rightly(c, "unlock", ssOp[c], col, SsNoPrompt, ssCollections')
    BY <1>1, <1>2, <1>3 DEF Rightly, SsSteps
  <2> QED BY <1>2, <1>3, <2>1, <2>2
<1>4. CASE wants \notin Creating /\ wants # "lock"
  <2>1. PICK to \in {"work", "lock"} : SsTurns(c, to, ssOp[c], ssCol[c], SsNoPrompt, NoSignal)
    BY <1>4 DEF SsProceeds, SsGoes, SsWishes, Creating
  <2>2. to \in SsSteps /\ Rightly(c, to, ssOp[c], ssCol[c], SsNoPrompt, ssCollections')
    BY <1>1, <1>2, <1>4, <2>1 DEF Rightly, SsSteps
  <2> QED BY <1>2, <2>1, <2>2
<1>5. CASE wants = "lock"
  <2>1. SsTurns(c, "idle", "none", ssCol[c], SsNoPrompt, NoSignal)
    BY <1>5 DEF SsProceeds, SsEnds, Creating
  <2>2. "idle" \in SsSteps /\ Rightly(c, "idle", "none", ssCol[c], SsNoPrompt, ssCollections')
    BY <1>1, <1>2 DEF Rightly, SsSteps
  <2> QED BY <1>2, <2>1, <2>2
<1> QED BY <1>3, <1>4, <1>5

LEMMA FailsRightly ==
    ASSUME ServiceSound, NEW c \in SsClients, NEW wants, SsFails(c, wants),
           ssCollections \subseteq ssCollections', wants \in {"store", "delete"} => ssCol[c] \in ssCollections
    PROVE  \E to \in SsSteps, op \in SsOps \cup {"none"}, left \in ssCollections' \cup {NoCollection} :
             /\ SsTurns(c, to, op, left, SsNoPrompt, NoSignal)
             /\ Rightly(c, to, op, left, SsNoPrompt, ssCollections')
<1>1. SsNoPrompt \in DialogIds
  BY StoresBounds DEF SsNoPrompt, DialogIds
<1>2. ssOp[c] \in SsOps \cup {"none"} /\ ssCol[c] \in ssCollections' \cup {NoCollection}
  BY DEF ServiceSound, ClientTypes
<1>3. CASE wants \in {"store", "delete"}
  <2>1. SsTurns(c, "lock", ssOp[c], ssCol[c], SsNoPrompt, NoSignal)
    BY <1>3 DEF SsFails, SsGoes
  <2>2. "lock" \in SsSteps /\ Rightly(c, "lock", ssOp[c], ssCol[c], SsNoPrompt, ssCollections')
    BY <1>1, <1>2, <1>3 DEF Rightly, SsSteps
  <2> QED BY <1>2, <2>1, <2>2
<1>4. CASE wants \notin {"store", "delete"}
  <2>1. SsTurns(c, "idle", "none", ssCol[c], SsNoPrompt, NoSignal)
    BY <1>4 DEF SsFails, SsEnds
  <2>2. "idle" \in SsSteps /\ Rightly(c, "idle", "none", ssCol[c], SsNoPrompt, ssCollections')
    BY <1>1, <1>2 DEF Rightly, SsSteps
  <2> QED BY <1>2, <2>1, <2>2
<1> QED BY <1>3, <1>4

(* The steps that leave the dialogs alone: those before the call that does  *)
(* something, and those that read.                                         *)
LEMMA SsReadingSteps ==
    ASSUME ServiceSound, NEW c \in SsClients,
           \/ (\E op \in SsOps : SsBegins(c, op)) \/ SsExits(c) \/ ReadsAlias(c) \/ Finds(c)
           \/ CannotRead(c) \/ SsReads(c)
    PROVE  ServiceSound'
<1>t. /\ ServiceTypes /\ ClientTypes /\ DialogTypes /\ CountsAreTyped /\ ClientStands(c)
      /\ ssOp[c] \in SsOps \cup {"none"} /\ ssCol[c] \in ssCollections \cup {NoCollection}
  BY DEF ServiceSound, ClientTypes
<1>1. SsNoPrompt \in DialogIds
  BY StoresBounds DEF SsNoPrompt, DialogIds
<1>2. /\ UNCHANGED <<ssCollections, ssAlias, ssUnlocked, ssItems, ssDialogs, ssAstray>>
      /\ ssDesktop' \in {ssDesktop, "alias", "label"}
      /\ ssAt[c] \notin {"prompt", "wait"}
  BY DEF SsBegins, SsExits, ReadsAlias, Finds, CannotRead, SsReads, ssService, ssHistory
<1>3. ServiceTypes' /\ ssCollections \subseteq ssCollections'
  BY <1>t, <1>2 DEF ServiceTypes
<1>4. CountsAreTyped'
  <2>1. SsMishap \/ UNCHANGED ssFailed
    BY DEF SsBegins, SsExits, ReadsAlias, Finds, CannotRead, SsReads
  <2>2. UNCHANGED ssCalls \/ (ssCalls < MaxSsCalls /\ ssCalls' = ssCalls + 1)
    BY DEF SsBegins, SsExits, ReadsAlias, Finds, CannotRead, SsReads
  <2>3. ssOverlapped' = ssOverlapped \/ ssOverlapped' \in BOOLEAN
    BY DEF SsBegins, SsExits, ReadsAlias, Finds, CannotRead, SsReads, ssHistory
  <2> QED BY <1>t, <2>1, <2>2, <2>3, MishapCounted
<1>5. \E to \in SsSteps \ {"prompt", "wait"}, op \in SsOps \cup {"none"},
         col \in ssCollections \cup {NoCollection} :
        /\ SsTurns(c, to, op, col, SsNoPrompt, NoSignal)
        /\ to \in {"unlock", "work", "lock"} => col \in ssCollections
  <2> DEFINE Goal == \E to \in SsSteps \ {"prompt", "wait"}, op \in SsOps \cup {"none"},
                        col \in ssCollections \cup {NoCollection} :
                       /\ SsTurns(c, to, op, col, SsNoPrompt, NoSignal)
                       /\ to \in {"unlock", "work", "lock"} => col \in ssCollections
  <2>1. ASSUME NEW to \in {"idle", "find", "create", "create_aliased", "lock", "work"}, SsGoes(c, to),
               to \in {"work", "lock"} => ssCol[c] \in ssCollections
        PROVE  Goal
    BY <1>t, <2>1 DEF SsGoes, SsSteps, Creating
  <2>2. ASSUME SsEnds(c) PROVE Goal
    <3>1. SsTurns(c, "idle", "none", ssCol[c], SsNoPrompt, NoSignal)
      BY <2>2 DEF SsEnds
    <3>2. "idle" \in SsSteps \ {"prompt", "wait"}
      BY DEF SsSteps
    <3> QED BY <1>t, <3>1, <3>2
  <2>3. ASSUME NEW col \in ssCollections, Resolved(c, col) PROVE Goal
    BY <1>t, <2>3 DEF Resolved, SsSteps
  <2>4. ASSUME NEW op \in SsOps, SsBegins(c, op) PROVE Goal
    <3>1. PICK to \in {"alias", "unlock"} :
            /\ SsTurns(c, to, op, ssCol[c], SsNoPrompt, NoSignal)
            /\ to = "unlock" => ssCol[c] # NoCollection
      BY <2>4 DEF SsBegins
    <3> QED BY <1>t, <3>1 DEF SsSteps
  <2>5. ASSUME SsExits(c) PROVE Goal
    BY <1>t, <2>5 DEF SsExits, SsSteps
  <2> HIDE DEF Goal
  <2>6. ASSUME ReadsAlias(c) PROVE Goal
    <3>1. SsEnds(c) \/ (ssAlias \in ssCollections /\ Resolved(c, ssAlias))
            \/ \E to \in {"find", "create_aliased"} : SsGoes(c, to)
      BY <1>t, <2>6 DEF ReadsAlias, ServiceTypes
    <3> QED BY <2>1, <2>2, <2>3, <3>1
  <2>7. ASSUME Finds(c) PROVE Goal
    <3>1. SsEnds(c) \/ SsGoes(c, "create") \/ \E col \in ssCollections : Resolved(c, col)
      BY <2>7 DEF Finds, SsTold
    <3> QED BY <2>1, <2>2, <2>3, <3>1
  <2>8. ASSUME CannotRead(c) PROVE Goal
    BY <2>2, <2>8 DEF CannotRead
  <2>9. ASSUME SsReads(c) PROVE Goal
    BY <1>t, <2>1, <2>9 DEF SsReads, ClientStands
  <2>10. Goal
    BY <2>4, <2>5, <2>6, <2>7, <2>8, <2>9
  <2> QED BY <2>10 DEF Goal
<1>6. PICK to \in SsSteps \ {"prompt", "wait"}, op \in SsOps \cup {"none"},
           col \in ssCollections \cup {NoCollection} :
        /\ SsTurns(c, to, op, col, SsNoPrompt, NoSignal)
        /\ to \in {"unlock", "work", "lock"} => col \in ssCollections
  BY <1>5
<1>7. Rightly(c, to, op, col, SsNoPrompt, ssCollections')
  BY <1>1, <1>2, <1>6 DEF Rightly
<1> QED BY <1>t, <1>2, <1>3, <1>4, <1>6, <1>7, SsQuietSteps DEF DialogTypes

(* A call that does something, and a prompt that is raised.                *)
LEMMA SsCallSteps ==
    ASSUME ServiceSound, NEW c \in SsClients, SsCalls(c)
    PROVE  ServiceSound'
<1>t. /\ ServiceTypes /\ ClientTypes /\ DialogTypes /\ CountsAreTyped /\ ClientStands(c)
      /\ ssOp[c] \in SsOps \cup {"none"} /\ ssCol[c] \in ssCollections \cup {NoCollection}
      /\ ssAt[c] \in SsSteps /\ ssCalls \in 0..MaxSsCalls
  BY DEF ServiceSound, ClientTypes, CountsAreTyped
<1>1. /\ UNCHANGED <<ssDesktop, ssDialogs, ssCalls, ssAstray, ssOverlapped>>
      /\ SsMishap \/ UNCHANGED ssFailed
  BY DEF SsCalls, ssHistory
<1>2. CountsAreTyped'
  BY <1>t, <1>1, MishapCounted
<1>3. /\ SsWants(c) \in SsWishes /\ ssAt[c] \notin {"prompt", "wait"}
      /\ SsWants(c) \notin Creating => ssCol[c] \in ssCollections
  BY <1>t DEF SsCalls, SsWants, SsWishes, Creating, SsSteps, ClientStands
<1>4. ASSUME NEW to \in SsSteps, NEW op \in SsOps \cup {"none"},
             NEW left \in ssCollections' \cup {NoCollection}, NEW prompt,
             SsTurns(c, to, op, left, prompt, NoSignal), Rightly(c, to, op, left, prompt, ssCollections'),
             ServiceTypes', ssCollections \subseteq ssCollections'
      PROVE  ServiceSound'
  BY <1>t, <1>1, <1>2, <1>3, <1>4, SsQuietSteps DEF DialogTypes
<1>5. ASSUME NEW col \in Collections, Done(SsWants(c), ssCol[c], col),
             SsProceeds(c, SsWants(c), col)
      PROVE  ServiceSound'
  <2>1. ServiceTypes' /\ ssCollections \subseteq ssCollections' /\ col \in ssCollections'
    BY <1>t, <1>1, <1>3, <1>5, DoneStands
  <2>2. \E to \in SsSteps, op \in SsOps \cup {"none"}, left \in ssCollections' \cup {NoCollection} :
          /\ SsTurns(c, to, op, left, SsNoPrompt, NoSignal)
          /\ Rightly(c, to, op, left, SsNoPrompt, ssCollections')
    BY <1>3, <1>5, <2>1, ProceedsRightly
  <2> QED BY <1>4, <2>1, <2>2
<1>6. ASSUME SsTurns(c, "prompt", ssOp[c], ssCol[c], Given(c), NoSignal), Untouched
      PROVE  ServiceSound'
  <2>1. ServiceTypes' /\ ssCollections \subseteq ssCollections'
    BY <1>t, <1>1, <1>6, UntouchedStands
  <2>2. Given(c) \in DialogIds
    BY <1>t, <1>3 DEF Given, DialogIds, ServiceTypes, SsWishes
  <2>3. WantedOf(Given(c), ssCollections') /\ Given(c).client = c /\ Given(c).of = ssCol[c]
    BY <1>3, <2>1, <2>2 DEF Given, WantedOf
  <2>4. /\ ssOp[c] \in SsOps \cup {"none"} /\ ssCol[c] \in ssCollections' \cup {NoCollection}
        /\ "prompt" \in SsSteps
    BY <1>t, <2>1 DEF SsSteps
  <2>5. Rightly(c, "prompt", ssOp[c], ssCol[c], Given(c), ssCollections')
    BY <2>2, <2>3, <2>4 DEF Rightly
  <2> QED BY <1>4, <1>6, <2>1, <2>4, <2>5
<1>7. ASSUME SsFails(c, SsWants(c)),
             Untouched \/ \E col \in Collections : Done(SsWants(c), ssCol[c], col)
      PROVE  ServiceSound'
  <2>1. ServiceTypes' /\ ssCollections \subseteq ssCollections'
    BY <1>t, <1>1, <1>3, <1>7, DoneStands, UntouchedStands
  <2>2. SsWants(c) \in {"store", "delete"} => ssCol[c] \in ssCollections
    BY <1>3 DEF Creating
  <2>3. \E to \in SsSteps, op \in SsOps \cup {"none"}, left \in ssCollections' \cup {NoCollection} :
          /\ SsTurns(c, to, op, left, SsNoPrompt, NoSignal)
          /\ Rightly(c, to, op, left, SsNoPrompt, ssCollections')
    BY <1>7, <2>1, <2>2, FailsRightly
  <2> QED BY <1>4, <2>1, <2>3
<1> QED BY <1>5, <1>6, <1>7 DEF SsCalls

LEMMA SsDialogSteps ==
    ASSUME ServiceSound, NEW c \in SsClients,
           RaisesDialog(c) \/ HearsDialog(c) \/ StopsWaiting(c) \/ SsKilled(c)
    PROVE  ServiceSound'
<1>t. /\ ServiceTypes /\ ClientTypes /\ DialogTypes /\ CountsAreTyped /\ ClientStands(c)
      /\ ssOp[c] \in SsOps \cup {"none"} /\ ssCol[c] \in ssCollections \cup {NoCollection}
      /\ ssPrompt[c] \in DialogIds
  BY DEF ServiceSound, ClientTypes
<1>1. /\ UNCHANGED <<ssDesktop, ssCollections, ssAlias, ssUnlocked, ssItems, ssCalls, ssOverlapped>>
      /\ SsMishap \/ UNCHANGED ssFailed
  BY DEF RaisesDialog, HearsDialog, StopsWaiting, SsKilled, ssService, ssHistory
<1>2. CountsAreTyped' /\ ServiceTypes' /\ ssCollections \subseteq ssCollections'
  BY <1>t, <1>1, MishapCounted, UntouchedStands DEF Untouched
<1>3. SsNoPrompt \in DialogIds
  BY StoresBounds DEF SsNoPrompt, DialogIds
<1>4. ASSUME ssAt[c] \in {"prompt", "wait"}, SsFails(c, ssPrompt[c].wants)
      PROVE  \E to \in SsSteps, op \in SsOps \cup {"none"}, left \in ssCollections' \cup {NoCollection} :
               /\ SsTurns(c, to, op, left, SsNoPrompt, NoSignal)
               /\ Rightly(c, to, op, left, SsNoPrompt, ssCollections')
  <2>1. ssPrompt[c].wants \in {"store", "delete"} => ssCol[c] \in ssCollections
    BY <1>t, <1>4 DEF ClientStands, Wanted, WantedOf, Creating
  <2> QED BY <1>2, <1>4, <2>1, FailsRightly
<1>5. CASE RaisesDialog(c)
  <2>1. /\ ssAt[c] = "prompt" /\ ssPrompt[c].client = c /\ Wanted(ssPrompt[c])
        /\ ssPrompt[c].of = ssCol[c]
    BY <1>t, <1>5 DEF RaisesDialog, ClientStands
  <2>2. \A d \in ssDialogs : d.client = c => d \in ssAstray
    BY <2>1, NoneOfItsOwn
  <2>3. CASE /\ SsTurns(c, "wait", ssOp[c], ssCol[c], ssPrompt[c], NoSignal)
             /\ ssDialogs' = ssDialogs \cup {ssPrompt[c]} /\ UNCHANGED ssAstray
    <3>1. Rightly(c, "wait", ssOp[c], ssCol[c], ssPrompt[c], ssCollections')
      BY <1>t, <1>1, <2>1 DEF Rightly, SsSteps, Wanted
    <3>2. PICK to, op, col, prompt :
             /\ SsTurns(c, to, op, col, prompt, NoSignal) /\ Rightly(c, to, op, col, prompt, ssCollections')
             /\ to = "wait" /\ prompt = ssPrompt[c]
      BY <2>3, <3>1
    <3>3. \A d \in ssDialogs' \ ssDialogs :
             d.client = c /\ Wanted(d)' /\ (d \in ssAstray' \/ (to = "wait" /\ d = prompt))
      BY <1>1, <2>1, <2>3, <3>2 DEF Wanted
    <3>4. \A d \in ssDialogs : d.client = c => d \notin ssDialogs' \/ d \in ssAstray'
                                                \/ (to = "wait" /\ d = prompt)
      BY <2>2, <2>3
    <3> QED BY <1>t, <1>2, <2>3, <3>2, <3>3, <3>4, SsClientSteps DEF DialogTypes
  <2>4. CASE /\ SsFails(c, ssPrompt[c].wants)
             /\ \/ ssDialogs' = ssDialogs \cup {ssPrompt[c]} /\ ssAstray' = ssAstray \cup {ssPrompt[c]}
                \/ UNCHANGED <<ssDialogs, ssAstray>>
    <3>1. PICK to, op, col :
             /\ SsTurns(c, to, op, col, SsNoPrompt, NoSignal)
             /\ Rightly(c, to, op, col, SsNoPrompt, ssCollections')
      BY <1>4, <2>1, <2>4
    <3>2. \A d \in ssDialogs' \ ssDialogs :
             d.client = c /\ Wanted(d)' /\ (d \in ssAstray' \/ (to = "wait" /\ d = SsNoPrompt))
      BY <1>1, <2>1, <2>4 DEF Wanted
    <3>3. \A d \in ssDialogs : d.client = c => d \notin ssDialogs' \/ d \in ssAstray'
                                                \/ (to = "wait" /\ d = SsNoPrompt)
      BY <2>2, <2>4
    <3>4. ssAstray \subseteq ssAstray' /\ ssAstray' \subseteq DialogIds
      BY <1>t, <2>4 DEF DialogTypes
    <3> QED BY <1>2, <1>3, <3>1, <3>2, <3>3, <3>4, SsClientSteps
  <2> QED BY <1>5, <2>3, <2>4 DEF RaisesDialog
<1>6. CASE HearsDialog(c)
  <2>1. /\ ssAt[c] = "wait" /\ ssPrompt[c] \notin ssDialogs /\ ssPrompt[c].wants \in SsWishes
        /\ ssPrompt[c].wants \in Creating \/ ssCol[c] \in ssCollections
        /\ UNCHANGED <<ssDialogs, ssAstray>>
    BY <1>t, <1>6 DEF HearsDialog, ClientStands, Wanted, WantedOf, ssHistory
  <2>2. ssSignal[c].code # "dismissed" => ssSignal[c].col \in ssCollections'
    BY <1>t, <1>1, <1>6 DEF HearsDialog, ClientStands
  <2>3. \E to \in SsSteps, op \in SsOps \cup {"none"}, left \in ssCollections' \cup {NoCollection} :
           /\ SsTurns(c, to, op, left, SsNoPrompt, NoSignal)
           /\ Rightly(c, to, op, left, SsNoPrompt, ssCollections')
    <3>1. CASE SsFails(c, ssPrompt[c].wants)
      BY <1>4, <2>1, <3>1
    <3>2. CASE /\ ssSignal[c].code # "dismissed"
               /\ SsProceeds(c, ssPrompt[c].wants, ssSignal[c].col)
      BY <1>2, <2>1, <2>2, <3>2, ProceedsRightly
    <3> QED BY <1>6, <3>1, <3>2 DEF HearsDialog
  <2> QED BY <1>t, <1>2, <1>3, <2>1, <2>3, SsQuietSteps DEF DialogTypes
<1>7. CASE StopsWaiting(c)
  <2>1. /\ ssAt[c] = "wait" /\ SsFails(c, ssPrompt[c].wants) /\ Dismissed(ssPrompt[c])
    BY <1>7 DEF StopsWaiting
  <2>2. PICK to, op, col :
           /\ SsTurns(c, to, op, col, SsNoPrompt, NoSignal)
           /\ Rightly(c, to, op, col, SsNoPrompt, ssCollections')
    BY <1>4, <2>1
  <2>3. /\ ssDialogs' \subseteq ssDialogs /\ ssAstray \subseteq ssAstray' /\ ssAstray' \subseteq DialogIds
        /\ ssPrompt[c] \notin ssDialogs' \/ ssPrompt[c] \in ssAstray'
    BY <1>t, <2>1 DEF Dismissed, DialogTypes
  <2>4. \A d \in ssDialogs : d.client = c => d \in ssAstray \/ d = ssPrompt[c]
    BY DEF ServiceSound, DialogsStand, NoDialogForNobody
  <2>5. \A d \in ssDialogs : d.client = c => d \notin ssDialogs' \/ d \in ssAstray'
                                              \/ (to = "wait" /\ d = SsNoPrompt)
    BY <2>3, <2>4
  <2> QED BY <1>2, <1>3, <2>2, <2>3, <2>5, SsClientSteps
<1>8. CASE SsKilled(c)
  <2>1. /\ SsTurns(c, "idle", "none", NoCollection, SsNoPrompt, NoSignal)
        /\ ssAstray' = ssAstray \cup {ssPrompt[c]} /\ UNCHANGED ssDialogs
    BY <1>8 DEF SsKilled
  <2>2. Rightly(c, "idle", "none", NoCollection, SsNoPrompt, ssCollections')
    BY <1>3 DEF Rightly, SsSteps
  <2>3. \E to, op, left :
           /\ SsTurns(c, to, op, left, SsNoPrompt, NoSignal)
           /\ Rightly(c, to, op, left, SsNoPrompt, ssCollections')
    BY <2>1, <2>2
  <2> QED BY <1>t, <1>2, <1>3, <2>1, <2>3, SsQuietSteps DEF DialogTypes
<1> QED BY <1>5, <1>6, <1>7, <1>8

LEMMA UserAnswersSteps ==
    ASSUME ServiceSound, NEW d \in ssDialogs, UserAnswers(d)
    PROVE  ServiceSound'
<1>t. /\ ServiceTypes /\ ClientTypes /\ DialogTypes /\ CountsAreTyped /\ DialogsStand
      /\ \A c \in SsClients : ClientStands(c)
      /\ Wanted(d)
  BY DEF ServiceSound, DialogsStand
<1>1. /\ UNCHANGED <<ssDesktop, ssAt, ssOp, ssCol, ssPrompt, ssCalls, ssFailed, ssAstray, ssOverlapped>>
      /\ ssDialogs' = ssDialogs \ {d}
  BY DEF UserAnswers, ssHistory
<1>2. \E code \in {"completed", "dismissed"}, col \in ssCollections' \cup {NoCollection} :
        /\ Signals(d, code, col) /\ (code = "completed" => col \in ssCollections')
        /\ ServiceTypes' /\ ssCollections \subseteq ssCollections'
  <2>1. ASSUME NEW col \in Collections, Done(d.wants, d.of, col), Signals(d, "completed", col)
        PROVE  ServiceTypes' /\ ssCollections \subseteq ssCollections' /\ col \in ssCollections'
    BY <1>t, <1>1, <2>1, DoneStands DEF Wanted, WantedOf
  <2>2. Untouched => ServiceTypes' /\ ssCollections \subseteq ssCollections'
    BY <1>t, <1>1, UntouchedStands
  <2> QED BY <2>1, <2>2 DEF UserAnswers
<1>3. PICK code \in {"completed", "dismissed"}, col \in ssCollections' \cup {NoCollection} :
        /\ Signals(d, code, col) /\ (code = "completed" => col \in ssCollections')
        /\ ServiceTypes' /\ ssCollections \subseteq ssCollections'
  BY <1>2
<1>4. [code |-> code, col |-> col] \in SsSignals
  BY <1>3 DEF SsSignals, ServiceTypes
<1>5. /\ ssSignal' \in [SsClients -> SsSignals]
      /\ \A c \in SsClients :
            \/ ssSignal'[c] = ssSignal[c]
            \/ ssSignal'[c] = [code |-> code, col |-> col] /\ c = d.client /\ ssPrompt[c] = d
  BY <1>t, <1>3, <1>4 DEF ClientTypes, Signals
<1>6. ClientTypes'
  BY <1>t, <1>1, <1>3, <1>5 DEF ClientTypes
<1>7. DialogTypes'
  BY <1>t, <1>1 DEF DialogTypes
<1>8. CountsAreTyped'
  BY <1>t, <1>1 DEF CountsAreTyped
<1>9. \A e : Wanted(e) => Wanted(e)'
  BY <1>3 DEF Wanted, WantedOf
<1>10. ASSUME NEW c \in SsClients PROVE ClientStands(c)'
  <2>1. ClientStands(c)
    BY <1>t
  <2>2. /\ ssAt[c] \in {"unlock", "work", "lock"} => ssCol[c] \in ssCollections'
        /\ ssAt[c] \in {"prompt", "wait"} =>
             /\ ssPrompt[c].client = c /\ ssPrompt[c].of = ssCol[c]
             /\ WantedOf(ssPrompt[c], ssCollections')
    BY <1>3, <1>9, <2>1 DEF ClientStands, Wanted
  <2>3. \/ ssSignal'[c] = NoSignal \/ ssSignal'[c].code = "dismissed"
        \/ ssSignal'[c].code = "completed" /\ ssSignal'[c].col \in ssCollections'
    BY <1>3, <1>5, <2>1 DEF ClientStands
  <2>4. ssAt[c] = "wait" /\ ssSignal'[c] # NoSignal => ssPrompt[c] \notin ssDialogs'
    BY <1>1, <1>5, <2>1 DEF ClientStands
  <2> QED BY <1>1, <2>2, <2>3, <2>4 DEF ClientStands, Wanted
<1>11. DialogsStand'
  BY <1>t, <1>1, <1>9 DEF DialogsStand, NoDialogForNobody
<1> QED BY <1>3, <1>6, <1>7, <1>8, <1>10, <1>11 DEF ServiceSound

LEMMA NextService == ServiceSound /\ [SecretServiceNext]_ssVars => ServiceSound'
<1> SUFFICES ASSUME ServiceSound, [SecretServiceNext]_ssVars PROVE ServiceSound'
  OBVIOUS
<1>1. CASE UNCHANGED ssVars
  <2>1. UNCHANGED <<ssDesktop, ssCollections, ssAlias, ssUnlocked, ssItems, ssDialogs, ssAt, ssOp,
                    ssCol, ssPrompt, ssSignal, ssCalls, ssFailed, ssAstray, ssOverlapped>>
    BY <1>1 DEF ssVars, ssService, ssClient, ssHistory
  <2>2. ServiceTypes' /\ ClientTypes' /\ DialogTypes' /\ CountsAreTyped'
    BY <2>1 DEF ServiceSound, ServiceTypes, ClientTypes, DialogTypes, CountsAreTyped
  <2>3. (\A c \in SsClients : ClientStands(c)') /\ DialogsStand'
    BY <2>1 DEF ServiceSound, ClientStands, DialogsStand, NoDialogForNobody, Wanted
  <2> QED BY <2>2, <2>3 DEF ServiceSound
<1>2. CASE SecretServiceNext
  <2>1. \/ \E c \in SsClients :
             \/ (\E op \in SsOps : SsBegins(c, op)) \/ SsExits(c) \/ ReadsAlias(c) \/ Finds(c)
             \/ CannotRead(c) \/ SsReads(c)
        \/ \E c \in SsClients : SsCalls(c)
        \/ \E c \in SsClients : RaisesDialog(c) \/ HearsDialog(c) \/ StopsWaiting(c) \/ SsKilled(c)
        \/ \E d \in ssDialogs : UserAnswers(d)
    BY <1>2, Zenon DEF SecretServiceNext
  <2> QED BY <2>1, SsReadingSteps, SsCallSteps, SsDialogSteps, UserAnswersSteps
<1> QED BY <1>1, <1>2

(* What the Secret Service and its clients may hold.                       *)
THEOREM SecretServiceTypes == SecretServiceSpec => []SecretServiceTypeOK
<1>1. SecretServiceInit => ServiceSound
  BY InitService
<1>2. ServiceSound /\ [SecretServiceNext]_ssVars => ServiceSound'
  BY NextService
<1>3. ServiceSound => SecretServiceTypeOK
  BY ServiceTyped
<1> QED BY <1>1, <1>2, <1>3, PTL DEF SecretServiceSpec

(* Every dialog in front of the user has a client waiting for the answer,   *)
(* but one whose raising or dismissal failed, or whose client was killed:   *)
(* however many clients there are and whatever the user answers.           *)
THEOREM EveryDialogIsWaitedFor == SecretServiceSpec => []NoDialogForNobody
<1>1. SecretServiceInit => ServiceSound
  BY InitService
<1>2. ServiceSound /\ [SecretServiceNext]_ssVars => ServiceSound'
  BY NextService
<1>3. ServiceSound => NoDialogForNobody
  BY DEF ServiceSound, DialogsStand
<1> QED BY <1>1, <1>2, <1>3, PTL DEF SecretServiceSpec

(* One collection: where clients take turns and nothing fails, there is one *)
(* client at work, with the one dialog there may be; and it asks for a      *)
(* collection only where there is none, or where the alias will tell.      *)
Alone == ~ssOverlapped /\ ssFailed = 0
Wish(c) == IF ssAt[c] \in {"prompt", "wait"} THEN ssPrompt[c].wants ELSE ssAt[c]
Pending(c) == ssAt[c] # "wait" \/ ssSignal[c] = NoSignal

OneIsKept ==
  /\ \A x, y \in ssCollections : x = y
  /\ ssDesktop # "label" /\ ssCollections # {} => ssAlias # NoCollection

OnlyOne ==
  /\ \A c, e \in SsClients : ssAt[c] # "idle" /\ ssAt[e] # "idle" => c = e
  /\ ssAstray = {} /\ OneIsKept
  /\ ssDesktop = "unknown" => ssCollections = {} /\ \A c \in SsClients : ssAt[c] = "idle"
  /\ \A c \in SsClients :
       /\ Wish(c) = "create" \/ (ssAt[c] = "find" /\ ssOp[c] # "look") => ssDesktop = "label"
       /\ Wish(c) = "create_aliased" => ssDesktop = "alias"
       /\ Wish(c) = "create" /\ Pending(c) => ssCollections = {}

LEMMA InitOne == SecretServiceInit => OnlyOne
BY DEF SecretServiceInit, OnlyOne, OneIsKept, Wish, Pending

(* What is done on a wish keeps it to one.                                 *)
LEMMA DoneKeepsOne ==
    ASSUME ServiceSound, OnlyOne, NEW c \in SsClients, Pending(c), ssAt[c] # "idle",
           NEW wants, NEW of, NEW col \in Collections, Done(wants, of, col), UNCHANGED ssDesktop,
           wants \in Creating => Wish(c) = wants
    PROVE  OneIsKept'
<1>t. ssCollections \in SUBSET Collections /\ OneIsKept
  BY DEF ServiceSound, ServiceTypes, OnlyOne
<1>1. CASE wants = "create"
  <2>1. ssDesktop = "label" /\ ssCollections = {}
    BY <1>1 DEF OnlyOne, Creating
  <2>2. ssCollections' = ssCollections \cup {col}
    BY <1>1 DEF Done, SsCreated, Creating
  <2> QED BY <2>1, <2>2 DEF OneIsKept
<1>2. CASE wants = "create_aliased"
  <2>1. ssDesktop = "alias"
    BY <1>2 DEF OnlyOne, Creating
  <2>2. CASE ssAlias # NoCollection
    BY <1>t, <1>2, <2>2 DEF Done, SsCreated, Creating, OneIsKept
  <2>3. CASE ssAlias = NoCollection
    <3>1. ssCollections' = ssCollections \cup {col} /\ ssAlias' = col
      BY <1>2, <2>3 DEF Done, SsCreated, Creating
    <3>2. ssCollections = {}
      BY <1>t, <2>1, <2>3 DEF OneIsKept
    <3>3. col # NoCollection
      BY StoresBounds DEF Collections, NoCollection
    <3> QED BY <3>1, <3>2, <3>3 DEF OneIsKept
  <2> QED BY <2>2, <2>3
<1>3. CASE wants \notin Creating
  BY <1>t, <1>3 DEF Done, OneIsKept
<1> QED BY <1>1, <1>2, <1>3 DEF Creating

(* A step of the one client at work.                                       *)
LEMMA OneClientSteps ==
    ASSUME ServiceSound, OnlyOne, NEW c \in SsClients, ssAt[c] # "idle", NEW to, NEW op, NEW col,
           NEW prompt, NEW wish, SsTurns(c, to, op, col, prompt, NoSignal),
           UNCHANGED <<ssDesktop, ssAstray>>, OneIsKept',
           wish = IF to \in {"prompt", "wait"} THEN prompt.wants ELSE to,
           wish = "create" => ssDesktop = "label" /\ ssCollections' = {},
           to = "find" /\ op # "look" => ssDesktop = "label",
           wish = "create_aliased" => ssDesktop = "alias"
    PROVE  OnlyOne'
<1>t. ClientTypes
  BY DEF ServiceSound
<1>1. /\ ssAt'[c] = to /\ ssOp'[c] = op /\ ssPrompt'[c] = prompt /\ ssSignal'[c] = NoSignal
      /\ \A e \in SsClients \ {c} : ssAt'[e] = ssAt[e]
  BY <1>t DEF SsTurns, ClientTypes
<1>2. \A e \in SsClients \ {c} : ssAt'[e] = "idle"
  BY <1>1 DEF OnlyOne
<1>3. ssDesktop # "unknown" /\ ssAstray = {}
  BY DEF OnlyOne
<1>4. \A e \in SsClients \ {c} : Wish(e)' = "idle"
  BY <1>2 DEF Wish
<1>5. Wish(c)' = wish
  BY <1>1 DEF Wish
<1>6. \A e \in SsClients :
         /\ Wish(e)' = "create" \/ (ssAt'[e] = "find" /\ ssOp'[e] # "look") => ssDesktop = "label"
         /\ Wish(e)' = "create_aliased" => ssDesktop = "alias"
         /\ Wish(e)' = "create" => ssCollections' = {}
  BY <1>1, <1>2, <1>4, <1>5
<1>7. \A e, f \in SsClients : ssAt'[e] # "idle" /\ ssAt'[f] # "idle" => e = f
  BY <1>2
<1> QED BY <1>3, <1>6, <1>7 DEF OnlyOne

LEMMA ProceedsToUse ==
    ASSUME NEW c, NEW wants \in SsWishes, NEW col, SsProceeds(c, wants, col) \/ SsFails(c, wants)
    PROVE  \E to \in {"unlock", "work", "lock", "idle"} : \E op, left :
              SsTurns(c, to, op, left, SsNoPrompt, NoSignal)
<1>1. CASE SsFails(c, wants)
  BY <1>1 DEF SsFails, SsGoes, SsEnds
<1>2. CASE SsProceeds(c, wants, col)
  BY <1>2 DEF SsProceeds, SsGoes, SsEnds, Resolved, SsWishes, Creating
<1> QED BY <1>1, <1>2

LEMMA NextOne ==
    ASSUME ServiceSound, Alone => OnlyOne, SecretServiceNext, Alone'
    PROVE  OnlyOne'
<1>t. /\ ServiceTypes /\ ClientTypes /\ DialogsStand /\ CountsAreTyped
      /\ \A c \in SsClients : ClientStands(c)
  BY DEF ServiceSound
<1>1. ~SsMishap /\ Alone
  <2>1. ~SsMishap
    BY <1>t, StoresBounds DEF SsMishap, Alone, CountsAreTyped
  <2>2. UNCHANGED ssFailed
    BY <2>1 DEF SecretServiceNext, SsBegins, SsExits, ReadsAlias, Finds, CannotRead, SsCalls,
       SsReads, RaisesDialog, HearsDialog, StopsWaiting, SsKilled, UserAnswers
  <2>3. ~ssOverlapped
    BY DEF Alone, SecretServiceNext, SsBegins, SsExits, ReadsAlias, Finds, CannotRead, SsCalls,
       SsReads, RaisesDialog, HearsDialog, StopsWaiting, SsKilled, UserAnswers, ssHistory
  <2> QED BY <2>1, <2>2, <2>3 DEF Alone
<1>2. OnlyOne /\ OneIsKept
  BY <1>1 DEF OnlyOne
<1>3. ASSUME NEW c \in SsClients, NEW op \in SsOps, SsBegins(c, op) PROVE OnlyOne'
  <2>1. \A e \in SsClients : ssAt[e] = "idle"
    BY <1>3 DEF SsBegins, Alone
  <2>2. PICK to \in {"alias", "unlock"} : SsTurns(c, to, op, ssCol[c], SsNoPrompt, NoSignal)
    BY <1>3 DEF SsBegins
  <2>3. ssAt'[c] = to /\ \A e \in SsClients \ {c} : ssAt'[e] = "idle"
    BY <1>t, <2>1, <2>2 DEF SsTurns, ClientTypes
  <2>4. /\ UNCHANGED <<ssCollections, ssAlias, ssAstray>> /\ ssDesktop' \in {"alias", "label"}
        /\ ssDesktop # "unknown" => ssDesktop' = ssDesktop
    BY <1>t, <1>3 DEF SsBegins, ServiceTypes
  <2>5. \A e \in SsClients : Wish(e)' \in {"idle", "alias", "unlock"} /\ ssAt'[e] # "find"
    BY <2>2, <2>3 DEF Wish
  <2>6. OneIsKept'
    BY <1>2, <2>4 DEF OnlyOne, OneIsKept
  <2>7. \A e, f \in SsClients : ssAt'[e] # "idle" /\ ssAt'[f] # "idle" => e = f
    BY <2>3
  <2> QED BY <1>2, <2>4, <2>5, <2>6, <2>7 DEF OnlyOne
<1>4. ASSUME NEW c \in SsClients, SsExits(c) PROVE OnlyOne'
  <2>1. /\ UNCHANGED <<ssDesktop, ssCollections, ssAlias, ssAstray>>
        /\ ssAt[c] = "idle" /\ SsTurns(c, "idle", "none", NoCollection, SsNoPrompt, NoSignal)
    BY <1>4 DEF SsExits, ssService, ssHistory
  <2>2. /\ \A e \in SsClients : ssAt'[e] = ssAt[e]
        /\ \A e \in SsClients \ {c} : /\ ssOp'[e] = ssOp[e] /\ ssPrompt'[e] = ssPrompt[e]
                                      /\ ssSignal'[e] = ssSignal[e]
    BY <1>t, <2>1 DEF SsTurns, ClientTypes
  <2>3. /\ Wish(c)' = "idle" /\ ssAt'[c] = "idle"
        /\ \A e \in SsClients \ {c} : Wish(e)' = Wish(e) /\ (Pending(e)' <=> Pending(e))
    BY <2>1, <2>2 DEF Wish, Pending
  <2>4. OneIsKept'
    BY <1>2, <2>1 DEF OneIsKept
  <2> QED BY <1>2, <2>1, <2>2, <2>3, <2>4 DEF OnlyOne
<1>5. ASSUME NEW c \in SsClients, ReadsAlias(c) \/ Finds(c) PROVE OnlyOne'
  <2>1. /\ ssAt[c] \in {"alias", "find"}
        /\ UNCHANGED <<ssDesktop, ssCollections, ssAlias, ssAstray>>
    BY <1>5 DEF ReadsAlias, Finds, ssService, ssHistory
  <2>2. OneIsKept' /\ ssDesktop # "unknown"
    BY <1>2, <2>1 DEF OneIsKept, OnlyOne
  <2>3. \E to \in {"idle", "unlock", "find", "create", "create_aliased"} : \E op, left :
           /\ SsTurns(c, to, op, left, SsNoPrompt, NoSignal)
           /\ to = "create" => ssDesktop = "label" /\ ssCollections = {}
           /\ to = "find" => ssDesktop = "label" \/ op = "look"
           /\ to = "create_aliased" => ssDesktop = "alias"
    <3>1. CASE ReadsAlias(c)
      BY <1>t, <2>2, <3>1 DEF ReadsAlias, SsEnds, SsGoes, Resolved, ServiceTypes
    <3>2. CASE Finds(c)
      <4>1. ssAt[c] = "find" /\ (ssOp[c] # "look" => ssDesktop = "label")
        BY <1>2, <3>2 DEF OnlyOne, Finds
      <4>2. \/ SsEnds(c) \/ (\E left : Resolved(c, left))
            \/ SsGoes(c, "create") /\ ssOp[c] # "look" /\ ssCollections = {}
        BY <1>1, <3>2 DEF Finds, SsTold
      <4> QED BY <4>1, <4>2 DEF SsEnds, SsGoes, Resolved
    <3> QED BY <1>5, <3>1, <3>2
  <2>4. PICK to, op, left :
           /\ to \in {"idle", "unlock", "find", "create", "create_aliased"}
           /\ SsTurns(c, to, op, left, SsNoPrompt, NoSignal)
           /\ to = "create" => ssDesktop = "label" /\ ssCollections = {}
           /\ to = "find" => ssDesktop = "label" \/ op = "look"
           /\ to = "create_aliased" => ssDesktop = "alias"
    BY <2>3
  <2>5. to = IF to \in {"prompt", "wait"} THEN SsNoPrompt.wants ELSE to
    BY <2>4
  <2> QED BY <1>2, <2>1, <2>2, <2>4, <2>5, OneClientSteps
<1>6. ASSUME NEW c \in SsClients, ssAt[c] # "idle", UNCHANGED <<ssDesktop, ssAstray>>, OneIsKept',
             \E to \in {"unlock", "work", "lock", "idle"} : \E op, left :
                SsTurns(c, to, op, left, SsNoPrompt, NoSignal)
      PROVE  OnlyOne'
  <2>1. PICK to, op, left :
           to \in {"unlock", "work", "lock", "idle"} /\ SsTurns(c, to, op, left, SsNoPrompt, NoSignal)
    BY <1>6
  <2>2. to = IF to \in {"prompt", "wait"} THEN SsNoPrompt.wants ELSE to
    BY <2>1
  <2> QED BY <1>2, <1>6, <2>1, <2>2, OneClientSteps
<1>7. ASSUME NEW c \in SsClients, SsCalls(c) PROVE OnlyOne'
  <2>1. /\ UNCHANGED <<ssDesktop, ssAstray>> /\ ssAt[c] # "idle" /\ ssAt[c] \notin {"prompt", "wait"}
        /\ SsWants(c) \in SsWishes /\ (SsWants(c) \in Creating => ssAt[c] = SsWants(c))
    BY <1>t, <1>7 DEF SsCalls, ssHistory, SsWants, Creating, SsWishes
  <2>2. Pending(c) /\ Wish(c) = ssAt[c]
    BY <2>1 DEF Pending, Wish
  <2>3. CASE \E col \in Collections : Done(SsWants(c), ssCol[c], col) /\ SsProceeds(c, SsWants(c), col)
    <3>1. PICK col \in Collections : Done(SsWants(c), ssCol[c], col) /\ SsProceeds(c, SsWants(c), col)
      BY <2>3
    <3>2. OneIsKept'
      BY <1>2, <2>1, <2>2, <3>1, DoneKeepsOne
    <3>3. \E to \in {"unlock", "work", "lock", "idle"} : \E op, left :
             SsTurns(c, to, op, left, SsNoPrompt, NoSignal)
      BY <2>1, <3>1, ProceedsToUse
    <3> QED BY <1>6, <2>1, <3>2, <3>3
  <2>4. CASE SsTurns(c, "prompt", ssOp[c], ssCol[c], Given(c), NoSignal) /\ Untouched
    <3>1. OneIsKept' /\ ssCollections' = ssCollections
      BY <1>2, <2>1, <2>4 DEF OneIsKept, Untouched
    <3>5. Given(c).wants = SsWants(c)
      BY DEF Given
    <3>2. PICK to, op, left, prompt, wish :
             /\ SsTurns(c, to, op, left, prompt, NoSignal) /\ to = "prompt" /\ wish = prompt.wants
             /\ prompt.wants = SsWants(c)
      BY <2>4, <3>5
    <3>3. wish = IF to \in {"prompt", "wait"} THEN prompt.wants ELSE to
      BY <3>2
    <3>4. /\ wish = "create" => ssDesktop = "label" /\ ssCollections' = {}
          /\ wish = "create_aliased" => ssDesktop = "alias"
          /\ to # "find"
      BY <1>2, <2>1, <2>2, <3>1, <3>2 DEF OnlyOne, Creating
    <3> QED BY <1>2, <2>1, <3>1, <3>2, <3>3, <3>4, OneClientSteps
  <2> QED BY <1>1, <1>7, <2>3, <2>4 DEF SsCalls
<1>8. ASSUME NEW c \in SsClients, SsReads(c) PROVE OnlyOne'
  <2>1. /\ UNCHANGED <<ssDesktop, ssCollections, ssAlias, ssAstray>> /\ ssAt[c] # "idle"
        /\ SsTurns(c, "lock", ssOp[c], ssCol[c], SsNoPrompt, NoSignal)
    BY <1>8 DEF SsReads, ssService, ssHistory, SsGoes
  <2>2. OneIsKept'
    BY <1>2, <2>1 DEF OneIsKept
  <2> QED BY <1>6, <2>1, <2>2
<1>9. ASSUME NEW c \in SsClients, RaisesDialog(c) PROVE OnlyOne'
  <2>1. /\ UNCHANGED <<ssDesktop, ssCollections, ssAlias, ssAstray>> /\ ssAt[c] = "prompt"
        /\ SsTurns(c, "wait", ssOp[c], ssCol[c], ssPrompt[c], NoSignal)
    BY <1>1, <1>9 DEF RaisesDialog, ssService
  <2>2. OneIsKept' /\ Pending(c) /\ Wish(c) = ssPrompt[c].wants
    BY <1>2, <2>1 DEF OneIsKept, Pending, Wish
  <2>3. PICK to, op, left, prompt, wish :
           /\ SsTurns(c, to, op, left, prompt, NoSignal) /\ to = "wait" /\ wish = prompt.wants
           /\ prompt = ssPrompt[c]
    BY <2>1
  <2>4. wish = IF to \in {"prompt", "wait"} THEN prompt.wants ELSE to
    BY <2>3
  <2>5. /\ wish = "create" => ssDesktop = "label" /\ ssCollections' = {}
        /\ wish = "create_aliased" => ssDesktop = "alias"
        /\ to # "find"
    BY <1>2, <2>1, <2>2, <2>3 DEF OnlyOne
  <2> QED BY <1>2, <2>1, <2>2, <2>3, <2>4, <2>5, OneClientSteps
<1>10. ASSUME NEW c \in SsClients, HearsDialog(c) PROVE OnlyOne'
  <2>1. /\ UNCHANGED <<ssDesktop, ssCollections, ssAlias, ssAstray>> /\ ssAt[c] # "idle"
        /\ ssPrompt[c].wants \in SsWishes
        /\ \/ SsProceeds(c, ssPrompt[c].wants, ssSignal[c].col) \/ SsFails(c, ssPrompt[c].wants)
    BY <1>t, <1>10 DEF HearsDialog, ssService, ssHistory, ClientStands, Wanted, WantedOf
  <2>2. OneIsKept'
    BY <1>2, <2>1 DEF OneIsKept
  <2>3. \E to \in {"unlock", "work", "lock", "idle"} : \E op, left :
           SsTurns(c, to, op, left, SsNoPrompt, NoSignal)
    BY <2>1, ProceedsToUse
  <2> QED BY <1>6, <2>1, <2>2, <2>3
<1>11. ASSUME NEW d \in ssDialogs, UserAnswers(d) PROVE OnlyOne'
  <2>1. /\ ssAt[d.client] = "wait" /\ ssPrompt[d.client] = d /\ d.client \in SsClients
        /\ ssSignal[d.client] = NoSignal
    BY <1>t, <1>2 DEF OnlyOne, DialogsStand, NoDialogForNobody, Wanted, WantedOf, ClientStands
  <2>2. UNCHANGED <<ssDesktop, ssAt, ssOp, ssPrompt, ssAstray>>
    BY <1>11 DEF UserAnswers, ssHistory
  <2>3. PICK code, col :
           /\ code \in {"completed", "dismissed"} /\ Signals(d, code, col)
           /\ Untouched \/ (col \in Collections /\ Done(d.wants, d.of, col))
    BY <1>11 DEF UserAnswers
  <2>4. OneIsKept'
    <3>1. Pending(d.client) /\ Wish(d.client) = d.wants /\ ssAt[d.client] # "idle"
      BY <2>1 DEF Pending, Wish
    <3>2. CASE Untouched
      BY <1>2, <2>2, <3>2 DEF OneIsKept, Untouched
    <3>3. CASE col \in Collections /\ Done(d.wants, d.of, col)
      BY <1>2, <2>1, <2>2, <3>1, <3>3, DoneKeepsOne
    <3> QED BY <2>3, <3>2, <3>3
  <2>5. ssSignal'[d.client] # NoSignal
    BY <1>t, <2>1, <2>3 DEF Signals, NoSignal, ClientTypes
  <2>6. \A e \in SsClients \ {d.client} : ssAt'[e] = "idle"
    BY <1>2, <2>1, <2>2 DEF OnlyOne
  <2>7. ~Pending(d.client)' /\ \A e \in SsClients : Wish(e)' = Wish(e)
    BY <2>1, <2>2, <2>5 DEF Pending, Wish
  <2>8. \A e \in SsClients : Wish(e)' = "create" => ~Pending(e)'
    BY <2>6, <2>7 DEF Wish
  <2>9. ssDesktop # "unknown"
    BY <1>2, <2>1 DEF OnlyOne
  <2> QED BY <1>2, <2>2, <2>4, <2>7, <2>8, <2>9 DEF OnlyOne
<1>12. \/ \E c \in SsClients :
             \/ \E op \in SsOps : SsBegins(c, op)
             \/ SsExits(c) \/ ReadsAlias(c) \/ Finds(c) \/ SsCalls(c) \/ SsReads(c)
             \/ RaisesDialog(c) \/ HearsDialog(c)
       \/ \E d \in ssDialogs : UserAnswers(d)
  BY <1>1, Zenon DEF SecretServiceNext, CannotRead, StopsWaiting, SsKilled
<1> QED BY <1>3, <1>4, <1>5, <1>7, <1>8, <1>9, <1>10, <1>11, <1>12

(* Used by one client at a time, with no call failing, the Secret Service   *)
(* has at most one collection of SSHakku's name, whichever way it knows     *)
(* them and however often the user turns its dialogs down.                 *)
THEOREM CollectionIsOne == SecretServiceSpec => []OneCollection
<1>1. SecretServiceInit => ServiceSound /\ (Alone => OnlyOne)
  BY InitService, InitOne
<1>2. ServiceSound /\ (Alone => OnlyOne) /\ [SecretServiceNext]_ssVars
        => (ServiceSound /\ (Alone => OnlyOne))'
  <2> SUFFICES ASSUME ServiceSound, Alone => OnlyOne, [SecretServiceNext]_ssVars
               PROVE  ServiceSound' /\ (Alone' => OnlyOne')
    OBVIOUS
  <2>1. CASE UNCHANGED ssVars
    <3>1. UNCHANGED <<ssDesktop, ssCollections, ssAlias, ssAt, ssOp, ssPrompt, ssSignal, ssFailed,
                      ssAstray, ssOverlapped>>
      BY <2>1 DEF ssVars, ssService, ssClient, ssHistory
    <3> QED BY <3>1, NextService DEF Alone, OnlyOne, OneIsKept, Wish, Pending
  <2>2. CASE SecretServiceNext
    BY <2>2, NextService, NextOne
  <2> QED BY <2>1, <2>2
<1>3. ServiceSound /\ (Alone => OnlyOne) => OneCollection
  <2> SUFFICES ASSUME ServiceSound, OnlyOne, ssFailed = 0 PROVE Cardinality(ssCollections) <= 1
    <3>1. ServiceSound => ssFailed \in Nat
      BY StoresBounds DEF ServiceSound, CountsAreTyped
    <3> QED BY <3>1 DEF OneCollection, Alone
  <2>1. CASE ssCollections = {}
    BY <2>1, FS_EmptySet
  <2>2. CASE ssCollections # {}
    <3>1. PICK col \in ssCollections : TRUE
      BY <2>2
    <3>2. ssCollections = {col}
      BY <3>1 DEF OnlyOne, OneIsKept
    <3>3. Cardinality({col}) = 1
      BY FS_Singleton
    <3>4. Cardinality(ssCollections) = 1
      BY <3>2, <3>3, Zenon
    <3> QED BY <3>4
  <2> QED BY <2>1, <2>2
<1> QED BY <1>1, <1>2, <1>3, PTL DEF SecretServiceSpec

-----------------------------------------------------------------------------
(* The stores driven by a command or a library.                            *)

(* What each command can be part of, and the store it is a command of.     *)
BwSteps == {"bw_unlock", "bw_get", "bw_find", "bw_edit", "bw_create", "bw_delete", "bw_list"}
KpSteps ==
  {"kp_unlock", "kp_show", "kp_add", "kp_edit", "kp_search", "kp_rm", "kp_search_again", "kp_purge", "kp_ls"}
Storing == {"store", "op_create", "bw_edit", "bw_create", "kc_add", "kc_update", "kp_add", "kp_edit"}
Deleting == {"delete", "bw_delete", "kp_search", "kp_rm", "kp_search_again", "kp_purge"}

OpFits(step, op) ==
  /\ step \in Storing => op = "store"
  /\ step \in Deleting => op = "delete"
  /\ step \in {"op_delete", "bw_find"} => op \in {"store", "delete"}
  /\ step = "kp_show" => op \in {"store", "lookup"}
  /\ step = "op_get" => op # "list"
  /\ step \in {"list", "op_list", "bw_list", "kp_ls"} => op = "list"
  /\ step \in {"lookup", "bw_get"} => op = "lookup"
KindFits(step) ==
  /\ step \in BwSteps => kind = "bitwarden"
  /\ step \in KpSteps => kind = "keepassxc-cli"
  /\ step \in {"kc_add", "kc_update"} => kind = "keychain"
  /\ step \in {"op_get", "op_delete", "op_create", "op_list"} => kind = "1password"
CallFits(p) ==
  /\ at[p] \in {"idle", "bw_lock"} => call[p] = NoCall
  /\ ~Wants(p, "list") => Svc(p) \in Services
  /\ Wants(p, "store") => call[p].secret \in Secrets
EffectsFit == \A e \in late : kind # "1password" /\ (e.does # "delete" => e.secret \in Secrets)

JobsFit ==
  /\ \A p \in Shells : OpFits(at[p], call[p].op) /\ KindFits(at[p]) /\ CallFits(p)
  /\ EffectsFit

(* An item is known by its id, and one that was found keeps what it is,    *)
(* where nothing renames it.                                               *)
SameThing(i, j) == kind # "bitwarden" /\ i.id = j.id => i.svc = j.svc /\ i.mine = j.mine
IdsAreOwn ==
  /\ \A i, j \in items : i.id = j.id => i = j
  /\ \A p \in Shells : \A i \in items, j \in found[p] : SameThing(i, j)
  /\ \A p \in Shells : at[p] = "kp_purge" => \A j \in found[p] : j.svc = Svc(p)

(* Whose item is under a name of ours in each store.                       *)
ItsPlace(i) ==
  /\ kind # "1password" /\ i.place = "vault" /\ (i.svc \in Services \/ kind = "keepassxc-cli") => i.mine
  /\ kind # "keepassxc-cli" => i.place = "vault"
VaultsAreOurs == \A i \in items : ItsPlace(i)

Ours(s) == {i \in InVault(s) : i.mine}

(* Where nothing is crowded, who stores is alone with who stores or deletes, *)
(* and who is about to create found nothing.                               *)
StoresAlone ==
  \A p, q \in Shells :
    p # q /\ Wants(p, "store") /\ Svc(p) = Svc(q) /\ call[q].op \in {"store", "delete"}
      => Svc(p) \in crowded
CreatesFromNone ==
  \A p \in Shells : at[p] \in {"op_create", "bw_create"} => Svc(p) \in crowded \/ Ours(Svc(p)) = {}
OneOfAName == \A s \in Services : s \in crowded \/ \A i, j \in Ours(s) : i = j

(* What is being deleted is not owed, and what is owed is there, or is      *)
(* about to be put back, or is known to be lost.                           *)
DeletedIsNotOwed == \A p \in Shells : Wants(p, "delete") => kept[Svc(p)] = None
OwedIsThere ==
  \A s \in Services : kept[s] \notin {None, Untold} =>
    \/ \E i \in Ours(s) : s \in crowded \/ i.secret = kept[s]
    \/ \E p \in Shells : at[p] = "op_create" /\ Svc(p) = s

(* The types, in parts.                                                    *)
Answers == {"none", "ok", "miss", "error", "clash", "unsupported"}
CallTypes == [op: Ops, svc: Services \cup {Foreign}, secret: Secrets \cup {None}]
Effects == [does: {"write", "add", "update", "delete"}, svc: Services, secret: Secrets \cup {None}]

ItemTypes ==
  /\ items \in SUBSET Item /\ found \in [Shells -> SUBSET Item]
  /\ before \in [Shells -> SUBSET Item] /\ shown \in [Shells -> SUBSET Item]
JobTypes ==
  /\ call \in [Shells -> CallTypes] /\ at \in [Shells -> Steps] /\ answer \in [Shells -> Answers]
  /\ late \in SUBSET Effects
OwingTypes == kept \in [Services -> Secrets \cup {None, Untold}] /\ crowded \in SUBSET Services
FlagTypes ==
  /\ session \in [Shells -> BOOLEAN] /\ held \in [Shells -> BOOLEAN] /\ blind \in [Shells -> BOOLEAN]
PasswordTypes == dbpass \in [Shells -> {"unasked", "right", "wrong"}]
CountTypes == kind \in Kinds /\ walletFailures \in 0..MaxFailures /\ walletOutside \in 0..MaxOutside

WalletTypes ==
  ItemTypes /\ JobTypes /\ OwingTypes /\ FlagTypes /\ PasswordTypes /\ CountTypes
WalletSound ==
  /\ WalletTypes /\ JobsFit /\ IdsAreOwn /\ VaultsAreOurs
  /\ StoresAlone /\ CreatesFromNone /\ OneOfAName /\ DeletedIsNotOwed /\ OwedIsThere

LEMMA WalletsTyped == WalletTypes => WalletsTypeOK
<1> SUFFICES ASSUME WalletTypes PROVE WalletsTypeOK
  OBVIOUS
<1>1. {session, held, blind} \subseteq [Shells -> BOOLEAN]
  BY Zenon DEF WalletTypes, FlagTypes
<1>2. /\ items \subseteq Item /\ found \in [Shells -> SUBSET Item]
      /\ before \in [Shells -> SUBSET Item] /\ shown \in [Shells -> SUBSET Item]
  BY DEF WalletTypes, ItemTypes
<1>3. /\ call \in [Shells -> [op: Ops, svc: Services \cup {Foreign}, secret: Secrets \cup {None}]]
      /\ at \in [Shells -> Steps]
      /\ answer \in [Shells -> {"none", "ok", "miss", "error", "clash", "unsupported"}]
      /\ late \subseteq [does: {"write", "add", "update", "delete"}, svc: Services,
                         secret: Secrets \cup {None}]
  BY DEF WalletTypes, JobTypes, CallTypes, Answers, Effects
<1>4. /\ kept \in [Services -> Secrets \cup {None, Untold}] /\ crowded \subseteq Services
      /\ dbpass \in [Shells -> {"unasked", "right", "wrong"}]
      /\ kind \in Kinds /\ walletFailures \in 0..MaxFailures /\ walletOutside \in 0..MaxOutside
  BY DEF WalletTypes, OwingTypes, PasswordTypes, CountTypes
<1> QED BY <1>1, <1>2, <1>3, <1>4, Zenon DEF WalletsTypeOK

LEMMA InitWallets == WalletsInit => WalletSound
<1> SUFFICES ASSUME WalletsInit PROVE WalletSound
  OBVIOUS
<1>1. ItemTypes
  BY DEF WalletsInit, ItemTypes
<1>2. JobTypes
  BY DEF WalletsInit, JobTypes, CallTypes, NoCall, Ops, Steps, Answers, Effects
<1>3. FlagTypes
  BY Zenon DEF WalletsInit, FlagTypes
<1>4. OwingTypes /\ PasswordTypes
  BY DEF WalletsInit, OwingTypes, PasswordTypes
<1>5. CountTypes
  BY StoresBounds DEF WalletsInit, CountTypes
<1>6. /\ items = {} /\ late = {} /\ \A s \in Services : kept[s] = None
      /\ \A p \in Shells : at[p] = "idle" /\ call[p] = NoCall /\ found[p] = {}
  BY DEF WalletsInit
<1>7. JobsFit
  BY <1>6 DEF JobsFit, OpFits, KindFits, CallFits, EffectsFit, Storing, Deleting, BwSteps, KpSteps, Wants,
     NoCall
<1>8. IdsAreOwn /\ VaultsAreOurs
  BY <1>6 DEF IdsAreOwn, VaultsAreOurs
<1>9. StoresAlone /\ CreatesFromNone /\ DeletedIsNotOwed
  BY <1>6 DEF StoresAlone, CreatesFromNone, DeletedIsNotOwed, Wants, NoCall
<1>10. OneOfAName
  BY <1>6 DEF OneOfAName, Ours, InVault, Named
<1>11. OwedIsThere
  BY <1>6 DEF OwedIsThere
<1> QED BY <1>1, <1>2, <1>3, <1>4, <1>5, <1>7, <1>8, <1>9, <1>10, <1>11 DEF WalletSound, WalletTypes

(* What an item was before a step that made no new one.                    *)
Was(j, i) ==
  /\ j.id = i.id /\ j.svc = i.svc /\ j.mine = i.mine
  /\ i.place = j.place \/ (i.place = "bin" /\ kind = "keepassxc-cli")
  /\ i.mine \/ i.secret = j.secret
ItemsStay ==
  /\ items' \in SUBSET Item
  /\ \A i, j \in items' : i.id = j.id => i = j
  /\ \A i \in items' : \E j \in items : Was(j, i)

LEMMA UntouchedItemsStay ==
    ASSUME items \in SUBSET Item, IdsAreOwn, items' \in SUBSET items
    PROVE  ItemsStay
BY DEF ItemsStay, IdsAreOwn, Was

LEMMA OverwrittenStay ==
    ASSUME items \in SUBSET Item, IdsAreOwn, NEW which \in SUBSET items, \A i \in which : i.mine,
           NEW x \in Secrets,
           items' = (items \ which) \cup {[i EXCEPT !.secret = x] : i \in which}
    PROVE  /\ ItemsStay
           /\ \A i \in which : [i EXCEPT !.secret = x] \in items'
<1> DEFINE Over(i) == [i EXCEPT !.secret = x]
<1>1. \A i \in Item : /\ Over(i) \in Item /\ Over(i).id = i.id /\ Over(i).svc = i.svc
                       /\ Over(i).mine = i.mine /\ Over(i).place = i.place
  BY DEF Item
<1>2. \A k \in items' : (k \in items /\ k \notin which) \/ \E i \in which : k = Over(i)
  OBVIOUS
<1> HIDE DEF Over
<1>3. items' \in SUBSET Item
  BY <1>1, <1>2
<1>4. \A i, j \in items' : i.id = j.id => i = j
  BY <1>1, <1>2 DEF IdsAreOwn
<1>5. \A i \in items' : \E j \in items : Was(j, i)
  BY <1>1, <1>2 DEF Was
<1>6. \A i \in which : [i EXCEPT !.secret = x] \in items'
  OBVIOUS
<1> QED BY <1>3, <1>4, <1>5, <1>6 DEF ItemsStay

LEMMA BinnedStay ==
    ASSUME items \in SUBSET Item, IdsAreOwn, NEW which \in SUBSET items, kind = "keepassxc-cli",
           items' = ToBin(which)
    PROVE  ItemsStay
<1> DEFINE Binned(i) == [i EXCEPT !.place = "bin"]
<1>1. \A i \in Item : /\ Binned(i) \in Item /\ Binned(i).id = i.id /\ Binned(i).svc = i.svc
                       /\ Binned(i).mine = i.mine /\ Binned(i).place = "bin"
                       /\ Binned(i).secret = i.secret
  BY DEF Item
<1>2. \A k \in items' : (k \in items /\ k \notin which) \/ \E i \in which : k = Binned(i)
  BY DEF ToBin
<1> HIDE DEF Binned
<1>3. items' \in SUBSET Item
  BY <1>1, <1>2
<1>4. \A i, j \in items' : i.id = j.id => i = j
  BY <1>1, <1>2 DEF IdsAreOwn
<1>5. \A i \in items' : \E j \in items : Was(j, i)
  BY <1>1, <1>2 DEF Was
<1> QED BY <1>3, <1>4, <1>5 DEF ItemsStay

(* A new item has an id that nothing there and nothing found has.          *)
IsNew(n) ==
  /\ n \in Item /\ (\A i \in items : i.id # n.id)
  /\ \A p \in Shells : \A i \in found[p] \cup before[p] : i.id # n.id

LEMMA NewItemIsNew ==
    ASSUME NEW s \in Services \cup {Foreign}, NEW x \in Secrets, Free # {}
    PROVE  /\ IsNew(NewItem(s, x))
           /\ NewItem(s, x).svc = s /\ NewItem(s, x).secret = x
           /\ NewItem(s, x).mine /\ NewItem(s, x).place = "vault"
<1>1. PICK id \in Free : id = CHOOSE n \in Free : TRUE
  OBVIOUS
<1>2. NewItem(s, x) = [id |-> id, svc |-> s, secret |-> x, mine |-> TRUE, place |-> "vault"]
  BY <1>1 DEF NewItem
<1>3. id \in Ids /\ id \notin Taken
  BY <1>1 DEF Free
<1>4. \A i \in items : i.id # id
  BY <1>3 DEF Taken
<1>5. ASSUME NEW p \in Shells, NEW i \in found[p] \cup before[p] PROVE i.id # id
  <2>1. i.id \in UNION {{j.id : j \in found[q] \cup before[q]} : q \in Shells}
    BY <1>5
  <2> QED BY <1>3, <2>1 DEF Taken
<1>6. NewItem(s, x) \in Item
  BY <1>2, <1>3 DEF Item
<1> QED BY <1>2, <1>4, <1>5, <1>6 DEF IsNew

(* What a command of p leaves, beside the items.                           *)
OthersKeep(p) == \A q \in Shells \ {p} : blind'[q] = blind[q] /\ dbpass'[q] = dbpass[q]
Noted(p) ==
  /\ Same /\ (Works \/ Fails) /\ OthersKeep(p)
  /\ crowded \subseteq crowded' /\ crowded' \in SUBSET Services /\ (blind[p] => blind'[p])
  /\ FlagTypes' /\ PasswordTypes'
  /\ late' \in SUBSET Effects /\ EffectsFit'
  /\ \E w \in SUBSET (items \cup found[p]) : found' \in {found, [found EXCEPT ![p] = w]}

(* It goes on to the next command ...                                      *)
WentOn(p) ==
  \E next \in Steps \ {"idle", "bw_lock"} :
    /\ Goes(p, next) /\ OpFits(next, call[p].op) /\ KindFits(next) /\ at[p] # "op_create"
    /\ next \in {"op_create", "bw_create"} => Svc(p) \in crowded' \/ Ours(Svc(p))' = {}
    /\ next = "kp_purge" => \A j \in found'[p] : j.svc = Svc(p)
    /\ items' = items \/ Wants(p, "delete") \/ next = "op_create"
(* ... or it is done, and what it says it stored is there.                 *)
Returned(p) ==
  \E ans \in Answers, out \in SUBSET Item :
    /\ ReturnWith(p, ans, out)
    /\ Wants(p, "store") /\ ans = "ok" =>
         \E i \in items' : i.svc = Svc(p) /\ i.place = "vault" /\ i.mine /\ i.secret = call[p].secret

(* It makes one item where there is none of ours, or changes or removes     *)
(* those of its name.                                                      *)
MadeOne(p) ==
  /\ Wants(p, "store") /\ Free # {} /\ items' = Created(p)
  /\ Svc(p) \in crowded \/ Ours(Svc(p)) = {}
ChangedItsOwn(p) ==
  /\ Wants(p, "store") \/ Wants(p, "delete")
  /\ ItemsStay /\ \A i \in items : i.svc # Svc(p) => i \in items'
ItemsWork(p) == items' = items \/ MadeOne(p) \/ ChangedItsOwn(p)

LEMMA WorkKeepsItems ==
    ASSUME WalletSound, NEW p \in Shells, Noted(p), ItemsWork(p)
    PROVE  /\ items' \in SUBSET Item
           /\ \A i, j \in items' : i.id = j.id => i = j
           /\ VaultsAreOurs'
           /\ \A q \in Shells : \A i \in items', j \in found'[q] : SameThing(i, j)
           /\ \A s \in Services : s # Svc(p) => \A i \in items : i.svc = s => i \in items'
           /\ \A s \in Services \ crowded : \A i, j \in Ours(s)' : i = j
           /\ \A s \in Services : Ours(s) = {} => Ours(s)' = {} \/ (s = Svc(p) /\ Wants(p, "store"))
<1>t. /\ items \in SUBSET Item /\ IdsAreOwn /\ VaultsAreOurs /\ OneOfAName /\ UNCHANGED kind
      /\ found \in [Shells -> SUBSET Item] /\ call[p] \in CallTypes
      /\ Wants(p, "store") => Svc(p) \in Services /\ call[p].secret \in Secrets
  BY DEF WalletSound, WalletTypes, ItemTypes, JobTypes, JobsFit, CallFits, Noted, Same, Wants
<1>1. /\ \A q \in Shells \ {p} : found'[q] = found[q]
      /\ \A j \in found'[p] : j \in items \/ j \in found[p]
  BY <1>t DEF Noted
<1>2. ASSUME ItemsStay, \A i \in items : i.svc # Svc(p) => i \in items'
      PROVE  /\ items' \in SUBSET Item
             /\ \A i, j \in items' : i.id = j.id => i = j
             /\ VaultsAreOurs'
             /\ \A q \in Shells : \A i \in items', j \in found'[q] : SameThing(i, j)
             /\ \A s \in Services : s # Svc(p) => \A i \in items : i.svc = s => i \in items'
             /\ \A s \in Services \ crowded : \A i, j \in Ours(s)' : i = j
             /\ \A s \in Services : Ours(s) = {} => Ours(s)' = {}
  <2>1. items' \in SUBSET Item /\ \A i, j \in items' : i.id = j.id => i = j
    BY <1>2 DEF ItemsStay
  <2>2. \A i \in items' : \E j \in items : Was(j, i)
    BY <1>2 DEF ItemsStay
  <2>3. VaultsAreOurs'
    BY <1>t, <2>2 DEF VaultsAreOurs, ItsPlace, Was
  <2>4. \A q \in Shells : \A i \in items', j \in found'[q] : SameThing(i, j)
    BY <1>t, <1>1, <2>2 DEF IdsAreOwn, SameThing, Was
  <2>5. \A s \in Services : \A i \in Ours(s)' : \E j \in Ours(s) : j.id = i.id
    BY <2>2 DEF Ours, InVault, Named, Was
  <2>6. \A s : Ours(s)' \subseteq items'
    BY DEF Ours, InVault, Named
  <2>7. \A s \in Services \ crowded : \A i, j \in Ours(s)' : i = j
    BY <1>t, <2>1, <2>5, <2>6 DEF OneOfAName
  <2>8. \A s \in Services : Ours(s) = {} => Ours(s)' = {}
    BY <2>5
  <2> QED BY <1>2, <2>1, <2>3, <2>4, <2>7, <2>8
<1>3. CASE items' = items
  BY <1>2, <1>3, <1>t, UntouchedItemsStay
<1>4. CASE ChangedItsOwn(p)
  BY <1>2, <1>4 DEF ChangedItsOwn
<1>5. CASE MadeOne(p)
  <2> DEFINE n == NewItem(Svc(p), call[p].secret)
  <2>1. IsNew(n) /\ n.svc = Svc(p) /\ n.mine /\ n.place = "vault"
    <3>1. Svc(p) \in Services \cup {Foreign} /\ call[p].secret \in Secrets /\ Free # {}
      BY <1>t, <1>5 DEF MadeOne
    <3> QED BY <3>1, NewItemIsNew, Zenon
  <2>2. items' = items \cup {n} /\ (Svc(p) \in crowded \/ Ours(Svc(p)) = {}) /\ Wants(p, "store")
    BY <1>5 DEF MadeOne, Created
  <2> HIDE DEF n
  <2>3. items' \in SUBSET Item /\ \A i, j \in items' : i.id = j.id => i = j
    BY <1>t, <2>1, <2>2 DEF IsNew, IdsAreOwn
  <2>4. VaultsAreOurs'
    BY <1>t, <2>1, <2>2 DEF VaultsAreOurs, ItsPlace
  <2>5. \A q \in Shells : \A i \in items', j \in found'[q] : SameThing(i, j)
    <3>1. \A q \in Shells : \A j \in found'[q] : j \in items \/ j \in found[q]
      BY <1>1
    <3>2. \A q \in Shells : \A i \in items, j \in found'[q] : SameThing(i, j)
      BY <1>t, <3>1 DEF IdsAreOwn, SameThing
    <3>3. \A q \in Shells : \A j \in found'[q] : SameThing(n, j)
      BY <2>1, <3>1 DEF IsNew, SameThing
    <3> QED BY <2>2, <3>2, <3>3
  <2>6. \A s : Ours(s)' = IF s = Svc(p) THEN Ours(s) \cup {n} ELSE Ours(s)
    BY <2>1, <2>2 DEF Ours, InVault, Named
  <2>7. \A s \in Services \ crowded : \A i, j \in Ours(s)' : i = j
    BY <1>t, <2>2, <2>6 DEF OneOfAName
  <2>8. \A s \in Services : Ours(s) = {} => Ours(s)' = {} \/ (s = Svc(p) /\ Wants(p, "store"))
    BY <2>2, <2>6
  <2> QED BY <2>2, <2>3, <2>4, <2>5, <2>7, <2>8
<1> QED BY <1>3, <1>4, <1>5 DEF ItemsWork

LEMMA WorkStands ==
    ASSUME WalletSound, NEW p \in Shells, at[p] \notin {"idle", "bw_lock"}, Noted(p), ItemsWork(p),
           WentOn(p) \/ Returned(p)
    PROVE  WalletSound'
<1>t. /\ ItemTypes /\ JobTypes /\ OwingTypes /\ CountTypes /\ UNCHANGED <<kind, walletOutside>>
      /\ JobsFit /\ IdsAreOwn /\ StoresAlone /\ CreatesFromNone /\ OneOfAName
      /\ DeletedIsNotOwed /\ OwedIsThere
      /\ crowded \subseteq crowded' /\ crowded' \in SUBSET Services
  BY DEF WalletSound, WalletTypes, Noted, Same
<1>c. /\ OpFits(at[p], call[p].op) /\ KindFits(at[p]) /\ CallFits(p)
      /\ call[p] \in CallTypes
  BY <1>t DEF JobsFit, JobTypes
<1>n. NoCall \in CallTypes /\ NoCall.op = "list" /\ NoCall.svc = Foreign
  BY DEF NoCall, CallTypes, Ops
<1>1. \E next \in Steps :
        /\ at' = [at EXCEPT ![p] = next]
        /\ \/ /\ UNCHANGED <<call, kept, before, shown, answer>> /\ next \notin {"idle", "bw_lock"}
              /\ OpFits(next, call[p].op) /\ KindFits(next)
              /\ items' = items \/ Wants(p, "delete") \/ next = "op_create"
              /\ at[p] # "op_create"
           \/ /\ call' = [call EXCEPT ![p] = NoCall] /\ next \in {"idle", "bw_lock"}
              /\ before' = [before EXCEPT ![p] = {}]
              /\ \E out \in SUBSET Item : shown' = [shown EXCEPT ![p] = out]
              /\ \E ans \in Answers : answer' = [answer EXCEPT ![p] = ans]
        /\ next \in {"op_create", "bw_create"} => Svc(p) \in crowded' \/ Ours(Svc(p))' = {}
        /\ next = "kp_purge" => \A j \in found'[p] : j.svc = Svc(p)
  <2>1. CASE WentOn(p)
    BY <2>1 DEF WentOn, Goes
  <2>2. CASE Returned(p)
    <3>1. PICK ans \in Answers, out \in SUBSET Item : ReturnWith(p, ans, out)
      BY <2>2 DEF Returned
    <3>2. PICK next \in {"idle", "bw_lock"} : at' = [at EXCEPT ![p] = next]
      BY <3>1 DEF ReturnWith, Says, Owed
    <3>3. /\ call' = [call EXCEPT ![p] = NoCall] /\ before' = [before EXCEPT ![p] = {}]
          /\ shown' = [shown EXCEPT ![p] = out] /\ answer' = [answer EXCEPT ![p] = ans]
      BY <3>1 DEF ReturnWith, Says, Owed
    <3>4. next \in Steps
      BY DEF Steps
    <3> QED BY <3>1, <3>2, <3>3, <3>4
  <2> QED BY <2>1, <2>2
<1>2. PICK next \in Steps :
        /\ at' = [at EXCEPT ![p] = next]
        /\ \/ /\ UNCHANGED <<call, kept, before, shown, answer>> /\ next \notin {"idle", "bw_lock"}
              /\ OpFits(next, call[p].op) /\ KindFits(next)
              /\ items' = items \/ Wants(p, "delete") \/ next = "op_create"
              /\ at[p] # "op_create"
           \/ /\ call' = [call EXCEPT ![p] = NoCall] /\ next \in {"idle", "bw_lock"}
              /\ before' = [before EXCEPT ![p] = {}]
              /\ \E out \in SUBSET Item : shown' = [shown EXCEPT ![p] = out]
              /\ \E ans \in Answers : answer' = [answer EXCEPT ![p] = ans]
        /\ next \in {"op_create", "bw_create"} => Svc(p) \in crowded' \/ Ours(Svc(p))' = {}
        /\ next = "kp_purge" => \A j \in found'[p] : j.svc = Svc(p)
  BY <1>1
<1>3. /\ at' \in [Shells -> Steps] /\ at'[p] = next
      /\ \A q \in Shells \ {p} : at'[q] = at[q]
  BY <1>t, <1>2 DEF JobTypes
<1>4. /\ call' \in [Shells -> CallTypes]
      /\ \A q \in Shells \ {p} : call'[q] = call[q]
      /\ call'[p] = call[p] \/ (call'[p] = NoCall /\ next \in {"idle", "bw_lock"})
      /\ next \in {"idle", "bw_lock"} => call'[p] = NoCall
  BY <1>t, <1>2, <1>n DEF JobTypes
<1>5. /\ items' \in SUBSET Item
      /\ \A i, j \in items' : i.id = j.id => i = j
      /\ VaultsAreOurs'
      /\ \A q \in Shells : \A i \in items', j \in found'[q] : SameThing(i, j)
      /\ \A s \in Services : s # Svc(p) => \A i \in items : i.svc = s => i \in items'
      /\ \A s \in Services \ crowded : \A i, j \in Ours(s)' : i = j
      /\ \A s \in Services : Ours(s) = {} => Ours(s)' = {} \/ (s = Svc(p) /\ Wants(p, "store"))
  BY WorkKeepsItems
<1>6. found' \in [Shells -> SUBSET Item] /\ \A q \in Shells \ {p} : found'[q] = found[q]
  BY <1>t DEF Noted, ItemTypes
<1>7. ItemTypes'
  BY <1>t, <1>2, <1>5, <1>6 DEF ItemTypes
<1>8. JobTypes'
  BY <1>t, <1>2, <1>3, <1>4 DEF JobTypes, Noted
<1>9. kept' = kept \/ (Wants(p, "store") /\ call' = [call EXCEPT ![p] = NoCall]
         /\ \E ans \in Answers :
              /\ kept' = [kept EXCEPT ![Svc(p)] =
                            IF ans = "ok" /\ ~Forgetting(p) THEN call[p].secret ELSE None]
              /\ ans = "ok" => \E i \in items' : /\ i.svc = Svc(p) /\ i.place = "vault" /\ i.mine
                                                 /\ i.secret = call[p].secret)
  <2>1. CASE WentOn(p)
    BY <2>1 DEF WentOn, Goes
  <2>2. CASE Returned(p)
    BY <2>2, Zenon DEF Returned, ReturnWith, Says, Owed
  <2> QED BY <2>1, <2>2
<1>10. Wants(p, "store") => Svc(p) \in Services /\ call[p].secret \in Secrets
  BY <1>c DEF CallFits, Wants
<1>11. OwingTypes'
  BY <1>t, <1>9, <1>10 DEF OwingTypes
<1>12. CountTypes'
  BY <1>t, StoresBounds DEF CountTypes, Noted, Works, Fails
<1>13. JobsFit'
  <2>1. ASSUME NEW q \in Shells PROVE OpFits(at'[q], call'[q].op) /\ KindFits(at'[q]) /\ CallFits(q)'
    <3>1. CASE q # p
      BY <1>t, <1>3, <1>4, <2>1, <3>1 DEF JobsFit, CallFits, Wants, Svc
    <3>2. CASE q = p /\ next \notin {"idle", "bw_lock"}
      <4>1. at'[q] = next /\ call'[q] = call[p] /\ OpFits(next, call[p].op) /\ KindFits(next)
        BY <1>2, <1>3, <1>4, <3>2
      <4> QED BY <1>t, <1>c, <3>2, <4>1 DEF CallFits, Wants, Svc
    <3>3. CASE q = p /\ next \in {"idle", "bw_lock"}
      <4>1. at'[q] = next /\ call'[q] = NoCall
        BY <1>3, <1>4, <3>3
      <4> QED BY <1>n, <3>3, <4>1 DEF OpFits, KindFits, CallFits, Wants, Storing, Deleting, BwSteps, KpSteps
    <3> QED BY <3>1, <3>2, <3>3
  <2> QED BY <1>t, <2>1 DEF JobsFit, KindFits, Noted
<1>14. IdsAreOwn'
  <2>1. ASSUME NEW q \in Shells, at'[q] = "kp_purge"
        PROVE  \A j \in found'[q] : j.svc = call'[q].svc
    <3>1. CASE q # p
      BY <1>t, <1>3, <1>4, <1>6, <2>1, <3>1 DEF IdsAreOwn, Svc
    <3>2. CASE q = p
      BY <1>2, <1>3, <1>4, <2>1, <3>2 DEF Svc
    <3> QED BY <3>1, <3>2
  <2> QED BY <1>t, <1>5, <2>1 DEF IdsAreOwn, SameThing, Svc
<1>15. StoresAlone'
  BY <1>t, <1>4, <1>n DEF StoresAlone, Wants, Svc
<1>16. CreatesFromNone'
  <2>1. ASSUME NEW q \in Shells, at'[q] \in {"op_create", "bw_create"}
        PROVE  call'[q].svc \in crowded' \/ Ours(Svc(q))' = {}
    <3>1. CASE q # p
      <4>1. at[q] \in {"op_create", "bw_create"} /\ call'[q] = call[q] /\ Wants(q, "store")
        BY <1>t, <1>3, <1>4, <2>1, <3>1 DEF JobsFit, OpFits, Storing, Wants
      <4>2. Svc(q) \in Services /\ (Svc(q) \in crowded \/ Ours(Svc(q)) = {})
        BY <1>t, <2>1, <4>1 DEF CreatesFromNone, JobsFit, CallFits, Wants
      <4>3. Svc(q) = Svc(p) /\ Wants(p, "store") => Svc(q) \in crowded
        BY <1>t, <3>1, <4>1 DEF StoresAlone, Wants
      <4>4. Svc(q) \in crowded' \/ (\E s \in Services : s = Svc(q) /\ Ours(s)' = {})
        BY <1>t, <1>5, <4>2, <4>3
      <4> QED BY <4>1, <4>4 DEF Svc
    <3>2. CASE q = p
      <4>1. at'[q] = next /\ call'[q] = call[p]
        BY <1>3, <1>4, <2>1, <3>2
      <4>2. Svc(p) \in crowded' \/ Ours(Svc(p))' = {}
        BY <1>2, <2>1, <4>1
      <4> QED BY <3>2, <4>1, <4>2 DEF Svc
    <3> QED BY <3>1, <3>2
  <2> QED BY <2>1 DEF CreatesFromNone, Svc
<1>17. OneOfAName'
  BY <1>t, <1>5 DEF OneOfAName
<1>18. DeletedIsNotOwed'
  <2>1. ASSUME NEW q \in Shells, call'[q].op = "delete" PROVE kept'[call'[q].svc] = None
    <3>1. call'[q] = call[q] /\ Wants(q, "delete") /\ Svc(q) \in Services /\ Busy(q)
      <4>1. call'[q] = call[q] /\ call[q].op = "delete"
        BY <1>4, <1>n, <2>1
      <4> QED BY <1>t, <1>n, <4>1 DEF JobsFit, CallFits, Wants, Busy
    <3>2. kept[Svc(q)] = None
      BY <1>t, <3>1 DEF DeletedIsNotOwed
    <3>3. CASE kept' = kept
      BY <3>1, <3>2, <3>3 DEF Svc
    <3>4. CASE Wants(p, "store") /\ kept' # kept
      <4>1. q # p
        BY <3>1, <3>4 DEF Wants
      <4>2. Svc(q) = Svc(p) => Forgetting(p)
        BY <3>1, <4>1 DEF Forgetting
      <4>3. PICK x : kept' = [kept EXCEPT ![Svc(p)] = x] /\ (Forgetting(p) => x = None)
        BY <1>9, <3>4
      <4> QED BY <1>t, <3>1, <3>2, <4>2, <4>3 DEF OwingTypes, Svc
    <3> QED BY <1>9, <3>3, <3>4
  <2> QED BY <2>1 DEF DeletedIsNotOwed, Wants, Svc
<1>19. OwedIsThere'
  <2>1. ASSUME NEW s \in Services, kept'[s] \notin {None, Untold}
        PROVE  \/ \E i \in Ours(s)' : s \in crowded' \/ i.secret = kept'[s]
               \/ \E q \in Shells : at'[q] = "op_create" /\ call'[q].svc = s
    <3> DEFINE There == \E i \in Ours(s)' : s \in crowded' \/ i.secret = kept'[s]
               Awaited == \E q \in Shells : at'[q] = "op_create" /\ call'[q].svc = s
    <3>1. CASE s = Svc(p) /\ kept' # kept
      <4>1. PICK i \in items' : /\ i.svc = s /\ i.place = "vault" /\ i.mine /\ i.secret = kept'[s]
        BY <1>t, <1>9, <2>1, <3>1 DEF OwingTypes
      <4> QED BY <4>1 DEF Ours, InVault, Named
    <3>2. CASE ~(s = Svc(p) /\ kept' # kept)
      <4>1. kept'[s] = kept[s] /\ kept[s] \notin {None, Untold}
        BY <1>t, <1>9, <2>1, <3>2 DEF OwingTypes
      <4>2. CASE s # Svc(p)
        <5>1. ASSUME NEW i \in Ours(s), s \in crowded \/ i.secret = kept[s] PROVE There
          <6>1. i \in items /\ i.svc = s /\ i.place = "vault" /\ i.mine
            BY <5>1 DEF Ours, InVault, Named
          <6>2. i \in Ours(s)'
            BY <1>5, <4>2, <6>1 DEF Ours, InVault, Named
          <6> QED BY <1>t, <4>1, <5>1, <6>2
        <5>2. ASSUME NEW q \in Shells, at[q] = "op_create", Svc(q) = s PROVE Awaited
          BY <1>3, <1>4, <4>2, <5>2 DEF Svc
        <5> QED BY <1>t, <4>1, <5>1, <5>2 DEF OwedIsThere
      <4>3. CASE s = Svc(p) /\ next = "op_create"
        BY <1>3, <1>4, <4>3 DEF Svc
      <4>4. CASE s = Svc(p) /\ next # "op_create"
        <5>1. ~Wants(p, "delete")
          BY <1>t, <4>1, <4>4 DEF DeletedIsNotOwed
        <5>2. ~(Wants(p, "store") /\ call' = [call EXCEPT ![p] = NoCall])
              \/ \E i \in items' : /\ i.svc = s /\ i.place = "vault" /\ i.mine /\ i.secret = kept'[s]
          <6>1. SUFFICES ASSUME Wants(p, "store"), call' = [call EXCEPT ![p] = NoCall]
                         PROVE  \E i \in items' : /\ i.svc = s /\ i.place = "vault" /\ i.mine
                                                  /\ i.secret = kept'[s]
            OBVIOUS
          <6>2. Returned(p)
            BY <1>n, <1>t, <6>1 DEF WentOn, Goes, Wants, JobTypes
          <6>3. PICK ans \in Answers :
                  /\ kept' = [kept EXCEPT ![Svc(p)] =
                            IF ans = "ok" /\ ~Forgetting(p) THEN call[p].secret ELSE None]
                  /\ ans = "ok" => \E i \in items' : /\ i.svc = Svc(p) /\ i.place = "vault" /\ i.mine
                                                 /\ i.secret = call[p].secret
            BY <6>1, <6>2, Zenon DEF Returned, ReturnWith, Says, Owed
          <6> QED BY <1>t, <2>1, <4>4, <6>3 DEF OwingTypes
        <5>3. CASE \E i \in items' : i.svc = s /\ i.place = "vault" /\ i.mine /\ i.secret = kept'[s]
          BY <5>3 DEF Ours, InVault, Named
        <5>4. CASE ~(Wants(p, "store") /\ call' = [call EXCEPT ![p] = NoCall])
          <6>1. items' = items
            <7>1. CASE Wants(p, "store")
              BY <1>2, <4>4, <5>1, <5>4, <7>1
            <7>2. CASE ~Wants(p, "store")
              BY <5>1, <7>2 DEF ItemsWork, MadeOne, ChangedItsOwn
            <7> QED BY <7>1, <7>2
          <6>2. at[p] # "op_create"
            BY <1>2, <1>c, <5>4 DEF OpFits, Storing, Wants
          <6>3. Ours(s)' = Ours(s)
            BY <6>1 DEF Ours, InVault, Named
          <6>4. ASSUME NEW q \in Shells, at[q] = "op_create", Svc(q) = s PROVE Awaited
            BY <1>3, <1>4, <6>2, <6>4 DEF Svc
          <6> QED BY <1>t, <4>1, <6>3, <6>4 DEF OwedIsThere
        <5> QED BY <5>2, <5>3, <5>4
      <4> QED BY <4>2, <4>3, <4>4
    <3> QED BY <3>1, <3>2
  <2> QED BY <2>1 DEF OwedIsThere, Svc
<1>20. FlagTypes' /\ PasswordTypes'
  BY DEF Noted
<1> QED
  BY <1>5, <1>7, <1>8, <1>11, <1>12, <1>13, <1>14, <1>15, <1>16, <1>17, <1>18, <1>19, <1>20
  DEF WalletSound, WalletTypes

Worked(p) == Noted(p) /\ ItemsWork(p) /\ (WentOn(p) \/ Returned(p))

(* What every command may rely on.                                         *)
LEMMA AtWork ==
    ASSUME WalletSound, NEW p \in Shells
    PROVE  /\ items \in SUBSET Item /\ found[p] \in SUBSET Item
           /\ IdsAreOwn /\ VaultsAreOurs /\ CreatesFromNone
           /\ call[p].op \in Ops /\ OpFits(at[p], call[p].op) /\ KindFits(at[p])
           /\ ~Wants(p, "list") => Svc(p) \in Services
           /\ Wants(p, "store") => call[p].secret \in Secrets
BY DEF WalletSound, WalletTypes, ItemTypes, JobTypes, JobsFit, CallFits, CallTypes

(* What is noted of a command that leaves alone what the shell keeps and    *)
(* the calls that were given up on.                                        *)
LEMMA OwnKeepsTypes ==
    ASSUME FlagTypes, PasswordTypes, UNCHANGED own, blind' \in [Shells -> BOOLEAN]
    PROVE  FlagTypes' /\ PasswordTypes'
<1>1. UNCHANGED <<session, held, dbpass>>
  BY DEF own
<1>2. session' \in [Shells -> BOOLEAN] /\ held' \in [Shells -> BOOLEAN]
  BY <1>1, Zenon DEF FlagTypes
<1>3. FlagTypes'
  BY <1>2, Zenon DEF FlagTypes
<1>4. PasswordTypes'
  BY <1>1, Zenon DEF PasswordTypes
<1> QED BY <1>3, <1>4

LEMMA BlindIsSet ==
    ASSUME NEW f \in [Shells -> BOOLEAN], NEW p, NEW b
    PROVE  [f EXCEPT ![p] = @ \/ b] \in [Shells -> BOOLEAN]
BY Zenon

(* What TakenForMiss makes of the shells' blindness.                       *)
LEMMA BlindnessGrows ==
    ASSUME blind \in [Shells -> BOOLEAN], NEW p \in Shells, NEW missed, TakenForMiss(p, missed)
    PROVE  /\ blind[p] => blind'[p]
           /\ missed => blind'[p]
           /\ \A q \in Shells \ {p} : blind'[q] = blind[q]
BY Zenon DEF TakenForMiss

LEMMA WorkIsNoted ==
    ASSUME WalletSound, NEW p \in Shells, Same, Works \/ Fails, UNCHANGED <<own, late>>,
           \E w \in SUBSET (items \cup found[p]) : found' \in {found, [found EXCEPT ![p] = w]},
           NotBlind \/ \E missed \in BOOLEAN : TakenForMiss(p, missed)
    PROVE  Noted(p)
<1>t. /\ FlagTypes /\ PasswordTypes /\ late \in SUBSET Effects /\ EffectsFit
      /\ crowded \in SUBSET Services /\ blind \in [Shells -> BOOLEAN]
  BY DEF WalletSound, WalletTypes, JobTypes, OwingTypes, FlagTypes, JobsFit
<1>1. crowded \subseteq crowded' /\ crowded' \in SUBSET Services
  BY <1>t, AtWork DEF NotBlind, TakenForMiss, Wants
<1>2. blind' \in [Shells -> BOOLEAN]
  <2>1. blind' = blind \/ \E missed : blind' = [blind EXCEPT ![p] = @ \/ missed]
    BY Zenon DEF NotBlind, TakenForMiss
  <2> QED BY <1>t, <2>1, BlindIsSet, Zenon
<1>3. FlagTypes' /\ PasswordTypes'
  BY <1>t, <1>2, OwnKeepsTypes
<1>4. late' \in SUBSET Effects /\ EffectsFit'
  BY <1>t DEF EffectsFit, Same
<1>5. OthersKeep(p)
  <2>1. \A q \in Shells \ {p} : blind'[q] = blind[q]
    BY <1>t, BlindnessGrows DEF NotBlind
  <2> QED BY <2>1 DEF OthersKeep, own
<1>6. blind[p] => blind'[p]
  BY <1>t, BlindnessGrows DEF NotBlind
<1> QED BY <1>1, <1>3, <1>4, <1>5, <1>6 DEF Noted

(* It returns, with nothing it says it stored ...                          *)
LEMMA ReturnsSo ==
    ASSUME NEW p, NEW ans \in Answers, NEW out \in SUBSET Item, ReturnWith(p, ans, out),
           Wants(p, "store") => ans # "ok"
    PROVE  Returned(p)
BY DEF Returned

(* ... and it goes on, where the next command needs nothing but to be one.  *)
LEMMA GoesSo ==
    ASSUME NEW p, NEW next \in Steps \ {"idle", "bw_lock", "op_create", "bw_create", "bw_edit",
                                        "bw_delete", "kp_purge"},
           Goes(p, next), OpFits(next, call[p].op), KindFits(next), at[p] # "op_create",
           items' = items \/ Wants(p, "delete")
    PROVE  WentOn(p)
BY DEF WentOn

LEMMA SaidOf == {"miss", "error", "ok", "clash", "unsupported"} \subseteq Answers /\ {} \in SUBSET Item
BY DEF Answers

(* A command that only looks, and is done ...                              *)
LEMMA LookReturns ==
    ASSUME WalletSound, NEW p \in Shells, Same, Works \/ Fails, UNCHANGED <<items, own, found, late>>,
           NotBlind \/ \E missed \in BOOLEAN : TakenForMiss(p, missed),
           NEW ans \in Answers, NEW out \in SUBSET Item, ReturnWith(p, ans, out),
           Wants(p, "store") => ans # "ok"
    PROVE  Worked(p)
<1>1. Noted(p)
  BY WorkIsNoted
<1>2. Returned(p)
  BY ReturnsSo
<1> QED BY <1>1, <1>2 DEF Worked, ItemsWork

(* ... or goes on to what needs nothing but to be the next one.            *)
LEMMA LookGoesOn ==
    ASSUME WalletSound, NEW p \in Shells, Same, Works \/ Fails, UNCHANGED <<items, own, late>>,
           \E w \in SUBSET (items \cup found[p]) : found' \in {found, [found EXCEPT ![p] = w]},
           NotBlind \/ \E missed \in BOOLEAN : TakenForMiss(p, missed),
           NEW next \in Steps \ {"idle", "bw_lock", "op_create", "bw_create", "bw_edit",
                                 "bw_delete", "kp_purge"},
           Goes(p, next), OpFits(next, call[p].op), KindFits(next), at[p] # "op_create"
    PROVE  Worked(p)
<1>1. Noted(p)
  BY WorkIsNoted
<1>2. WentOn(p)
  BY GoesSo
<1> QED BY <1>1, <1>2 DEF Worked, ItemsWork

(* ... or, having found nothing, to creating it.                           *)
LEMMA MissGoesToCreate ==
    ASSUME WalletSound, NEW p \in Shells, Same, Works \/ Fails, UNCHANGED <<items, own, found, late>>,
           TakenForMiss(p, Named(Svc(p)) # {}), NEW next \in {"op_create", "bw_create"},
           KindFits(next), Goes(p, next), Wants(p, "store"), at[p] # "op_create"
    PROVE  Worked(p)
<1>1. Noted(p)
  BY WorkIsNoted
<1>2. Svc(p) \in crowded' \/ Named(Svc(p)) = {}
  BY DEF TakenForMiss
<1>3. Named(Svc(p)) = {} => Ours(Svc(p))' = {}
  BY DEF Goes, Ours, InVault, Named, Svc
<1>4. OpFits(next, call[p].op) /\ next \in Steps
  BY DEF OpFits, Storing, Deleting, Wants, Steps
<1>5. WentOn(p)
  BY <1>2, <1>3, <1>4 DEF WentOn
<1> QED BY <1>1, <1>5 DEF Worked, ItemsWork

(* A command that changes the items, and is done.                          *)
Saves(p, all) ==
  Wants(p, "store") =>
    \E i \in all : i.svc = Svc(p) /\ i.place = "vault" /\ i.mine /\ i.secret = call[p].secret

LEMMA ChangeReturns ==
    ASSUME WalletSound, NEW p \in Shells, Same, Works \/ Fails, UNCHANGED <<own, found, late>>, NotBlind,
           NEW new, items' \in {items, new},
           Return(p, "error") \/ (Return(p, "ok") /\ items' = new /\ Saves(p, new)),
           items' = new => items' = items \/ MadeOne(p) \/ ChangedItsOwn(p)
    PROVE  Worked(p)
<1>1. Noted(p)
  BY WorkIsNoted
<1>2. ItemsWork(p)
  BY DEF ItemsWork
<1>3. CASE Return(p, "error")
  <2>1. Returned(p)
    BY <1>3, SaidOf, ReturnsSo DEF Return
  <2> QED BY <1>1, <1>2, <2>1 DEF Worked
<1>4. CASE Return(p, "ok") /\ items' = new /\ Saves(p, new)
  <2>1. Returned(p)
    BY <1>4, SaidOf DEF Return, Returned, Saves
  <2> QED BY <1>1, <1>2, <2>1 DEF Worked
<1> QED BY <1>3, <1>4

(* What a command makes is saved, and so is what one writes over.          *)
LEMMA CreatedIsSaved ==
    ASSUME WalletSound, NEW p \in Shells, Free # {}, Wants(p, "store")
    PROVE  Saves(p, Created(p))
<1>1. Svc(p) \in Services /\ call[p].secret \in Secrets
  BY AtWork DEF Wants
<1> QED BY <1>1, NewItemIsNew DEF Created, Saves

LEMMA OverwrittenIsSaved ==
    ASSUME WalletSound, NEW p \in Shells, Wants(p, "store"),
           NEW which \in SUBSET items, which # {},
           \A i \in which : i.svc = Svc(p) /\ i.place = "vault" /\ i.mine
    PROVE  Saves(p, Overwritten(p, which))
<1>1. which \in SUBSET Item /\ call[p].secret \in Secrets
  BY AtWork DEF Wants
<1>2. PICK i \in which : TRUE
  OBVIOUS
<1> DEFINE j == [i EXCEPT !.secret = call[p].secret]
<1>3. j \in Overwritten(p, which)
  BY DEF Overwritten
<1>4. j.svc = i.svc /\ j.place = i.place /\ j.mine = i.mine /\ j.secret = call[p].secret
  BY <1>1, <1>2 DEF Item
<1> HIDE DEF j
<1> QED BY <1>2, <1>3, <1>4 DEF Saves

LEMMA OverwrittenIsItsOwn ==
    ASSUME WalletSound, NEW p \in Shells, Wants(p, "store"),
           NEW which \in SUBSET items, \A i \in which : i.svc = Svc(p) /\ i.mine,
           items' = Overwritten(p, which)
    PROVE  ChangedItsOwn(p)
<1>1. items \in SUBSET Item /\ IdsAreOwn /\ call[p].secret \in Secrets
  BY AtWork DEF Wants
<1>2. ItemsStay
  BY <1>1, OverwrittenStay DEF Overwritten
<1> QED BY <1>2 DEF ChangedItsOwn, Overwritten

LEMMA RemovedIsItsOwn ==
    ASSUME WalletSound, NEW p \in Shells, Wants(p, "store") \/ Wants(p, "delete"),
           NEW which, \A i \in which : i.svc = Svc(p), items' = items \ which
    PROVE  ChangedItsOwn(p)
<1>1. items \in SUBSET Item /\ IdsAreOwn
  BY AtWork
<1>2. ItemsStay
  BY <1>1, UntouchedItemsStay
<1> QED BY <1>2 DEF ChangedItsOwn

(* 1Password.                                                              *)
LEMMA OpGetWorks ==
    ASSUME WalletSound, NEW p \in Shells, OpGet(p)
    PROVE  Worked(p)
<1>t. /\ items \in SUBSET Item /\ call[p].op \in Ops /\ OpFits(at[p], call[p].op) /\ KindFits(at[p])
  BY AtWork
<1>1. /\ Same /\ (Works \/ Fails) /\ UNCHANGED <<items, own, found, late>> /\ at[p] = "op_get"
      /\ NotBlind \/ \E missed \in BOOLEAN : TakenForMiss(p, missed)
  BY DEF OpGet
<1>2. call[p].op \in {"lookup", "store", "delete"}
  BY <1>t, <1>1 DEF OpFits, Ops
<1>3. Named(Svc(p)) \in SUBSET Item
  BY <1>t DEF Named
<1>a. ASSUME NEW ans \in {"error", "miss", "ok", "clash"}, NEW out \in SUBSET Item,
             ReturnWith(p, ans, out), Wants(p, "store") => ans # "ok"
      PROVE  Worked(p)
  BY <1>1, <1>a, LookReturns, SaidOf
<1>b. ASSUME Goes(p, "op_delete"), call[p].op \in {"store", "delete"} PROVE Worked(p)
  <2>1. OpFits("op_delete", call[p].op) /\ KindFits("op_delete") /\ "op_delete" \in Steps
    BY <1>t, <1>1, <1>b DEF OpFits, KindFits, Storing, Deleting, BwSteps, KpSteps, Steps
  <2> QED BY <1>1, <1>b, <2>1, LookGoesOn
<1>c. ASSUME Goes(p, "op_create"), Wants(p, "store"), TakenForMiss(p, Named(Svc(p)) # {})
      PROVE  Worked(p)
  <2>1. KindFits("op_create")
    BY <1>t, <1>1 DEF KindFits, BwSteps, KpSteps
  <2> QED BY <1>1, <1>c, <2>1, MissGoesToCreate
<1>4. CASE Return(p, "error") /\ NotBlind
  BY <1>4, <1>a, SaidOf DEF Return
<1>5. CASE /\ TakenForMiss(p, Named(Svc(p)) # {})
           /\ CASE Wants(p, "lookup") -> Return(p, "miss")
                [] Wants(p, "delete") -> Return(p, "ok")
                [] Wants(p, "store") -> Goes(p, "op_create")
  <2>1. CASE Wants(p, "lookup")
    <3>1. Return(p, "miss")
      BY <1>5, <2>1 DEF Wants
    <3> QED BY <1>a, <2>1, <3>1, SaidOf DEF Return
  <2>2. CASE Wants(p, "delete")
    <3>1. Return(p, "ok")
      BY <1>5, <2>2 DEF Wants
    <3> QED BY <1>a, <2>2, <3>1, SaidOf DEF Return, Wants
  <2>3. CASE Wants(p, "store")
    <3>1. Goes(p, "op_create")
      BY <1>5, <2>3 DEF Wants
    <3> QED BY <1>5, <1>c, <2>3, <3>1
  <2> QED BY <1>2, <2>1, <2>2, <2>3 DEF Wants
<1>6. CASE CASE Wants(p, "lookup") ->
                  IF Marked(Named(Svc(p))) THEN ReturnWith(p, "ok", Named(Svc(p))) ELSE Return(p, "miss")
             [] Wants(p, "delete") -> IF Marked(Named(Svc(p))) THEN Goes(p, "op_delete") ELSE Return(p, "ok")
             [] Wants(p, "store") -> IF Marked(Named(Svc(p))) THEN Goes(p, "op_delete") ELSE Return(p, "clash")
  <2>1. CASE Wants(p, "lookup")
    <3>1. ReturnWith(p, "ok", Named(Svc(p))) \/ Return(p, "miss")
      BY <1>6, <2>1 DEF Wants
    <3> QED BY <1>a, <1>3, <2>1, <3>1, SaidOf DEF Return, Wants
  <2>2. CASE Wants(p, "delete")
    <3>1. Goes(p, "op_delete") \/ Return(p, "ok")
      BY <1>6, <2>2 DEF Wants
    <3> QED BY <1>a, <1>b, <2>2, <3>1, SaidOf DEF Return, Wants
  <2>3. CASE Wants(p, "store")
    <3>1. Goes(p, "op_delete") \/ Return(p, "clash")
      BY <1>6, <2>3 DEF Wants
    <3> QED BY <1>a, <1>b, <2>3, <3>1, SaidOf DEF Return, Wants
  <2> QED BY <1>2, <2>1, <2>2, <2>3 DEF Wants
<1> QED BY <1>4, <1>5, <1>6 DEF OpGet

LEMMA OnePasswordWorks ==
    ASSUME WalletSound, NEW p \in Shells, OnePassword(p)
    PROVE  Worked(p) /\ at[p] \notin {"idle", "bw_lock"}
<1>t. /\ items \in SUBSET Item /\ CreatesFromNone /\ OpFits(at[p], call[p].op) /\ KindFits(at[p])
      /\ ~Wants(p, "list") => Svc(p) \in Services
  BY AtWork
<1>n. \A i \in Named(Svc(p)) : i.svc = Svc(p)
  BY DEF Named
<1>1. CASE OpGet(p)
  BY <1>1, OpGetWorks DEF OpGet
<1>2. CASE OpDelete(p)
  <2>1. /\ Same /\ (Works \/ Fails) /\ UNCHANGED <<own, found, late>> /\ at[p] = "op_delete" /\ NotBlind
    BY <1>2 DEF OpDelete, Changes
  <2>2. Wants(p, "store") \/ Wants(p, "delete")
    BY <1>t, <2>1 DEF OpFits, Wants
  <2>3. items' = items \/ items' = items \ Named(Svc(p))
    BY <1>2 DEF OpDelete, Changes
  <2>4. ItemsWork(p)
    BY <1>n, <2>2, <2>3, RemovedIsItsOwn DEF ItemsWork
  <2>5. Noted(p)
    BY <2>1, WorkIsNoted
  <2>6. \/ Return(p, "error") \/ (Wants(p, "delete") /\ Return(p, "ok"))
        \/ Goes(p, "op_create") /\ Wants(p, "store") /\ items' = items \ Named(Svc(p))
    BY <1>2, <2>2 DEF OpDelete, Changes
  <2>7. CASE Goes(p, "op_create") /\ Wants(p, "store") /\ items' = items \ Named(Svc(p))
    <3>1. Ours(Svc(p))' = {}
      BY <2>7 DEF Goes, Ours, InVault, Named, Svc
    <3>2. OpFits("op_create", call[p].op) /\ KindFits("op_create") /\ "op_create" \in Steps
      BY <1>t, <2>1, <2>7 DEF OpFits, KindFits, Storing, Deleting, BwSteps, KpSteps, Wants, Steps
    <3>3. WentOn(p)
      BY <2>1, <2>7, <3>1, <3>2 DEF WentOn
    <3> QED BY <2>1, <2>4, <2>5, <3>3 DEF Worked
  <2>8. CASE Return(p, "error") \/ (Wants(p, "delete") /\ Return(p, "ok"))
    <3>1. Returned(p)
      BY <2>8, ReturnsSo, SaidOf DEF Return, Wants
    <3> QED BY <2>1, <2>4, <2>5, <3>1 DEF Worked
  <2> QED BY <2>6, <2>7, <2>8
<1>3. CASE OpCreate(p)
  <2>1. /\ Same /\ (Works \/ Fails) /\ UNCHANGED <<own, found, late>> /\ at[p] = "op_create" /\ NotBlind
        /\ Free # {} /\ items' \in {items, Created(p)}
        /\ Return(p, "error") \/ (Return(p, "ok") /\ items' = Created(p))
    BY <1>3 DEF OpCreate, Changes
  <2>2. Wants(p, "store")
    BY <1>t, <2>1 DEF OpFits, Storing, Wants
  <2>3. items' = Created(p) => MadeOne(p)
    BY <1>t, <2>1, <2>2 DEF MadeOne, CreatesFromNone
  <2> QED BY <2>1, <2>2, <2>3, ChangeReturns, CreatedIsSaved
<1>4. CASE OpList(p)
  <2>1. /\ Same /\ (Works \/ Fails) /\ UNCHANGED <<items, own, found, late>> /\ at[p] = "op_list" /\ NotBlind
        /\ \E ans \in {"ok", "error"}, out \in SUBSET items : ReturnWith(p, ans, out)
    BY <1>4 DEF OpList, Lists, Return
  <2>2. ~Wants(p, "store")
    BY <1>t, <2>1 DEF OpFits, Wants
  <2> QED BY <1>t, <2>1, <2>2, SaidOf, LookReturns
<1> QED BY <1>1, <1>2, <1>3, <1>4 DEF OnePassword

(* Bitwarden.                                                              *)
LEMMA StillIsItsOwn ==
    ASSUME WalletSound, NEW p \in Shells, at[p] \in {"bw_edit", "bw_delete"}, OfItsName(p)
    PROVE  /\ Still(p) \in SUBSET items
           /\ \A i \in Still(p) : i.svc = Svc(p) /\ i.place = "vault" /\ i.mine
<1>1. /\ IdsAreOwn /\ VaultsAreOurs /\ OpFits(at[p], call[p].op) /\ KindFits(at[p])
      /\ ~Wants(p, "list") => Svc(p) \in Services
  BY AtWork
<1>2. kind = "bitwarden"
  BY <1>1 DEF KindFits, BwSteps
<1>3. Svc(p) \in Services
  BY <1>1 DEF OpFits, Storing, Deleting, Wants
<1>4. \A i \in Still(p) : i \in items /\ i.svc = Svc(p)
  BY DEF OfItsName, Still, Named
<1> QED BY <1>1, <1>2, <1>3, <1>4 DEF VaultsAreOurs, ItsPlace

LEMMA BwUnlockWorks ==
    ASSUME WalletSound, NEW p \in Shells, BwUnlock(p)
    PROVE  Worked(p)
<1>t. /\ KindFits(at[p]) /\ call[p].op \in Ops
      /\ FlagTypes /\ PasswordTypes /\ late \in SUBSET Effects /\ EffectsFit /\ crowded \in SUBSET Services
  BY AtWork DEF WalletSound, WalletTypes, JobTypes, OwingTypes, JobsFit
<1>1. /\ Same /\ (Works \/ Fails) /\ UNCHANGED <<items, held, dbpass, found, late>> /\ NotBlind
      /\ at[p] = "bw_unlock"
      /\ session' = session \/ session' = [session EXCEPT ![p] = TRUE]
      /\ Goes(p, BwFirst(call[p].op)) \/ Return(p, "error")
  BY DEF BwUnlock
<1>2. FlagTypes' /\ PasswordTypes'
  <2>1. session' \in [Shells -> BOOLEAN]
    BY <1>t, <1>1, Zenon DEF FlagTypes
  <2>2. held' \in [Shells -> BOOLEAN] /\ blind' \in [Shells -> BOOLEAN]
    BY <1>t, <1>1, Zenon DEF FlagTypes, NotBlind
  <2>3. FlagTypes'
    BY <2>1, <2>2, Zenon DEF FlagTypes
  <2>4. PasswordTypes'
    BY <1>t, <1>1, Zenon DEF PasswordTypes
  <2> QED BY <2>3, <2>4
<1>0. OthersKeep(p)
  BY <1>t, <1>1 DEF OthersKeep, NotBlind, PasswordTypes
<1>3. Noted(p)
  BY <1>t, <1>0, <1>1, <1>2 DEF Noted, NotBlind, EffectsFit, Same
<1>4. CASE Goes(p, BwFirst(call[p].op))
  <2>1. PICK next \in {"bw_get", "bw_list", "bw_find"} : next = BwFirst(call[p].op)
    BY DEF BwFirst
  <2>2. OpFits(next, call[p].op)
    BY <1>t, <2>1 DEF BwFirst, OpFits, Storing, Deleting, Ops
  <2>3. KindFits(next) /\ next \in Steps
    BY <1>t, <1>1, <2>1 DEF KindFits, BwSteps, KpSteps, Steps
  <2>4. WentOn(p)
    BY <1>1, <1>4, <2>1, <2>2, <2>3, GoesSo
  <2> QED BY <1>1, <1>3, <2>4 DEF Worked, ItemsWork
<1>5. CASE Return(p, "error")
  <2>1. Returned(p)
    BY <1>5, ReturnsSo, SaidOf DEF Return
  <2> QED BY <1>1, <1>3, <2>1 DEF Worked, ItemsWork
<1> QED BY <1>1, <1>4, <1>5

LEMMA BwFindWorks ==
    ASSUME WalletSound, NEW p \in Shells, BwFind(p)
    PROVE  Worked(p)
<1>t. /\ items \in SUBSET Item /\ KindFits(at[p]) /\ OpFits(at[p], call[p].op)
  BY AtWork
<1>1. /\ Same /\ (Works \/ Fails) /\ UNCHANGED <<items, own, late>> /\ at[p] = "bw_find"
      /\ \/ Return(p, "error") /\ NotBlind /\ UNCHANGED found
         \/ /\ TakenForMiss(p, Named(Svc(p)) # {}) /\ UNCHANGED found
            /\ IF Wants(p, "store") THEN Goes(p, "bw_create") ELSE Return(p, "ok")
         \/ /\ NotBlind /\ Looks(p, Answering(Svc(p)))
            /\ Goes(p, IF Wants(p, "store") THEN "bw_edit" ELSE "bw_delete")
  BY DEF BwFind
<1>2. call[p].op \in {"store", "delete"} /\ kind = "bitwarden"
  BY <1>t, <1>1 DEF OpFits, KindFits, BwSteps
<1>3. CASE Return(p, "error") /\ NotBlind /\ UNCHANGED found
  BY <1>1, <1>3, LookReturns, SaidOf DEF Return
<1>4. CASE TakenForMiss(p, Named(Svc(p)) # {}) /\ UNCHANGED found
           /\ IF Wants(p, "store") THEN Goes(p, "bw_create") ELSE Return(p, "ok")
  <2>1. CASE Wants(p, "store")
    <3>1. KindFits("bw_create")
      BY <1>2 DEF KindFits, KpSteps
    <3> QED BY <1>1, <1>4, <2>1, <3>1, MissGoesToCreate
  <2>2. CASE ~Wants(p, "store")
    BY <1>1, <1>4, <2>2, LookReturns, SaidOf DEF Return
  <2> QED BY <2>1, <2>2
<1>5. CASE /\ NotBlind /\ Looks(p, Answering(Svc(p)))
           /\ Goes(p, IF Wants(p, "store") THEN "bw_edit" ELSE "bw_delete")
  <2>1. Answering(Svc(p)) \in SUBSET items
    BY DEF Answering
  <2>2. found' = [found EXCEPT ![p] = Answering(Svc(p))]
    BY <1>5 DEF Looks
  <2>3. Noted(p)
    BY <1>1, <1>5, <2>1, <2>2, WorkIsNoted
  <2>4. PICK next \in {"bw_edit", "bw_delete"} :
          Goes(p, next) /\ (next = "bw_edit" => Wants(p, "store")) /\ (next = "bw_delete" => Wants(p, "delete"))
    BY <1>2, <1>5 DEF Wants
  <2>5. OpFits(next, call[p].op) /\ KindFits(next) /\ next \in Steps
    BY <1>2, <2>4 DEF OpFits, KindFits, Storing, Deleting, BwSteps, KpSteps, Steps, Wants
  <2>6. WentOn(p)
    BY <1>1, <2>4, <2>5 DEF WentOn
  <2> QED BY <1>1, <2>3, <2>6 DEF Worked, ItemsWork
<1> QED BY <1>1, <1>3, <1>4, <1>5

BwWork(p) ==
  BwUnlock(p) \/ BwGet(p) \/ BwFind(p) \/ BwEdit(p) \/ BwCreate(p) \/ BwDelete(p) \/ BwList(p)

LEMMA BitwardenWorks ==
    ASSUME WalletSound, NEW p \in Shells, BwWork(p)
    PROVE  Worked(p) /\ at[p] \notin {"idle", "bw_lock"}
<1>t. /\ items \in SUBSET Item /\ CreatesFromNone /\ OpFits(at[p], call[p].op)
      /\ ~Wants(p, "list") => Svc(p) \in Services
  BY AtWork
<1>1. CASE BwUnlock(p)
  BY <1>1, BwUnlockWorks DEF BwUnlock
<1>2. CASE BwGet(p)
  <2>1. /\ Same /\ (Works \/ Fails) /\ UNCHANGED <<items, own, found, late>> /\ at[p] = "bw_get"
        /\ NotBlind \/ TakenForMiss(p, Named(Svc(p)) # {}) \/ TakenForOwn(p, Answering(Svc(p)))
        /\ Return(p, "error") \/ Return(p, "miss") \/ ReturnWith(p, "ok", Answering(Svc(p)))
    BY <1>2 DEF BwGet
  <2>2. ~Wants(p, "store")
    BY <1>t, <2>1 DEF OpFits, Wants
  <2>3. Answering(Svc(p)) \in SUBSET Item
    BY <1>t DEF Answering
  <2>4. NotBlind \/ \E missed \in BOOLEAN : TakenForMiss(p, missed)
    <3> DEFINE other == ~(Answering(Svc(p)) \subseteq Named(Svc(p)))
               miss == Named(Svc(p)) # {}
    <3>1. TakenForOwn(p, Answering(Svc(p))) => TakenForMiss(p, other)
      BY <2>2, Zenon DEF TakenForOwn, TakenForMiss
    <3>2. other \in BOOLEAN /\ miss \in BOOLEAN
      OBVIOUS
    <3>3. NotBlind \/ TakenForMiss(p, miss) \/ TakenForMiss(p, other)
      BY <2>1, <3>1
    <3> HIDE DEF other, miss
    <3> QED BY <3>2, <3>3
  <2> QED BY <2>1, <2>2, <2>3, <2>4, SaidOf, LookReturns DEF Return
<1>3. CASE BwFind(p)
  BY <1>3, BwFindWorks DEF BwFind
<1>4. CASE BwEdit(p)
  <2>1. /\ Same /\ (Works \/ Fails) /\ UNCHANGED <<own, found, late>> /\ at[p] = "bw_edit" /\ NotBlind
        /\ OfItsName(p) /\ items' \in {items, Overwritten(p, Still(p))}
        /\ \/ Return(p, "error")
           \/ Return(p, "ok") /\ items' = Overwritten(p, Still(p)) /\ Still(p) # {}
    BY <1>4 DEF BwEdit, Changes
  <2>2. Wants(p, "store")
    BY <1>t, <2>1 DEF OpFits, Storing, Wants
  <2>3. items' = Overwritten(p, Still(p)) => ChangedItsOwn(p)
    BY <2>1, <2>2, StillIsItsOwn, OverwrittenIsItsOwn
  <2>4. Still(p) # {} => Saves(p, Overwritten(p, Still(p)))
    BY <2>1, <2>2, StillIsItsOwn, OverwrittenIsSaved
  <2> QED BY <2>1, <2>3, <2>4, ChangeReturns
<1>5. CASE BwCreate(p)
  <2>1. /\ Same /\ (Works \/ Fails) /\ UNCHANGED <<own, found, late>> /\ at[p] = "bw_create" /\ NotBlind
        /\ Free # {} /\ items' \in {items, Created(p)}
        /\ Return(p, "error") \/ (Return(p, "ok") /\ items' = Created(p))
    BY <1>5 DEF BwCreate, Changes
  <2>2. Wants(p, "store")
    BY <1>t, <2>1 DEF OpFits, Storing, Wants
  <2>3. items' = Created(p) => MadeOne(p)
    BY <1>t, <2>1, <2>2 DEF MadeOne, CreatesFromNone
  <2> QED BY <2>1, <2>2, <2>3, ChangeReturns, CreatedIsSaved
<1>6. CASE BwDelete(p)
  <2>1. /\ Same /\ (Works \/ Fails) /\ UNCHANGED <<own, found, late>> /\ at[p] = "bw_delete" /\ NotBlind
        /\ OfItsName(p) /\ items' \in {items, items \ Still(p)}
        /\ Return(p, "error") \/ (Return(p, "ok") /\ items' = items \ Still(p))
    BY <1>6 DEF BwDelete, Changes
  <2>2. Wants(p, "delete") /\ ~Wants(p, "store")
    BY <1>t, <2>1 DEF OpFits, Deleting, Wants
  <2>3. items' = items \ Still(p) => ChangedItsOwn(p)
    BY <2>1, <2>2, StillIsItsOwn, RemovedIsItsOwn
  <2>4. Saves(p, items \ Still(p))
    BY <2>2 DEF Saves
  <2> QED BY <2>1, <2>3, <2>4, ChangeReturns
<1>7. CASE BwList(p)
  <2>1. /\ Same /\ (Works \/ Fails) /\ UNCHANGED <<items, own, found, late>> /\ at[p] = "bw_list" /\ NotBlind
        /\ \E ans \in {"ok", "error"}, out \in SUBSET items : ReturnWith(p, ans, out)
    BY <1>7 DEF BwList, Lists, Return, OwnServices
  <2>2. ~Wants(p, "store")
    BY <1>t, <2>1 DEF OpFits, Wants
  <2> QED BY <1>t, <2>1, <2>2, SaidOf, LookReturns
<1> QED BY <1>1, <1>2, <1>3, <1>4, <1>5, <1>6, <1>7 DEF BwWork

(* The stores of one call each.  What is under a name of ours in them is   *)
(* ours, so that a store writes over it or finds nothing of ours.          *)
LEMMA VaultIsItsOwn ==
    ASSUME WalletSound, NEW p \in Shells, Wants(p, "store") \/ Wants(p, "delete"), kind # "1password"
    PROVE  /\ InVault(Svc(p)) \in SUBSET items /\ Ours(Svc(p)) = InVault(Svc(p))
           /\ \A i \in InVault(Svc(p)) : i.svc = Svc(p) /\ i.place = "vault" /\ i.mine
<1>1. VaultsAreOurs /\ Svc(p) \in Services
  BY AtWork DEF Wants
<1>2. \A i \in InVault(Svc(p)) : i \in items /\ i.svc = Svc(p) /\ i.place = "vault"
  BY DEF InVault, Named
<1>3. \A i \in InVault(Svc(p)) : i.mine
  BY <1>1, <1>2 DEF VaultsAreOurs, ItsPlace
<1> QED BY <1>2, <1>3 DEF Ours

LEMMA CreatedIsItsOwn ==
    ASSUME WalletSound, NEW p \in Shells, Wants(p, "store"), kind # "1password", Free # {},
           InVault(Svc(p)) = {}, items' = Created(p)
    PROVE  MadeOne(p)
BY VaultIsItsOwn DEF MadeOne

LEMMA SavedIsItsOwn ==
    ASSUME WalletSound, NEW p \in Shells, Wants(p, "store"), kind # "1password", Free # {}
    PROVE  /\ Saves(p, Saved(p))
           /\ items' = Saved(p) => MadeOne(p) \/ ChangedItsOwn(p)
<1>1. CASE InVault(Svc(p)) = {}
  BY <1>1, CreatedIsItsOwn, CreatedIsSaved DEF Saved
<1>2. CASE InVault(Svc(p)) # {}
  <2>1. Saved(p) = Overwritten(p, InVault(Svc(p)))
    BY <1>2 DEF Saved
  <2> QED BY <1>2, <2>1, VaultIsItsOwn, OverwrittenIsSaved, OverwrittenIsItsOwn
<1> QED BY <1>1, <1>2

LEMMA ErasedIsItsOwn ==
    ASSUME WalletSound, NEW p \in Shells, Wants(p, "delete"), kind # "1password"
    PROVE  /\ Saves(p, items \ InVault(Svc(p)))
           /\ items' = items \ InVault(Svc(p)) => ChangedItsOwn(p)
<1>1. Saves(p, items \ InVault(Svc(p)))
  BY DEF Saves, Wants
<1>2. items' = items \ InVault(Svc(p)) => ChangedItsOwn(p)
  BY VaultIsItsOwn, RemovedIsItsOwn
<1> QED BY <1>1, <1>2

LEMMA LookupWorks ==
    ASSUME WalletSound, NEW p \in Shells, NEW how, at[p] = "lookup", LooksUp(p, how)
    PROVE  Worked(p)
<1>t. items \in SUBSET Item /\ OpFits(at[p], call[p].op)
  BY AtWork
<1>1. /\ Same /\ (Works \/ Fails) /\ UNCHANGED <<items, own, found, late>>
      /\ NotBlind \/ TakenForMiss(p, InVault(Svc(p)) # {})
      /\ Return(p, "error") \/ Return(p, "miss") \/ ReturnWith(p, "ok", InVault(Svc(p)))
  BY DEF LooksUp
<1>2. ~Wants(p, "store")
  BY <1>t DEF OpFits, Wants
<1>3. InVault(Svc(p)) \in SUBSET Item
  BY <1>t DEF InVault, Named
<1> QED BY <1>1, <1>2, <1>3, SaidOf, LookReturns DEF Return

LEMMA SecretToolWorks ==
    ASSUME WalletSound, NEW p \in Shells, SecretTool(p)
    PROVE  Worked(p) /\ at[p] \notin {"idle", "bw_lock"}
<1>t. OpFits(at[p], call[p].op)
  BY AtWork
<1>1. CASE SecretToolLookup(p)
  BY <1>1, LookupWorks DEF SecretToolLookup
<1>2. CASE SecretToolStore(p)
  <2>1. /\ Same /\ (Works \/ Fails) /\ UNCHANGED <<own, found, late>> /\ at[p] = "store" /\ NotBlind
        /\ Free # {} /\ kind = "secret-tool" /\ items' \in {items, Saved(p)}
        /\ Return(p, "error") \/ (Return(p, "ok") /\ items' = Saved(p))
    BY <1>2 DEF SecretToolStore, Changes
  <2>2. Wants(p, "store")
    BY <1>t, <2>1 DEF OpFits, Storing, Wants
  <2> QED BY <2>1, <2>2, SavedIsItsOwn, ChangeReturns
<1>3. CASE SecretToolDelete(p)
  <2>1. /\ Same /\ (Works \/ Fails) /\ UNCHANGED <<own, found, late>> /\ at[p] = "delete" /\ NotBlind
        /\ kind = "secret-tool" /\ items' \in {items, items \ InVault(Svc(p))}
        /\ Return(p, "error") \/ (Return(p, "ok") /\ items' = items \ InVault(Svc(p)))
    BY <1>3 DEF SecretToolDelete, Changes
  <2>2. Wants(p, "delete")
    BY <1>t, <2>1 DEF OpFits, Deleting, Wants
  <2> QED BY <2>1, <2>2, ErasedIsItsOwn, ChangeReturns
<1>4. CASE SecretToolList(p)
  BY <1>4, LookReturns, SaidOf DEF SecretToolList, Return, Works
<1> QED BY <1>1, <1>2, <1>3, <1>4 DEF SecretTool

(* A call that is given up on leaves an effect still to come.              *)
LEMMA BoundedReturns ==
    ASSUME WalletSound, NEW p \in Shells, Wants(p, "store") \/ Wants(p, "delete"), kind # "1password",
           Same, Works \/ Fails, UNCHANGED <<own, found>>, NotBlind,
           NEW does \in {"write", "add", "update", "delete"}, does = "delete" \/ Wants(p, "store"),
           late' \in {late, late \cup {Effect(p, does)}},
           NEW new, items' \in {items, new},
           Return(p, "error") \/ (Return(p, "ok") /\ items' = new /\ Saves(p, new)),
           items' = new => items' = items \/ MadeOne(p) \/ ChangedItsOwn(p)
    PROVE  Worked(p)
<1>t. /\ FlagTypes /\ PasswordTypes /\ late \in SUBSET Effects /\ EffectsFit
      /\ crowded \in SUBSET Services /\ blind \in [Shells -> BOOLEAN]
      /\ call[p].secret \in Secrets \cup {None}
  BY DEF WalletSound, WalletTypes, JobTypes, OwingTypes, FlagTypes, JobsFit, CallTypes
<1>1. Svc(p) \in Services /\ (does # "delete" => call[p].secret \in Secrets)
  BY AtWork DEF Wants
<1>2. Effect(p, does) \in Effects /\ (Effect(p, does).does # "delete" => Effect(p, does).secret \in Secrets)
  BY <1>t, <1>1 DEF Effect, Effects
<1>3. late' \in SUBSET Effects /\ EffectsFit'
  BY <1>t, <1>2 DEF EffectsFit, Same
<1>4. FlagTypes' /\ PasswordTypes'
  BY <1>t, OwnKeepsTypes, Zenon DEF NotBlind
<1>5. Noted(p)
  BY <1>t, <1>3, <1>4 DEF Noted, NotBlind, OthersKeep, own
<1>6. ItemsWork(p)
  BY DEF ItemsWork
<1>7. CASE Return(p, "error")
  <2>1. Returned(p)
    BY <1>7, SaidOf, ReturnsSo DEF Return
  <2> QED BY <1>5, <1>6, <2>1 DEF Worked
<1>8. CASE Return(p, "ok") /\ items' = new /\ Saves(p, new)
  <2>1. Returned(p)
    BY <1>8, SaidOf DEF Return, Returned, Saves
  <2> QED BY <1>5, <1>6, <2>1 DEF Worked
<1> QED BY <1>7, <1>8

LEMMA WritesWork ==
    ASSUME WalletSound, NEW p \in Shells, Wants(p, "store"), kind # "1password", Free # {}, Writes(p)
    PROVE  Worked(p)
<1>1. /\ Same /\ (Works \/ Fails) /\ UNCHANGED <<own, found>> /\ NotBlind
      /\ late' \in {late, late \cup {Effect(p, "write")}} /\ items' \in {items, Saved(p)}
      /\ Return(p, "error") \/ (Return(p, "ok") /\ items' = Saved(p))
  BY DEF Writes, Bounded
<1> QED BY <1>1, SavedIsItsOwn, BoundedReturns

LEMMA ErasesWork ==
    ASSUME WalletSound, NEW p \in Shells, Wants(p, "delete"), kind # "1password", Erases(p)
    PROVE  Worked(p)
<1>1. /\ Same /\ (Works \/ Fails) /\ UNCHANGED <<own, found>> /\ NotBlind
      /\ late' \in {late, late \cup {Effect(p, "delete")}} /\ items' \in {items, items \ InVault(Svc(p))}
      /\ Return(p, "error") \/ (Return(p, "ok") /\ items' = items \ InVault(Svc(p)))
  BY DEF Erases, Bounded
<1> QED BY <1>1, ErasedIsItsOwn, BoundedReturns

LEMMA ListsWork ==
    ASSUME WalletSound, NEW p \in Shells, ~Wants(p, "store"), NEW out \in SUBSET items, Lists(p, out)
    PROVE  Worked(p)
<1>1. items \in SUBSET Item
  BY AtWork
<1>2. /\ Same /\ (Works \/ Fails) /\ UNCHANGED <<items, own, found, late>> /\ NotBlind
      /\ ReturnWith(p, "ok", out) \/ Return(p, "error")
  BY DEF Lists
<1> QED BY <1>1, <1>2, SaidOf, LookReturns DEF Return

LEMMA CredentialManagerWorks ==
    ASSUME WalletSound, NEW p \in Shells, CredentialManager(p)
    PROVE  Worked(p) /\ at[p] \notin {"idle", "bw_lock"}
<1>t. OpFits(at[p], call[p].op)
  BY AtWork
<1>1. CASE CredLookup(p)
  BY <1>1, LookupWorks DEF CredLookup
<1>2. CASE CredStore(p)
  <2>1. at[p] = "store" /\ kind = "credman" /\ Free # {} /\ Writes(p)
    BY <1>2 DEF CredStore
  <2>2. Wants(p, "store")
    BY <1>t, <2>1 DEF OpFits, Storing, Wants
  <2> QED BY <2>1, <2>2, WritesWork
<1>3. CASE CredDelete(p)
  <2>1. at[p] = "delete" /\ kind = "credman" /\ Erases(p)
    BY <1>3 DEF CredDelete
  <2>2. Wants(p, "delete")
    BY <1>t, <2>1 DEF OpFits, Deleting, Wants
  <2> QED BY <2>1, <2>2, ErasesWork
<1>4. CASE CredList(p)
  <2>1. at[p] = "list" /\ Lists(p, {i \in items : i.svc \in Services})
    BY <1>4 DEF CredList
  <2>2. ~Wants(p, "store")
    BY <1>t, <2>1 DEF OpFits, Wants
  <2> QED BY <2>1, <2>2, ListsWork
<1> QED BY <1>1, <1>2, <1>3, <1>4 DEF CredentialManager

LEMMA KeychainWorks ==
    ASSUME WalletSound, NEW p \in Shells, Keychain(p)
    PROVE  Worked(p) /\ at[p] \notin {"idle", "bw_lock"}
<1>t. OpFits(at[p], call[p].op) /\ KindFits(at[p])
  BY AtWork
<1>1. CASE KeychainLookup(p)
  BY <1>1, LookupWorks DEF KeychainLookup
<1>2. CASE KeychainFind(p)
  <2>1. /\ Same /\ (Works \/ Fails) /\ UNCHANGED <<items, own, found, late>> /\ NotBlind
        /\ at[p] = "store" /\ kind = "keychain"
        /\ Goes(p, "kc_add") \/ Goes(p, "kc_update") \/ Return(p, "error")
    BY <1>2 DEF KeychainFind
  <2>2. Wants(p, "store")
    BY <1>t, <2>1 DEF OpFits, Storing, Wants
  <2>3. ASSUME NEW next \in {"kc_add", "kc_update"}, Goes(p, next) PROVE Worked(p)
    <3>1. OpFits(next, call[p].op) /\ KindFits(next) /\ next \in Steps
      BY <2>1, <2>2, <2>3 DEF OpFits, KindFits, Storing, Deleting, BwSteps, KpSteps, Steps, Wants
    <3> QED BY <2>1, <2>3, <3>1, LookGoesOn
  <2>4. CASE Return(p, "error")
    BY <2>1, <2>4, LookReturns, SaidOf DEF Return
  <2> QED BY <2>1, <2>3, <2>4
<1>3. CASE KeychainAdd(p)
  <2>1. /\ Same /\ (Works \/ Fails) /\ UNCHANGED <<own, found>> /\ NotBlind
        /\ at[p] = "kc_add" /\ Free # {} /\ late' \in {late, late \cup {Effect(p, "add")}}
        /\ \/ items' = items /\ Return(p, "error")
           \/ Return(p, "ok") /\ items' = Created(p) /\ InVault(Svc(p)) = {}
    BY <1>3 DEF KeychainAdd, Bounded
  <2>2. Wants(p, "store") /\ kind = "keychain"
    BY <1>t, <2>1 DEF OpFits, KindFits, Storing, Wants
  <2>3. CASE items' = items /\ Return(p, "error")
    BY <2>1, <2>2, <2>3, BoundedReturns
  <2>4. CASE Return(p, "ok") /\ items' = Created(p) /\ InVault(Svc(p)) = {}
    BY <2>1, <2>2, <2>4, CreatedIsItsOwn, CreatedIsSaved, BoundedReturns
  <2> QED BY <2>1, <2>3, <2>4
<1>4. CASE KeychainUpdate(p)
  <2>1. /\ Same /\ (Works \/ Fails) /\ UNCHANGED <<own, found>> /\ NotBlind
        /\ at[p] = "kc_update" /\ late' \in {late, late \cup {Effect(p, "update")}}
        /\ items' \in {items, Overwritten(p, InVault(Svc(p)))}
        /\ \/ Return(p, "error")
           \/ Return(p, "ok") /\ items' = Overwritten(p, InVault(Svc(p))) /\ InVault(Svc(p)) # {}
    BY <1>4 DEF KeychainUpdate, Bounded
  <2>2. Wants(p, "store") /\ kind = "keychain"
    BY <1>t, <2>1 DEF OpFits, KindFits, Storing, Wants
  <2>3. items' = Overwritten(p, InVault(Svc(p))) => ChangedItsOwn(p)
    BY <2>2, VaultIsItsOwn, OverwrittenIsItsOwn
  <2>4. InVault(Svc(p)) # {} => Saves(p, Overwritten(p, InVault(Svc(p))))
    BY <2>2, VaultIsItsOwn, OverwrittenIsSaved
  <2> QED BY <2>1, <2>2, <2>3, <2>4, BoundedReturns
<1>5. CASE KeychainDelete(p)
  <2>1. at[p] = "delete" /\ kind = "keychain" /\ Erases(p)
    BY <1>5 DEF KeychainDelete
  <2>2. Wants(p, "delete")
    BY <1>t, <2>1 DEF OpFits, Deleting, Wants
  <2> QED BY <2>1, <2>2, ErasesWork
<1>6. CASE KeychainList(p)
  <2>1. at[p] = "list" /\ Lists(p, OwnServices(items)) /\ OwnServices(items) \in SUBSET items
    BY <1>6 DEF KeychainList, OwnServices
  <2>2. ~Wants(p, "store")
    BY <1>t, <2>1 DEF OpFits, Wants
  <2> QED BY <2>1, <2>2, ListsWork
<1> QED BY <1>1, <1>2, <1>3, <1>4, <1>5, <1>6 DEF Keychain

(* keepassxc-cli.                                                          *)
LEMMA KpUnlockWorks ==
    ASSUME WalletSound, NEW p \in Shells, KpUnlock(p)
    PROVE  Worked(p)
<1>t. /\ KindFits(at[p]) /\ call[p].op \in Ops
      /\ FlagTypes /\ PasswordTypes /\ late \in SUBSET Effects /\ EffectsFit /\ crowded \in SUBSET Services
  BY AtWork DEF WalletSound, WalletTypes, JobTypes, OwingTypes, JobsFit
<1>1. /\ Same /\ (Works \/ Fails) /\ UNCHANGED <<items, session, held, found, late>> /\ NotBlind
      /\ at[p] = "kp_unlock"
      /\ dbpass' \in {dbpass, [dbpass EXCEPT ![p] = "right"], [dbpass EXCEPT ![p] = "wrong"]}
      /\ Goes(p, KpFirst(call[p].op)) \/ Return(p, "error")
  BY DEF KpUnlock
<1>2. FlagTypes' /\ PasswordTypes'
  <2>1. session' \in [Shells -> BOOLEAN] /\ held' \in [Shells -> BOOLEAN] /\ blind' \in [Shells -> BOOLEAN]
    BY <1>t, <1>1, Zenon DEF FlagTypes, NotBlind
  <2>2. FlagTypes'
    BY <2>1, Zenon DEF FlagTypes
  <2>3. PasswordTypes'
    BY <1>t, <1>1 DEF PasswordTypes
  <2> QED BY <2>2, <2>3
<1>0. OthersKeep(p)
  BY <1>t, <1>1 DEF OthersKeep, NotBlind, PasswordTypes
<1>3. Noted(p)
  BY <1>t, <1>0, <1>1, <1>2 DEF Noted, NotBlind, EffectsFit, Same
<1>4. CASE Goes(p, KpFirst(call[p].op))
  <2>1. PICK next \in {"kp_search", "kp_ls", "kp_show"} : next = KpFirst(call[p].op)
    BY DEF KpFirst
  <2>2. OpFits(next, call[p].op)
    BY <1>t, <2>1 DEF KpFirst, OpFits, Storing, Deleting, Ops
  <2>3. KindFits(next) /\ next \in Steps
    BY <1>t, <1>1, <2>1 DEF KindFits, BwSteps, KpSteps, Steps
  <2>4. WentOn(p)
    BY <1>1, <1>4, <2>1, <2>2, <2>3, GoesSo
  <2> QED BY <1>1, <1>3, <2>4 DEF Worked, ItemsWork
<1>5. CASE Return(p, "error")
  <2>1. Returned(p)
    BY <1>5, ReturnsSo, SaidOf DEF Return
  <2> QED BY <1>1, <1>3, <2>1 DEF Worked, ItemsWork
<1> QED BY <1>1, <1>4, <1>5

LEMMA KpShowWorks ==
    ASSUME WalletSound, NEW p \in Shells, KpShow(p)
    PROVE  Worked(p)
<1>t. /\ items \in SUBSET Item /\ KindFits(at[p]) /\ OpFits(at[p], call[p].op)
  BY AtWork
<1>1. /\ Same /\ (Works \/ Fails) /\ UNCHANGED <<items, own, found, late>> /\ at[p] = "kp_show"
      /\ NotBlind \/ TakenForMiss(p, InVault(Svc(p)) # {})
      /\ \/ Return(p, "error")
         \/ IF Wants(p, "lookup") THEN Return(p, "miss") ELSE Goes(p, "kp_add")
         \/ IF Wants(p, "lookup") THEN ReturnWith(p, "ok", InVault(Svc(p))) ELSE Goes(p, "kp_edit")
  BY DEF KpShow
<1>2. call[p].op \in {"store", "lookup"} /\ kind = "keepassxc-cli"
  BY <1>t, <1>1 DEF OpFits, KindFits, KpSteps
<1>3. InVault(Svc(p)) \in SUBSET Item
  BY <1>t DEF InVault, Named
<1>4. ASSUME NEW next \in {"kp_add", "kp_edit"}, Goes(p, next), Wants(p, "store") PROVE Worked(p)
  <2>1. OpFits(next, call[p].op) /\ KindFits(next) /\ next \in Steps
    BY <1>2, <1>4 DEF OpFits, KindFits, Storing, Deleting, BwSteps, KpSteps, Steps, Wants
  <2> QED BY <1>1, <1>4, <2>1, LookGoesOn
<1>5. CASE Return(p, "error")
  BY <1>1, <1>5, LookReturns, SaidOf DEF Return
<1>6. CASE Wants(p, "lookup") /\ (Return(p, "miss") \/ ReturnWith(p, "ok", InVault(Svc(p))))
  <2>1. ~Wants(p, "store")
    BY <1>6 DEF Wants
  <2> QED BY <1>1, <1>3, <1>6, <2>1, LookReturns, SaidOf DEF Return
<1>7. CASE ~Wants(p, "lookup") /\ (Goes(p, "kp_add") \/ Goes(p, "kp_edit"))
  BY <1>2, <1>4, <1>7 DEF Wants
<1> QED BY <1>1, <1>5, <1>6, <1>7

(* A command of a deletion.                                                *)
LEMMA DeletionWorks ==
    ASSUME WalletSound, NEW p \in Shells, Wants(p, "delete"), kind = "keepassxc-cli", at[p] # "op_create",
           Same, Works \/ Fails, UNCHANGED <<own, late>>,
           \E w \in SUBSET (items \cup found[p]) : found' \in {found, [found EXCEPT ![p] = w]},
           NotBlind \/ \E missed \in BOOLEAN : TakenForMiss(p, missed),
           items' = items \/ ChangedItsOwn(p),
           \/ \E ans \in {"ok", "error"} : Return(p, ans)
           \/ Goes(p, "kp_rm") \/ Goes(p, "kp_search_again")
           \/ Goes(p, "kp_purge") /\ \A j \in found'[p] : j.svc = Svc(p)
    PROVE  Worked(p)
<1>1. Noted(p)
  BY WorkIsNoted
<1>2. ItemsWork(p)
  BY DEF ItemsWork
<1>3. ASSUME NEW next \in {"kp_rm", "kp_search_again", "kp_purge"}, Goes(p, next),
             next = "kp_purge" => \A j \in found'[p] : j.svc = Svc(p)
      PROVE  Worked(p)
  <2>1. OpFits(next, call[p].op) /\ KindFits(next) /\ next \in Steps
    BY <1>3 DEF OpFits, KindFits, Storing, Deleting, BwSteps, KpSteps, Steps, Wants
  <2>2. WentOn(p)
    BY <1>3, <2>1 DEF WentOn
  <2> QED BY <1>1, <1>2, <2>2 DEF Worked
<1>4. ASSUME NEW ans \in {"ok", "error"}, Return(p, ans) PROVE Worked(p)
  <2>1. Returned(p)
    BY <1>4, ReturnsSo, SaidOf DEF Return, Wants
  <2> QED BY <1>1, <1>2, <2>1 DEF Worked
<1> QED BY <1>3, <1>4

LEMMA BinnedIsItsOwn ==
    ASSUME WalletSound, NEW p \in Shells, Wants(p, "delete"), kind = "keepassxc-cli",
           NEW which \in SUBSET items, \A i \in which : i.svc = Svc(p), items' = ToBin(which)
    PROVE  ChangedItsOwn(p)
<1>1. ItemsStay
  BY AtWork, BinnedStay
<1> QED BY <1>1 DEF ChangedItsOwn, ToBin

LEMMA KpSearchWorks ==
    ASSUME WalletSound, NEW p \in Shells, KpSearch(p) \/ KpSearchAgain(p)
    PROVE  Worked(p)
<1>t. /\ OpFits(at[p], call[p].op) /\ KindFits(at[p]) /\ found \in [Shells -> SUBSET Item]
  BY AtWork DEF WalletSound, WalletTypes, ItemTypes
<1>1. \A i \in Named(Svc(p)) : i \in items /\ i.svc = Svc(p)
  BY DEF Named
<1>2. CASE KpSearch(p)
  <2>1. /\ Same /\ (Works \/ Fails) /\ UNCHANGED <<items, own, late>> /\ at[p] = "kp_search"
        /\ NotBlind \/ TakenForMiss(p, Named(Svc(p)) # {})
        /\ Return(p, "error") \/ Goes(p, "kp_rm")
        /\ UNCHANGED found \/ Looks(p, Named(Svc(p))) \/ Looks(p, {})
    BY <1>2 DEF KpSearch
  <2>2. Wants(p, "delete") /\ kind = "keepassxc-cli"
    BY <1>t, <2>1 DEF OpFits, KindFits, Deleting, KpSteps, Wants
  <2>3. \E w \in SUBSET (items \cup found[p]) : found' \in {found, [found EXCEPT ![p] = w]}
    BY <1>1, <2>1 DEF Looks
  <2> QED BY <2>1, <2>2, <2>3, DeletionWorks
<1>3. CASE KpSearchAgain(p)
  <2> DEFINE seen == {i \in Named(Svc(p)) : i.place \in Moved(p)}
  <2>1. /\ Same /\ (Works \/ Fails) /\ UNCHANGED <<items, own, late>> /\ at[p] = "kp_search_again"
        /\ NotBlind \/ TakenForMiss(p, Named(Svc(p)) # {})
        /\ \/ UNCHANGED found /\ (Return(p, "error") \/ Return(p, "ok"))
           \/ Looks(p, seen) /\ Goes(p, "kp_purge")
    BY <1>3 DEF KpSearchAgain
  <2>2. Wants(p, "delete") /\ kind = "keepassxc-cli"
    BY <1>t, <2>1 DEF OpFits, KindFits, Deleting, KpSteps, Wants
  <2>3. CASE UNCHANGED found /\ (Return(p, "error") \/ Return(p, "ok"))
    BY <2>1, <2>2, <2>3, DeletionWorks
  <2>4. CASE Looks(p, seen) /\ Goes(p, "kp_purge")
    <3>1. \A i \in seen : i \in items /\ i.svc = Svc(p)
      BY <1>1
    <3> HIDE DEF seen
    <3>2. found' = [found EXCEPT ![p] = seen]
      BY <2>4 DEF Looks
    <3>3. found'[p] = seen
      BY <1>t, <3>2
    <3> QED BY <2>1, <2>2, <2>4, <3>1, <3>2, <3>3, DeletionWorks
  <2> QED BY <2>1, <2>3, <2>4
<1> QED BY <1>2, <1>3

LEMMA KpRmWorks ==
    ASSUME WalletSound, NEW p \in Shells, KpRm(p)
    PROVE  Worked(p)
<1>t. OpFits(at[p], call[p].op) /\ KindFits(at[p])
  BY AtWork
<1>1. /\ Same /\ (Works \/ Fails) /\ UNCHANGED <<own, found, late>> /\ at[p] = "kp_rm"
      /\ NotBlind \/ \E missed \in BOOLEAN : TakenForMiss(p, missed)
      /\ items' = items \/ items' = ToBin(InVault(Svc(p)))
      /\ Return(p, "error") \/ Return(p, "ok") \/ Goes(p, "kp_search_again")
  BY DEF KpRm
<1>2. Wants(p, "delete") /\ kind = "keepassxc-cli"
  BY <1>t, <1>1 DEF OpFits, KindFits, Deleting, KpSteps, Wants
<1>3. items' = items \/ ChangedItsOwn(p)
  BY <1>1, <1>2, VaultIsItsOwn, BinnedIsItsOwn
<1> QED BY <1>1, <1>2, <1>3, DeletionWorks

LEMMA KpPurgeWorks ==
    ASSUME WalletSound, NEW p \in Shells, KpPurge(p)
    PROVE  Worked(p)
<1>t. /\ OpFits(at[p], call[p].op) /\ KindFits(at[p]) /\ found \in [Shells -> SUBSET Item] /\ IdsAreOwn
  BY AtWork DEF WalletSound, WalletTypes, ItemTypes
<1>0. at[p] = "kp_purge"
  BY DEF KpPurge
<1>1. Wants(p, "delete") /\ kind = "keepassxc-cli"
  BY <1>t, <1>0 DEF OpFits, KindFits, Deleting, KpSteps, Wants
<1>2. CASE found[p] = {} /\ Works /\ Return(p, "ok") /\ UNCHANGED <<items, found>> /\ NotBlind
  BY <1>0, <1>1, <1>2, DeletionWorks DEF KpPurge
<1>3. ASSUME NEW i \in found[p],
             found' = [found EXCEPT ![p] = @ \ {i}], Works \/ Fails,
             NotBlind \/ TakenForMiss(p, TRUE),
             Goes(p, "kp_purge") \/ Return(p, "error"),
             \/ items' = items \/ items' = items \ {j \in items : j.id = i.id}
             \/ items' = ToBin({j \in items : j.id = i.id})
      PROVE  Worked(p)
  <2> DEFINE still == {j \in items : j.id = i.id}
  <2>1. still \in SUBSET items /\ \A j \in still : j.svc = Svc(p)
    BY <1>t, <1>0, <1>1 DEF IdsAreOwn, SameThing
  <2>2. items' = items \/ items' = items \ still \/ items' = ToBin(still)
    BY <1>3
  <2> HIDE DEF still
  <2>3. items' = items \/ ChangedItsOwn(p)
    BY <1>1, <2>1, <2>2, RemovedIsItsOwn, BinnedIsItsOwn
  <2>4. found' = [found EXCEPT ![p] = found[p] \ {i}] /\ found'[p] = found[p] \ {i}
    BY <1>t, <1>3
  <2>5. \A j \in found'[p] : j.svc = Svc(p)
    BY <1>t, <1>0, <2>4 DEF IdsAreOwn
  <2>6. Same /\ UNCHANGED <<own, late>>
    BY DEF KpPurge
  <2> QED BY <1>0, <1>1, <1>3, <2>3, <2>4, <2>5, <2>6, DeletionWorks
<1>4. \/ found[p] = {} /\ Works /\ Return(p, "ok") /\ UNCHANGED <<items, found>> /\ NotBlind
      \/ \E i \in found[p] :
           /\ found' = [found EXCEPT ![p] = @ \ {i}] /\ (Works \/ Fails)
           /\ NotBlind \/ TakenForMiss(p, TRUE)
           /\ Goes(p, "kp_purge") \/ Return(p, "error")
           /\ \/ items' = items \/ items' = items \ {j \in items : j.id = i.id}
              \/ items' = ToBin({j \in items : j.id = i.id})
  BY DEF KpPurge
<1> QED BY <1>2, <1>3, <1>4

LEMMA KeePassXCCLIWorks ==
    ASSUME WalletSound, NEW p \in Shells, KeePassXCCLI(p)
    PROVE  Worked(p) /\ at[p] \notin {"idle", "bw_lock"}
<1>t. OpFits(at[p], call[p].op) /\ KindFits(at[p])
  BY AtWork
<1>1. CASE KpUnlock(p)
  BY <1>1, KpUnlockWorks DEF KpUnlock
<1>2. CASE KpShow(p)
  BY <1>2, KpShowWorks DEF KpShow
<1>3. CASE KpAdd(p)
  <2>1. /\ Same /\ (Works \/ Fails) /\ UNCHANGED <<own, found, late>> /\ at[p] = "kp_add" /\ NotBlind
        /\ Free # {}
        /\ items' \in {items, IF Right(p) /\ InVault(Svc(p)) = {} THEN Created(p) ELSE items}
        /\ \/ Return(p, "error")
           \/ Return(p, "ok") /\ items' = Created(p) /\ InVault(Svc(p)) = {}
    BY <1>3 DEF KpAdd, Changes
  <2>2. Wants(p, "store") /\ kind = "keepassxc-cli"
    BY <1>t, <2>1 DEF OpFits, KindFits, KpSteps, Storing, Wants
  <2>3. CASE items' = items /\ Return(p, "error")
    BY <2>1, <2>2, <2>3, ChangeReturns
  <2>4. CASE items' = Created(p) /\ InVault(Svc(p)) = {}
    BY <2>1, <2>2, <2>4, CreatedIsItsOwn, CreatedIsSaved, ChangeReturns
  <2> QED BY <2>1, <2>3, <2>4
<1>4. CASE KpEdit(p)
  <2>1. /\ Same /\ (Works \/ Fails) /\ UNCHANGED <<own, found, late>> /\ at[p] = "kp_edit" /\ NotBlind
        /\ items' \in {items, Overwritten(p, InVault(Svc(p)))}
        /\ \/ Return(p, "error")
           \/ Return(p, "ok") /\ items' = Overwritten(p, InVault(Svc(p))) /\ InVault(Svc(p)) # {}
    BY <1>4 DEF KpEdit, Changes
  <2>2. Wants(p, "store") /\ kind = "keepassxc-cli"
    BY <1>t, <2>1 DEF OpFits, KindFits, KpSteps, Storing, Wants
  <2>3. items' = Overwritten(p, InVault(Svc(p))) => ChangedItsOwn(p)
    BY <2>2, VaultIsItsOwn, OverwrittenIsItsOwn
  <2>4. InVault(Svc(p)) # {} => Saves(p, Overwritten(p, InVault(Svc(p))))
    BY <2>2, VaultIsItsOwn, OverwrittenIsSaved
  <2> QED BY <2>1, <2>3, <2>4, ChangeReturns
<1>5. CASE KpSearch(p) \/ KpSearchAgain(p)
  BY <1>5, KpSearchWorks DEF KpSearch, KpSearchAgain
<1>6. CASE KpRm(p)
  BY <1>6, KpRmWorks DEF KpRm
<1>7. CASE KpPurge(p)
  BY <1>7, KpPurgeWorks DEF KpPurge
<1>8. CASE KpList(p)
  <2>1. at[p] = "kp_ls" /\ \E out \in SUBSET items : Lists(p, out)
    BY <1>8 DEF KpList
  <2>2. ~Wants(p, "store")
    BY <1>t, <2>1 DEF OpFits, Wants
  <2> QED BY <2>1, <2>2, ListsWork
<1> QED BY <1>1, <1>2, <1>3, <1>4, <1>5, <1>6, <1>7, <1>8 DEF KeePassXCCLI

-----------------------------------------------------------------------------
(* What is not a command.                                                  *)

(* Steps that change neither the items nor what is owed.                   *)
LEMMA QuietStands ==
    ASSUME WalletSound, CountTypes', FlagTypes', PasswordTypes',
           UNCHANGED <<kind, items, call, answer, found, shown, late, before, kept, crowded>>,
           at' \in [Shells -> Steps],
           \A q \in Shells : at'[q] = at[q] \/ (at[q] = "bw_lock" /\ at'[q] = "idle")
    PROVE  WalletSound'
<1>t. /\ ItemTypes /\ JobTypes /\ OwingTypes /\ JobsFit /\ IdsAreOwn /\ VaultsAreOurs
      /\ StoresAlone /\ CreatesFromNone /\ OneOfAName /\ DeletedIsNotOwed /\ OwedIsThere
  BY DEF WalletSound, WalletTypes
<1>0. UNCHANGED <<kind, items, call, answer, found, shown, late, before, kept, crowded>>
  OBVIOUS
<1>1. ItemTypes' /\ OwingTypes'
  BY <1>t, <1>0 DEF ItemTypes, OwingTypes
<1>2. JobTypes'
  BY <1>t, <1>0 DEF JobTypes
<1>3. JobsFit'
  <2>1. ASSUME NEW q \in Shells PROVE OpFits(at'[q], call[q].op) /\ KindFits(at'[q]) /\ CallFits(q)'
    <3>1. OpFits(at[q], call[q].op) /\ KindFits(at[q]) /\ CallFits(q)
      BY <1>t DEF JobsFit
    <3>2. CASE at'[q] = at[q]
      BY <1>0, <3>1, <3>2 DEF CallFits, Wants, Svc
    <3>3. CASE at[q] = "bw_lock" /\ at'[q] = "idle"
      <4>1. call[q] = NoCall
        BY <3>1, <3>3 DEF CallFits
      <4> QED BY <1>0, <3>1, <3>3, <4>1 DEF OpFits, KindFits, CallFits, Wants, Svc, Storing, Deleting,
              BwSteps, KpSteps
    <3> QED BY <3>2, <3>3
  <2> QED BY <1>t, <1>0, <2>1 DEF JobsFit, KindFits, EffectsFit
<1>4. IdsAreOwn' /\ VaultsAreOurs'
  BY <1>t, <1>0 DEF IdsAreOwn, SameThing, VaultsAreOurs, ItsPlace, Svc
<1>5. StoresAlone' /\ DeletedIsNotOwed'
  BY <1>t, <1>0 DEF StoresAlone, DeletedIsNotOwed, Wants, Svc
<1>6. \A s \in Services \cup {Foreign} : Ours(s)' = Ours(s)
  BY <1>0 DEF Ours, InVault, Named
<1>7. CreatesFromNone'
  BY <1>t, <1>0, <1>6 DEF CreatesFromNone, Svc, JobTypes, CallTypes
<1>8. OneOfAName'
  BY <1>t, <1>0, <1>6 DEF OneOfAName
<1>9. OwedIsThere'
  BY <1>t, <1>0, <1>6 DEF OwedIsThere, Svc
<1> QED BY <1>1, <1>2, <1>3, <1>4, <1>5, <1>7, <1>8, <1>9 DEF WalletSound, WalletTypes

LEMMA CountsStay ==
    ASSUME WalletSound, UNCHANGED kind, walletOutside' = walletOutside \/ Outside,
           walletFailures' = walletFailures \/ Fails
    PROVE  CountTypes'
BY StoresBounds DEF WalletSound, WalletTypes, CountTypes, Outside, Fails

LEMMA SessionsStand ==
    ASSUME WalletSound, NEW p \in Shells, BwLock(p) \/ HoldsOpen(p) \/ LetsGo(p)
    PROVE  WalletSound'
<1>t. JobTypes /\ FlagTypes /\ PasswordTypes
  BY DEF WalletSound, WalletTypes
<1>1. /\ UNCHANGED <<kind, items, call, answer, found, shown, late, before, kept, crowded>>
      /\ UNCHANGED <<blind, dbpass, walletFailures, walletOutside>>
      /\ at' = at \/ (at[p] = "bw_lock" /\ at' = [at EXCEPT ![p] = "idle"])
  BY DEF BwLock, HoldsOpen, LetsGo, job, history, Same
<1>2. CountTypes'
  BY <1>1, CountsStay
<1>3. FlagTypes'
  <2>1. \E b \in BOOLEAN : session' = [session EXCEPT ![p] = b]
    BY DEF BwLock, HoldsOpen, LetsGo
  <2>2. held' = held \/ \E b \in BOOLEAN : held' = [held EXCEPT ![p] = b]
    BY DEF BwLock, HoldsOpen, LetsGo
  <2>3. session' \in [Shells -> BOOLEAN]
    BY <1>t, <2>1, Zenon DEF FlagTypes
  <2>4. held' \in [Shells -> BOOLEAN]
    BY <1>t, <2>2, Zenon DEF FlagTypes
  <2>5. blind' \in [Shells -> BOOLEAN]
    BY <1>t, <1>1, Zenon DEF FlagTypes
  <2> QED BY <2>3, <2>4, <2>5, Zenon DEF FlagTypes
<1>4. PasswordTypes'
  BY <1>t, <1>1 DEF PasswordTypes
<1>5. at' \in [Shells -> Steps] /\ \A q \in Shells : at'[q] = at[q] \/ (at[q] = "bw_lock" /\ at'[q] = "idle")
  <2>1. at \in [Shells -> Steps] /\ "idle" \in Steps
    BY <1>t DEF JobTypes, Steps
  <2> QED BY <1>1, <2>1
<1> QED BY <1>1, <1>2, <1>3, <1>4, <1>5, QuietStands

(* What changes the items from outside the calls: at most the items of a   *)
(* name that is crowded from then on are more than they were, or one is the *)
(* only one of a name that nobody is at, and none that is owed goes but to  *)
(* be noted as lost.                                                       *)
Losing(s) == kept[s] # None /\ kept'[s] = Untold

LEMMA OutsideStands ==
    ASSUME WalletSound, CountTypes', UNCHANGED <<kind, job, own, before, blind>>,
           items' \in SUBSET Item, \A i, j \in items' : i.id = j.id => i = j,
           \A p \in Shells : \A i \in items', j \in found[p] : SameThing(i, j),
           VaultsAreOurs', late' \in SUBSET late,
           crowded \subseteq crowded', crowded' \in SUBSET Services,
           OwingTypes', \A s \in Services : kept'[s] \in {kept[s], None} \/ Losing(s),
           \A s \in Services : \/ s \in crowded' \/ Ours(s)' \subseteq Ours(s)
                               \/ (\A p \in Shells : Svc(p) # s) /\ \A i, j \in Ours(s)' : i = j,
           \A s \in Services : \/ kept'[s] \in {None, Untold} \/ Ours(s) \subseteq Ours(s)'
                               \/ s \in crowded' /\ (Ours(s) # {} => Ours(s)' # {})
    PROVE  WalletSound'
<1>t. /\ ItemTypes /\ JobTypes /\ FlagTypes /\ PasswordTypes /\ JobsFit /\ IdsAreOwn
      /\ StoresAlone /\ CreatesFromNone /\ OneOfAName /\ DeletedIsNotOwed /\ OwedIsThere
  BY DEF WalletSound, WalletTypes
<1>0. UNCHANGED <<kind, call, at, found, answer, shown, before>>
  BY DEF job
<1>1. ItemTypes' /\ OwingTypes'
  BY <1>t, <1>0 DEF ItemTypes
<1>2. JobTypes'
  BY <1>t, <1>0 DEF JobTypes
<1>3. FlagTypes' /\ PasswordTypes'
  BY <1>t, OwnKeepsTypes, Zenon DEF FlagTypes
<1>4. JobsFit'
  BY <1>t, <1>0 DEF JobsFit, KindFits, CallFits, EffectsFit, Wants, Svc
<1>5. IdsAreOwn'
  BY <1>t, <1>0 DEF IdsAreOwn, SameThing, Svc
<1>6. StoresAlone'
  BY <1>t, <1>0 DEF StoresAlone, Wants, Svc
<1>7. CreatesFromNone'
  <2>1. ASSUME NEW p \in Shells, at[p] \in {"op_create", "bw_create"}
        PROVE  call[p].svc \in crowded' \/ Ours(call[p].svc)' = {}
    <3>1. call[p].svc \in Services
      BY <1>t, <2>1 DEF JobsFit, OpFits, CallFits, Storing, Wants, Svc
    <3>2. call[p].svc \in crowded \/ Ours(call[p].svc) = {}
      BY <1>t, <2>1 DEF CreatesFromNone, Svc
    <3>3. \A s \in Services : (s \in crowded \/ Ours(s) = {}) /\ Svc(p) = s => s \in crowded' \/ Ours(s)' = {}
      OBVIOUS
    <3>4. PICK s \in Services : s = call[p].svc
      BY <3>1
    <3>5. s \in crowded' \/ Ours(s)' = {}
      BY <3>2, <3>3, <3>4 DEF Svc
    <3> QED BY <1>0, <3>4, <3>5
  <2> QED BY <1>0, <2>1 DEF CreatesFromNone, Svc
<1>8. OneOfAName'
  BY <1>t DEF OneOfAName
<1>9. DeletedIsNotOwed'
  <2>1. ASSUME NEW p \in Shells, call[p].op = "delete" PROVE kept'[call[p].svc] = None
    <3>1. call[p].svc \in Services
      BY <1>t, <2>1 DEF JobsFit, CallFits, Wants, Svc
    <3> QED BY <1>t, <2>1, <3>1 DEF DeletedIsNotOwed, Losing, Wants, Svc
  <2> QED BY <1>0, <2>1 DEF DeletedIsNotOwed, Wants, Svc
<1>10. OwedIsThere'
  <2>1. ASSUME NEW s \in Services, kept'[s] \notin {None, Untold}
        PROVE  \/ \E i \in Ours(s)' : s \in crowded' \/ i.secret = kept'[s]
               \/ \E p \in Shells : at'[p] = "op_create" /\ call'[p].svc = s
    <3>1. kept'[s] = kept[s] /\ kept[s] \notin {None, Untold}
      BY <2>1 DEF Losing
    <3>2. CASE \E p \in Shells : at[p] = "op_create" /\ Svc(p) = s
      BY <1>0, <3>2 DEF Svc
    <3>3. CASE \E i \in Ours(s) : s \in crowded \/ i.secret = kept[s]
      BY <2>1, <3>1, <3>3
    <3> QED BY <1>t, <3>1, <3>2, <3>3 DEF OwedIsThere
  <2> QED BY <2>1 DEF OwedIsThere, Svc
<1> QED BY <1>1, <1>2, <1>3, <1>4, <1>5, <1>6, <1>7, <1>8, <1>9, <1>10 DEF WalletSound, WalletTypes

LEMMA RemainsSo ==
    ASSUME NEW s
    PROVE  /\ Remains(s, items) = IF kept[s] # None /\ Ours(s) = {} THEN Untold ELSE kept[s]
           /\ Remains(s, items') = IF kept[s] # None /\ Ours(s)' = {} THEN Untold ELSE kept[s]
<1>1. Ours(s) = {} <=> ~\E i \in items : i.mine /\ i.svc = s /\ i.place = "vault"
  BY DEF Ours, InVault, Named
<1>2. Ours(s)' = {} <=> ~\E i \in items' : i.mine /\ i.svc = s /\ i.place = "vault"
  BY DEF Ours, InVault, Named
<1> QED BY <1>1, <1>2 DEF Remains

(* An item that is added, whosever it is.                                  *)
LEMMA AddedStay ==
    ASSUME WalletSound, NEW n, IsNew(n), items' = items \cup {n}, UNCHANGED kind, ItsPlace(n)
    PROVE  /\ items' \in SUBSET Item /\ \A i, j \in items' : i.id = j.id => i = j
           /\ \A p \in Shells : \A i \in items', j \in found[p] : SameThing(i, j)
           /\ VaultsAreOurs'
<1>t. items \in SUBSET Item /\ IdsAreOwn /\ VaultsAreOurs
  BY DEF WalletSound, WalletTypes, ItemTypes
<1>1. items' \in SUBSET Item /\ \A i, j \in items' : i.id = j.id => i = j
  BY <1>t DEF IsNew, IdsAreOwn
<1>2. \A p \in Shells : \A i \in items', j \in found[p] : SameThing(i, j)
  BY <1>t DEF IsNew, IdsAreOwn, SameThing
<1>3. VaultsAreOurs'
  BY <1>t DEF VaultsAreOurs, ItsPlace
<1> QED BY <1>1, <1>2, <1>3

LEMMA StayedStay ==
    ASSUME WalletSound, ItemsStay, UNCHANGED kind
    PROVE  /\ items' \in SUBSET Item /\ \A i, j \in items' : i.id = j.id => i = j
           /\ \A p \in Shells : \A i \in items', j \in found[p] : SameThing(i, j)
           /\ VaultsAreOurs'
           /\ \A s : \A i \in Ours(s)' : \E j \in Ours(s) : j.id = i.id
<1>t. items \in SUBSET Item /\ IdsAreOwn /\ VaultsAreOurs
  BY DEF WalletSound, WalletTypes, ItemTypes
<1>1. items' \in SUBSET Item /\ \A i, j \in items' : i.id = j.id => i = j
  BY DEF ItemsStay
<1>2. \A i \in items' : \E j \in items : Was(j, i)
  BY DEF ItemsStay
<1>3. \A p \in Shells : \A i \in items', j \in found[p] : SameThing(i, j)
  BY <1>t, <1>2 DEF IdsAreOwn, SameThing, Was
<1>4. VaultsAreOurs'
  BY <1>t, <1>2 DEF VaultsAreOurs, ItsPlace, Was
<1>5. \A s : \A i \in Ours(s)' : \E j \in Ours(s) : j.id = i.id
  BY <1>2 DEF Ours, InVault, Named, Was
<1> QED BY <1>1, <1>3, <1>4, <1>5

LEMMA LandsStands ==
    ASSUME WalletSound, NEW e \in late, Lands(e)
    PROVE  WalletSound'
<1>t. /\ items \in SUBSET Item /\ IdsAreOwn /\ OwingTypes /\ e \in Effects
      /\ e.does # "delete" => e.secret \in Secrets
      /\ VaultsAreOurs /\ kind # "1password"
  BY DEF WalletSound, WalletTypes, ItemTypes, JobTypes, JobsFit, EffectsFit
<1>0. e.svc \in Services
  BY <1>t DEF Effects
<1> DEFINE there == InVault(e.svc)
           new == [NewItem(e.svc, e.secret) EXCEPT !.secret = e.secret]
           over == (items \ there) \cup {[i EXCEPT !.secret = e.secret] : i \in there}
<1>1. /\ UNCHANGED <<kind, job, own, before, blind>> /\ late' = late \ {e}
      /\ kept' = [kept EXCEPT ![e.svc] = Remains(e.svc, items')]
      /\ crowded' = crowded \cup {e.svc}
      /\ UNCHANGED <<walletFailures, walletOutside>>
  BY DEF Lands, Same
<1>2. CountTypes'
  BY <1>1, CountsStay
<1>3. there \in SUBSET items /\ \A i \in there : i.svc = e.svc /\ i.place = "vault" /\ i.mine
  <2>1. there \in SUBSET items /\ \A i \in there : i.svc = e.svc /\ i.place = "vault"
    BY DEF InVault, Named
  <2> QED BY <1>t, <1>0, <2>1 DEF VaultsAreOurs, ItsPlace
<1>4. \/ e.does = "delete" /\ items' = items \ there
      \/ e.does # "delete" /\ there = {} /\ Free # {} /\ items' = items \cup {new}
      \/ e.does # "delete" /\ items' = items
      \/ e.does # "delete" /\ items' = over
  BY <1>t DEF Lands, Effects
<1>5. \A s \in Services : s # e.svc => Ours(s)' = Ours(s) /\ kept'[s] = kept[s]
  <2>1. ASSUME Free # {}, e.does # "delete" PROVE new.svc = e.svc
    BY <1>t, <1>0, <2>1, NewItemIsNew DEF IsNew, Item
  <2>2. ASSUME NEW i \in there, e.does # "delete" PROVE [i EXCEPT !.secret = e.secret].svc = e.svc
    BY <1>t, <1>3, <2>2 DEF Item
  <2> HIDE DEF new, there
  <2>3. ASSUME NEW i, i.svc # e.svc PROVE i \in items' <=> i \in items
    <3>1. CASE e.does = "delete" /\ items' = items \ there
      BY <1>3, <2>3, <3>1
    <3>2. CASE e.does # "delete" /\ Free # {} /\ items' = items \cup {new}
      BY <2>1, <2>3, <3>2
    <3>3. CASE e.does # "delete" /\ items' = over
      <4>1. i \notin there /\ \A j \in there : i # [j EXCEPT !.secret = e.secret]
        BY <1>3, <2>2, <2>3, <3>3
      <4> QED BY <3>3, <4>1
    <3> QED BY <1>4, <3>1, <3>2, <3>3
  <2>4. \A s \in Services : s # e.svc => Ours(s)' = Ours(s)
    BY <2>3 DEF Ours, InVault, Named
  <2>5. \A s \in Services : s # e.svc => kept'[s] = kept[s]
    BY <1>1, <1>t DEF OwingTypes
  <2> QED BY <2>4, <2>5
<1>6. /\ kept' \in [Services -> Secrets \cup {None, Untold}]
      /\ \A s \in Services : kept'[s] \in {kept[s], None} \/ Losing(s)
      /\ kept'[e.svc] \in {None, Untold} \/ Ours(e.svc)' # {}
  <2>1. PICK left : left = Remains(e.svc, items')
    OBVIOUS
  <2>2. left = IF kept[e.svc] # None /\ Ours(e.svc)' = {} THEN Untold ELSE kept[e.svc]
    BY <2>1, RemainsSo
  <2>3. left \in Secrets \cup {None, Untold}
    BY <1>t, <1>0, <2>2 DEF OwingTypes
  <2>4. kept' = [kept EXCEPT ![e.svc] = left]
    BY <1>1, <2>1
  <2>5. kept' \in [Services -> Secrets \cup {None, Untold}] /\ kept'[e.svc] = left
    BY <1>t, <1>0, <2>3, <2>4 DEF OwingTypes
  <2>6. \A s \in Services : s # e.svc => kept'[s] = kept[s]
    BY <1>5
  <2> QED BY <1>0, <2>2, <2>5, <2>6 DEF Losing
<1>7. /\ crowded \subseteq crowded' /\ crowded' \in SUBSET Services /\ e.svc \in crowded'
      /\ OwingTypes'
  BY <1>t, <1>0, <1>1, <1>6 DEF OwingTypes
<1>8. ASSUME items' \in SUBSET Item, \A i, j \in items' : i.id = j.id => i = j,
             \A p \in Shells : \A i \in items', j \in found[p] : SameThing(i, j), VaultsAreOurs'
      PROVE  WalletSound'
  <2>1. \A s \in Services : s \in crowded' \/ Ours(s)' \subseteq Ours(s)
    BY <1>5, <1>7
  <2>2. ASSUME NEW s \in Services
        PROVE  \/ kept'[s] \in {None, Untold} \/ Ours(s) \subseteq Ours(s)'
               \/ s \in crowded' /\ (Ours(s) # {} => Ours(s)' # {})
    BY <1>5, <1>6, <1>7
  <2> QED BY <1>1, <1>2, <1>6, <1>7, <1>8, <2>1, <2>2, OutsideStands
<1>9. CASE e.does = "delete" /\ items' = items \ there
  <2>1. ItemsStay
    BY <1>t, <1>9, UntouchedItemsStay
  <2> QED BY <1>1, <1>8, <2>1, StayedStay
<1>10. CASE e.does # "delete" /\ there = {} /\ Free # {} /\ items' = items \cup {new}
  <2>1. IsNew(NewItem(e.svc, e.secret)) /\ NewItem(e.svc, e.secret).mine
        /\ NewItem(e.svc, e.secret).place = "vault" /\ NewItem(e.svc, e.secret).svc = e.svc
    BY <1>t, <1>0, <1>10, NewItemIsNew
  <2>2. /\ new \in Item /\ new.id = NewItem(e.svc, e.secret).id /\ new.mine /\ new.place = "vault"
        /\ new.svc = e.svc
    BY <1>t, <1>10, <2>1 DEF IsNew, Item
  <2> HIDE DEF new, there
  <2>3. IsNew(new) /\ ItsPlace(new)
    BY <2>1, <2>2 DEF IsNew, ItsPlace
  <2> QED BY <1>1, <1>8, <1>10, <2>3, AddedStay
<1>11. CASE e.does # "delete" /\ items' = items
  <2>1. ItemsStay
    BY <1>t, <1>11, UntouchedItemsStay
  <2> QED BY <1>1, <1>8, <2>1, StayedStay
<1>12. CASE e.does # "delete" /\ items' = over
  <2>1. ItemsStay /\ \A i \in there : [i EXCEPT !.secret = e.secret] \in items'
    BY <1>t, <1>3, <1>12, OverwrittenStay
  <2> QED BY <1>1, <1>8, <2>1, StayedStay
<1> QED BY <1>4, <1>9, <1>10, <1>11, <1>12

LEMMA UserAddsStands ==
    ASSUME WalletSound, NEW s \in Services \cup {Foreign}, NEW x \in Secrets, UserAdds(s, x)
    PROVE  WalletSound'
<1>t. items \in SUBSET Item /\ OwingTypes
  BY DEF WalletSound, WalletTypes, ItemTypes
<1> DEFINE n == [NewItem(s, x) EXCEPT !.mine = s \in Services /\ ~Marks,
                                      !.place = IF kind = "keepassxc-cli" THEN "elsewhere" ELSE "vault"]
<1>1. /\ UNCHANGED <<kind, job, own, before, blind, late, kept, walletFailures>>
      /\ Outside /\ Free # {} /\ items' = items \cup {n}
      /\ crowded' = IF s \in Services /\ ~Marks /\ (InVault(s) # {} \/ \E p \in Shells : Svc(p) = s)
                      THEN crowded \cup {s} ELSE crowded
  BY DEF UserAdds
<1>2. CountTypes'
  BY <1>1, CountsStay
<1>3. IsNew(NewItem(s, x)) /\ NewItem(s, x).svc = s
  BY <1>1, NewItemIsNew
<1>4. /\ n \in Item /\ n.id = NewItem(s, x).id /\ n.svc = s
      /\ n.mine <=> s \in Services /\ ~Marks
      /\ n.place = IF kind = "keepassxc-cli" THEN "elsewhere" ELSE "vault"
  BY <1>3 DEF IsNew, Item
<1> HIDE DEF n
<1>5. IsNew(n)
  BY <1>3, <1>4 DEF IsNew
<1>6. ItsPlace(n)
  BY <1>1, <1>4 DEF ItsPlace, Marks
<1>7. \A v \in Services : Ours(v) \subseteq Ours(v)'
  BY <1>1 DEF Ours, InVault, Named
<1>8. /\ crowded \subseteq crowded' /\ crowded' \in SUBSET Services /\ late' \in SUBSET late
      /\ OwingTypes' /\ \A v \in Services : kept'[v] \in {kept[v], None}
  BY <1>t, <1>1 DEF OwingTypes
<1>9. /\ items' \in SUBSET Item /\ \A i, j \in items' : i.id = j.id => i = j
      /\ \A p \in Shells : \A i \in items', j \in found[p] : SameThing(i, j)
      /\ VaultsAreOurs'
  BY <1>1, <1>5, <1>6, AddedStay
<1>10. ASSUME NEW v \in Services
       PROVE  \/ v \in crowded' \/ Ours(v)' \subseteq Ours(v)
              \/ (\A p \in Shells : Svc(p) # v) /\ \A i, j \in Ours(v)' : i = j
  <2>1. CASE n.mine /\ v = s
    <3>1. CASE InVault(s) # {} \/ \E p \in Shells : Svc(p) = s
      BY <1>1, <1>4, <2>1, <3>1
    <3>2. CASE InVault(s) = {} /\ \A p \in Shells : Svc(p) # s
      <4>1. \A i \in items' : i.svc = v /\ i.place = "vault" => i = n
        BY <1>1, <2>1, <3>2 DEF InVault, Named
      <4> QED BY <2>1, <3>2, <4>1 DEF Ours, InVault, Named
    <3> QED BY <3>1, <3>2
  <2>2. CASE ~(n.mine /\ v = s)
    BY <1>1, <1>4, <2>2 DEF Ours, InVault, Named
  <2> QED BY <2>1, <2>2
<1> QED BY <1>1, <1>2, <1>7, <1>8, <1>9, <1>10, OutsideStands

LEMMA UserRemovesStands ==
    ASSUME WalletSound, NEW i \in items, UserRemoves(i)
    PROVE  WalletSound'
<1>t. items \in SUBSET Item /\ IdsAreOwn /\ OwingTypes /\ None \notin Secrets
  BY WalletsAssumption DEF WalletSound, WalletTypes, ItemTypes
<1>1. /\ UNCHANGED <<kind, job, own, before, blind, late, crowded, walletFailures>> /\ Outside
      /\ kept' = IF i.svc \in Services THEN [kept EXCEPT ![i.svc] = None] ELSE kept
      /\ items' = items \ {i} \/ (items' = ToBin({i}) /\ kind = "keepassxc-cli")
  BY DEF UserRemoves
<1>2. CountTypes'
  BY <1>1, CountsStay
<1>3. ItemsStay
  BY <1>t, <1>1, UntouchedItemsStay, BinnedStay
<1>4. \A j \in items : j # i => j \in items'
  BY <1>1 DEF ToBin
<1>5. \A j \in items' : j \in items \/ j.place # "vault"
  <2>1. [i EXCEPT !.place = "bin"].place # "vault"
    BY <1>t DEF Item
  <2> QED BY <1>1, <2>1 DEF ToBin
<1>6. \A s \in Services : Ours(s)' \subseteq Ours(s)
  BY <1>5 DEF Ours, InVault, Named
<1>7. OwingTypes' /\ \A s \in Services : kept'[s] \in {kept[s], None}
  BY <1>t, <1>1 DEF OwingTypes
<1>8. \A s \in Services : kept'[s] = None \/ Ours(s) \subseteq Ours(s)'
  <2>1. ASSUME NEW s \in Services, s # i.svc PROVE Ours(s) \subseteq Ours(s)'
    BY <1>4, <2>1 DEF Ours, InVault, Named
  <2>2. ASSUME NEW s \in Services, s = i.svc PROVE kept'[s] = None
    BY <1>t, <1>1, <2>2 DEF OwingTypes
  <2> QED BY <2>1, <2>2
<1>9. crowded \subseteq crowded' /\ crowded' \in SUBSET Services /\ late' \in SUBSET late
  BY <1>t, <1>1 DEF OwingTypes
<1> QED BY <1>1, <1>2, <1>3, <1>6, <1>7, <1>8, <1>9, StayedStay, OutsideStands

LEMMA KilledStands ==
    ASSUME WalletSound, NEW p \in Shells, WalletKilled(p)
    PROVE  WalletSound'
<1>t. /\ ItemTypes /\ JobTypes /\ OwingTypes /\ FlagTypes /\ PasswordTypes /\ JobsFit /\ IdsAreOwn
      /\ VaultsAreOurs /\ StoresAlone /\ CreatesFromNone /\ OneOfAName /\ DeletedIsNotOwed /\ OwedIsThere
  BY DEF WalletSound, WalletTypes
<1>1. /\ UNCHANGED <<kind, items, answer, late, crowded, walletOutside>> /\ Fails
      /\ at' = [at EXCEPT ![p] = "idle"] /\ call' = [call EXCEPT ![p] = NoCall]
      /\ before' = [before EXCEPT ![p] = {}] /\ found' = [found EXCEPT ![p] = {}]
      /\ shown' = [shown EXCEPT ![p] = {}]
      /\ kept' = IF at[p] = "op_create" THEN [kept EXCEPT ![Svc(p)] = Remains(Svc(p), items)] ELSE kept
  BY DEF WalletKilled, Same
<1>n. NoCall \in CallTypes /\ NoCall.op = "list" /\ NoCall.svc = Foreign
  BY DEF NoCall, CallTypes, Ops
<1>2. CountTypes'
  BY <1>1, CountsStay
<1>3. FlagTypes'
  <2>1. /\ session' = [session EXCEPT ![p] = FALSE] /\ held' = [held EXCEPT ![p] = FALSE]
        /\ blind' = [blind EXCEPT ![p] = FALSE]
    BY DEF WalletKilled
  <2> QED BY <1>t, <2>1, Zenon DEF FlagTypes
<1>4. PasswordTypes'
  BY <1>t DEF WalletKilled, PasswordTypes
<1>5. /\ OwingTypes' /\ \A s \in Services : kept'[s] = kept[s] \/ Losing(s)
      /\ at[p] = "op_create" => kept'[Svc(p)] \in {None, Untold} \/ Ours(Svc(p)) # {}
  <2>1. CASE at[p] # "op_create"
    BY <1>t, <1>1, <2>1 DEF OwingTypes
  <2>2. CASE at[p] = "op_create"
    <3>1. Svc(p) \in Services
      BY <1>t, <2>2 DEF JobsFit, OpFits, CallFits, Storing, Wants
    <3>2. PICK left : left = Remains(Svc(p), items)
      OBVIOUS
    <3>3. left = IF kept[Svc(p)] # None /\ Ours(Svc(p)) = {} THEN Untold ELSE kept[Svc(p)]
      BY <3>2 DEF Remains, Ours, InVault, Named
    <3>4. kept' = [kept EXCEPT ![Svc(p)] = left] /\ crowded' = crowded
      BY <1>1, <2>2, <3>2
    <3>5. left \in Secrets \cup {None, Untold}
      BY <1>t, <3>1, <3>3 DEF OwingTypes
    <3>6. kept' \in [Services -> Secrets \cup {None, Untold}] /\ kept'[Svc(p)] = left
      BY <1>t, <3>1, <3>4, <3>5 DEF OwingTypes
    <3>7. \A s \in Services : s # Svc(p) => kept'[s] = kept[s]
      BY <1>t, <3>4 DEF OwingTypes
    <3> QED BY <1>t, <3>1, <3>3, <3>4, <3>6, <3>7 DEF OwingTypes, Losing
  <2> QED BY <2>1, <2>2
<1>6. ItemTypes'
  BY <1>t, <1>1 DEF ItemTypes
<1>7. /\ at' \in [Shells -> Steps] /\ at'[p] = "idle" /\ \A q \in Shells \ {p} : at'[q] = at[q]
  BY <1>t, <1>1 DEF JobTypes, Steps
<1>8. /\ call' \in [Shells -> CallTypes] /\ call'[p] = NoCall
      /\ \A q \in Shells \ {p} : call'[q] = call[q]
  BY <1>t, <1>n, <1>1 DEF JobTypes
<1>9. /\ found'[p] = {} /\ \A q \in Shells \ {p} : found'[q] = found[q]
  BY <1>t, <1>1 DEF ItemTypes
<1>10. JobTypes'
  BY <1>t, <1>1, <1>7, <1>8 DEF JobTypes
<1>11. JobsFit'
  <2>1. ASSUME NEW q \in Shells PROVE OpFits(at'[q], call'[q].op) /\ KindFits(at'[q]) /\ CallFits(q)'
    <3>1. CASE q # p
      BY <1>t, <1>7, <1>8, <3>1 DEF JobsFit, CallFits, Wants, Svc
    <3>2. CASE q = p
      BY <1>7, <1>8, <1>n, <3>2 DEF OpFits, KindFits, CallFits, Wants, Storing, Deleting, BwSteps, KpSteps
    <3> QED BY <3>1, <3>2
  <2> QED BY <1>t, <1>1, <2>1 DEF JobsFit, KindFits, EffectsFit
<1>12. IdsAreOwn' /\ VaultsAreOurs'
  <2>1. \A q \in Shells : at'[q] = "kp_purge" => \A j \in found'[q] : j.svc = call'[q].svc
    BY <1>t, <1>7, <1>8, <1>9 DEF IdsAreOwn, Svc
  <2>2. \A q \in Shells : \A i \in items', j \in found'[q] : SameThing(i, j)
    BY <1>t, <1>1, <1>9 DEF IdsAreOwn
  <2>3. IdsAreOwn'
    BY <1>t, <1>1, <2>1, <2>2 DEF IdsAreOwn, SameThing, Svc
  <2> QED BY <1>t, <1>1, <2>3 DEF VaultsAreOurs, ItsPlace
<1>13. StoresAlone'
  BY <1>t, <1>1, <1>8, <1>n DEF StoresAlone, Wants, Svc
<1>14. \A s \in Services \cup {Foreign} : Ours(s)' = Ours(s)
  BY <1>1 DEF Ours, InVault, Named
<1>15. CreatesFromNone'
  <2>1. ASSUME NEW q \in Shells, at'[q] \in {"op_create", "bw_create"}
        PROVE  Svc(q)' \in crowded' \/ Ours(Svc(q))' = {}
    <3>1. q # p /\ at[q] \in {"op_create", "bw_create"} /\ call'[q] = call[q]
      BY <1>7, <1>8, <2>1
    <3>2. call[q].svc \in Services \cup {Foreign}
      BY <1>t DEF JobTypes, CallTypes
    <3>3. call[q].svc \in crowded \/ Ours(call[q].svc) = {}
      BY <1>t, <3>1 DEF CreatesFromNone, Svc
    <3>4. PICK s \in Services \cup {Foreign} : s = call[q].svc
      BY <3>2
    <3>5. s \in crowded' \/ Ours(s)' = {}
      BY <1>1, <1>14, <3>3, <3>4
    <3> QED BY <3>1, <3>4, <3>5 DEF Svc, Ours, InVault, Named
  <2> QED BY <2>1 DEF CreatesFromNone
<1>16. OneOfAName'
  BY <1>t, <1>1, <1>14 DEF OneOfAName
<1>17. DeletedIsNotOwed'
  <2>1. ASSUME NEW q \in Shells, call'[q].op = "delete" PROVE kept'[call'[q].svc] = None
    <3>1. call'[q] = call[q] /\ call[q].op = "delete"
      BY <1>8, <1>n, <2>1
    <3>2. call[q].svc \in Services /\ kept[call[q].svc] = None
      BY <1>t, <3>1 DEF JobsFit, CallFits, DeletedIsNotOwed, Wants, Svc
    <3> QED BY <1>5, <3>1, <3>2 DEF Losing
  <2> QED BY <2>1 DEF DeletedIsNotOwed, Wants, Svc
<1>18. OwedIsThere'
  <2>1. ASSUME NEW s \in Services, kept'[s] \notin {None, Untold}
        PROVE  \/ \E i \in Ours(s)' : s \in crowded' \/ i.secret = kept'[s]
               \/ \E q \in Shells : at'[q] = "op_create" /\ call'[q].svc = s
    <3>1. kept'[s] = kept[s] /\ kept[s] \notin {None, Untold}
      BY <1>5, <2>1 DEF Losing
    <3>2. CASE \E i \in Ours(s) : s \in crowded \/ i.secret = kept[s]
      BY <1>1, <1>14, <3>1, <3>2
    <3>3. CASE \E q \in Shells \ {p} : at[q] = "op_create" /\ Svc(q) = s
      BY <1>7, <1>8, <3>3 DEF Svc
    <3>4. CASE at[p] = "op_create" /\ Svc(p) = s
      <4>1. Ours(s) # {}
        BY <1>5, <2>1, <3>4
      <4>2. s \in crowded
        BY <1>t, <3>4, <4>1 DEF CreatesFromNone
      <4> QED BY <3>2, <4>1, <4>2
    <3> QED BY <1>t, <3>1, <3>2, <3>3, <3>4 DEF OwedIsThere
  <2> QED BY <2>1 DEF OwedIsThere, Svc
<1> QED BY <1>2, <1>3, <1>4, <1>5, <1>6, <1>10, <1>11, <1>12, <1>13, <1>15, <1>16, <1>17, <1>18
        DEF WalletSound, WalletTypes

(* The first command of an operation is one of it, and of the store's.     *)
LEMMA FirstFits ==
    ASSUME NEW p, NEW op \in Ops
    PROVE  /\ First(p, op) \in Steps \ {"idle", "bw_lock", "op_create", "bw_create", "bw_edit",
                                        "bw_delete", "kp_purge"}
           /\ OpFits(First(p, op), op) /\ KindFits(First(p, op))
<1> DEFINE Begins(step) ==
             /\ step \in Steps \ {"idle", "bw_lock", "op_create", "bw_create", "bw_edit",
                                  "bw_delete", "kp_purge"}
             /\ OpFits(step, op) /\ KindFits(step)
<1>0. op \in {"lookup", "store", "delete", "list"}
  BY DEF Ops
<1>1. kind = "1password" => Begins(OpFirst(op))
  BY <1>0 DEF OpFirst, Steps, OpFits, KindFits, Storing, Deleting, BwSteps, KpSteps
<1>2. kind = "bitwarden" => Begins(BwFirst(op)) /\ Begins("bw_unlock")
  BY <1>0 DEF BwFirst, Steps, OpFits, KindFits, Storing, Deleting, BwSteps, KpSteps
<1>3. kind = "keepassxc-cli" => Begins(KpFirst(op)) /\ Begins("kp_unlock")
  BY <1>0 DEF KpFirst, Steps, OpFits, KindFits, Storing, Deleting, BwSteps, KpSteps
<1>4. Begins(op)
  BY <1>0 DEF Steps, OpFits, KindFits, Storing, Deleting, BwSteps, KpSteps, Ops
<1> HIDE DEF Begins
<1>5. Begins(First(p, op))
  BY <1>1, <1>2, <1>3, <1>4 DEF First
<1> QED BY <1>5 DEF Begins

LEMMA CallsStand ==
    ASSUME WalletSound, NEW p \in Shells, NEW op \in Ops, NEW s \in Services \cup {Foreign},
           NEW x \in Secrets \cup {None}, Calls(p, op, s, x),
           op # "list" => s \in Services, op = "store" => x \in Secrets
    PROVE  WalletSound'
<1>t. /\ ItemTypes /\ JobTypes /\ OwingTypes /\ FlagTypes /\ PasswordTypes /\ JobsFit /\ IdsAreOwn
      /\ VaultsAreOurs /\ StoresAlone /\ CreatesFromNone /\ OneOfAName /\ DeletedIsNotOwed /\ OwedIsThere
  BY DEF WalletSound, WalletTypes
<1> DEFINE asked == [op |-> op, svc |-> s, secret |-> x]
           step == First(p, op)
<1>1. /\ UNCHANGED <<kind, items, own, late, walletFailures, walletOutside>> /\ at[p] = "idle"
      /\ at' = [at EXCEPT ![p] = step] /\ call' = [call EXCEPT ![p] = asked]
      /\ found' = [found EXCEPT ![p] = {}] /\ shown' = [shown EXCEPT ![p] = {}]
      /\ answer' = [answer EXCEPT ![p] = "none"]
      /\ before' = [before EXCEPT ![p] = items] /\ blind' = [blind EXCEPT ![p] = FALSE]
      /\ kept' = IF op = "delete" THEN [kept EXCEPT ![s] = None] ELSE kept
      /\ crowded' \in {crowded, crowded \cup {s}}
  BY DEF Calls, Same, Busy
<1>a. asked \in CallTypes /\ asked.op = op /\ asked.svc = s /\ asked.secret = x
  BY DEF CallTypes
<1>b. /\ step \in Steps \ {"idle", "bw_lock", "op_create", "bw_create", "bw_edit", "bw_delete", "kp_purge"}
      /\ OpFits(step, op) /\ KindFits(step)
  BY FirstFits
<1>c. op \in {"store", "delete"} =>
        \A q \in Shells \ {p} :
          call[q].op \in {"store", "delete"} /\ call[q].svc = s /\ "store" \in {op, call[q].op} => s \in crowded'
  <2>1. SUFFICES ASSUME op \in {"store", "delete"}, NEW q \in Shells \ {p},
                        call[q].op \in {"store", "delete"}, call[q].svc = s, "store" \in {op, call[q].op}
                 PROVE  s \in crowded'
    OBVIOUS
  <2>2. at[q] # "idle"
    BY <1>t, <2>1 DEF JobsFit, CallFits, NoCall
  <2> QED BY <2>1, <2>2 DEF Calls, Busy, Svc
<1>d. crowded' \in SUBSET Services
  <2>1. op = "list" => crowded' = crowded
    BY <1>t DEF Calls
  <2> QED BY <1>t, <1>1, <2>1 DEF OwingTypes
<1> HIDE DEF asked, step
<1>2. CountTypes'
  BY <1>1, CountsStay
<1>3. FlagTypes' /\ PasswordTypes'
  <2>1. blind' \in [Shells -> BOOLEAN]
    BY <1>t, <1>1, Zenon DEF FlagTypes
  <2> QED BY <1>t, <1>1, <2>1, OwnKeepsTypes
<1>4. OwingTypes' /\ \A v \in Services : /\ kept'[v] \in {kept[v], None}
                                         /\ op = "delete" /\ v = s => kept'[v] = None
  BY <1>t, <1>1, <1>d DEF OwingTypes
<1>5. ItemTypes'
  BY <1>t, <1>1 DEF ItemTypes
<1>6. /\ at' \in [Shells -> Steps] /\ at'[p] = step /\ \A q \in Shells \ {p} : at'[q] = at[q]
  BY <1>t, <1>1, <1>b DEF JobTypes
<1>7. /\ call' \in [Shells -> CallTypes] /\ call'[p] = asked
      /\ \A q \in Shells \ {p} : call'[q] = call[q]
  BY <1>t, <1>a, <1>1 DEF JobTypes
<1>8. /\ found'[p] = {} /\ \A q \in Shells \ {p} : found'[q] = found[q]
  BY <1>t, <1>1 DEF ItemTypes
<1>9. answer' \in [Shells -> Answers]
  BY <1>t, <1>1 DEF JobTypes, Answers
<1>10. JobTypes'
  BY <1>t, <1>1, <1>6, <1>7, <1>9 DEF JobTypes
<1>11. JobsFit'
  <2>1. ASSUME NEW q \in Shells PROVE OpFits(at'[q], call'[q].op) /\ KindFits(at'[q]) /\ CallFits(q)'
    <3>1. CASE q # p
      BY <1>t, <1>6, <1>7, <3>1 DEF JobsFit, CallFits, Wants, Svc
    <3>2. CASE q = p
      BY <1>6, <1>7, <1>a, <1>b, <3>2 DEF CallFits, Wants, Svc
    <3> QED BY <3>1, <3>2
  <2> QED BY <1>t, <1>1, <2>1 DEF JobsFit, KindFits, EffectsFit
<1>12. IdsAreOwn' /\ VaultsAreOurs'
  <2>1. \A q \in Shells : at'[q] = "kp_purge" => \A j \in found'[q] : j.svc = call'[q].svc
    BY <1>t, <1>6, <1>7, <1>8 DEF IdsAreOwn, Svc
  <2>2. \A q \in Shells : \A i \in items', j \in found'[q] : SameThing(i, j)
    BY <1>t, <1>1, <1>8 DEF IdsAreOwn
  <2>3. IdsAreOwn'
    BY <1>t, <1>1, <2>1, <2>2 DEF IdsAreOwn, SameThing, Svc
  <2> QED BY <1>t, <1>1, <2>3 DEF VaultsAreOurs, ItsPlace
<1>13. StoresAlone'
  <2>1. ASSUME NEW q \in Shells, NEW r \in Shells, q # r, call'[q].op = "store", call'[q].svc = call'[r].svc,
               call'[r].op \in {"store", "delete"}
        PROVE  call'[q].svc \in crowded'
    <3>1. CASE q # p /\ r # p
      BY <1>t, <1>1, <1>7, <2>1, <3>1 DEF StoresAlone, Wants, Svc
    <3>2. CASE q = p
      BY <1>7, <1>a, <1>c, <2>1, <3>2
    <3>3. CASE r = p
      BY <1>7, <1>a, <1>c, <2>1, <3>3
    <3> QED BY <3>1, <3>2, <3>3
  <2> QED BY <2>1 DEF StoresAlone, Wants, Svc
<1>14. \A v \in Services \cup {Foreign} : Ours(v)' = Ours(v)
  BY <1>1 DEF Ours, InVault, Named
<1>15. CreatesFromNone'
  <2>1. ASSUME NEW q \in Shells, at'[q] \in {"op_create", "bw_create"}
        PROVE  Svc(q)' \in crowded' \/ Ours(Svc(q))' = {}
    <3>1. q # p /\ at[q] \in {"op_create", "bw_create"} /\ call'[q] = call[q]
      BY <1>6, <1>7, <1>b, <2>1
    <3>2. call[q].svc \in Services \cup {Foreign}
      BY <1>t DEF JobTypes, CallTypes
    <3>3. call[q].svc \in crowded \/ Ours(call[q].svc) = {}
      BY <1>t, <3>1 DEF CreatesFromNone, Svc
    <3>4. PICK v \in Services \cup {Foreign} : v = call[q].svc
      BY <3>2
    <3>5. v \in crowded' \/ Ours(v)' = {}
      BY <1>1, <1>14, <3>3, <3>4
    <3> QED BY <3>1, <3>4, <3>5 DEF Svc, Ours, InVault, Named
  <2> QED BY <2>1 DEF CreatesFromNone
<1>16. OneOfAName'
  BY <1>t, <1>1, <1>14 DEF OneOfAName
<1>17. DeletedIsNotOwed'
  <2>1. ASSUME NEW q \in Shells, call'[q].op = "delete" PROVE kept'[call'[q].svc] = None
    <3>1. CASE q = p
      BY <1>4, <1>7, <1>a, <2>1, <3>1
    <3>2. CASE q # p
      <4>1. call'[q] = call[q] /\ call[q].op = "delete"
        BY <1>7, <2>1, <3>2
      <4>2. call[q].svc \in Services /\ kept[call[q].svc] = None
        BY <1>t, <4>1 DEF JobsFit, CallFits, DeletedIsNotOwed, Wants, Svc
      <4> QED BY <1>4, <4>1, <4>2
    <3> QED BY <3>1, <3>2
  <2> QED BY <2>1 DEF DeletedIsNotOwed, Wants, Svc
<1>18. OwedIsThere'
  <2>1. ASSUME NEW v \in Services, kept'[v] \notin {None, Untold}
        PROVE  \/ \E i \in Ours(v)' : v \in crowded' \/ i.secret = kept'[v]
               \/ \E q \in Shells : at'[q] = "op_create" /\ call'[q].svc = v
    <3>1. kept'[v] = kept[v] /\ kept[v] \notin {None, Untold}
      BY <1>4, <2>1
    <3>2. CASE \E i \in Ours(v) : v \in crowded \/ i.secret = kept[v]
      BY <1>1, <1>14, <3>1, <3>2
    <3>3. ASSUME NEW q \in Shells, at[q] = "op_create", Svc(q) = v
          PROVE  \E r \in Shells : at'[r] = "op_create" /\ call'[r].svc = v
      BY <1>1, <1>6, <1>7, <3>3 DEF Svc
    <3> QED BY <1>t, <3>1, <3>2, <3>3 DEF OwedIsThere
  <2> QED BY <2>1 DEF OwedIsThere, Svc
<1> QED BY <1>2, <1>3, <1>4, <1>5, <1>10, <1>11, <1>12, <1>13, <1>15, <1>16, <1>17, <1>18
        DEF WalletSound, WalletTypes

(* Bitwarden's edit or deletion of an item of another name.                *)
Taken1(p, i, ans) ==
  /\ i \in items /\ i.svc # Svc(p) /\ ans \in {"ok", "error"}
  /\ at[p] \in {"bw_edit", "bw_delete"}
  /\ \/ items' = items /\ ans = "error"
     \/ items' = (items \ {i}) \cup (IF at[p] = "bw_edit" THEN {Renamed(p, i)} ELSE {})
  /\ Says(p, ans, {})
  /\ kept' = [s \in Services |-> IF s = i.svc THEN Remains(s, items') ELSE Owed(p, ans)[s]]

LEMMA TakesOne ==
    ASSUME NEW p \in Shells, BwTakesAnother(p)
    PROVE  /\ \E i \in items : i \in Still(p) /\ \E ans \in {"ok", "error"} : Taken1(p, i, ans)
           /\ blind' = [blind EXCEPT ![p] = TRUE] /\ crowded' = crowded \cup {Svc(p)}
           /\ UNCHANGED <<own, found, late>> /\ Same /\ (Works \/ Fails)
           /\ at[p] \in {"bw_edit", "bw_delete"}
BY DEF BwTakesAnother, Taken1, Still, Named

(* What it leaves: the item it took is gone, or is ours and of its name.   *)
LEMMA TakenItems ==
    ASSUME WalletSound, NEW p \in Shells, NEW i \in items, NEW ans, Taken1(p, i, ans)
    PROVE  /\ kind = "bitwarden" /\ Svc(p) \in Services
           /\ at[p] = "bw_edit" => Wants(p, "store") /\ call[p].secret \in Secrets
           /\ at[p] = "bw_delete" => Wants(p, "delete")
           /\ Renamed(p, i).id = i.id /\ Renamed(p, i).svc = Svc(p) /\ Renamed(p, i).mine
           /\ at[p] = "bw_edit" =>
                Renamed(p, i).secret = call[p].secret /\ Renamed(p, i).place = "vault" /\ Renamed(p, i) \in Item
           /\ \A k \in items' : k \in items \/ (k = Renamed(p, i) /\ at[p] = "bw_edit")
           /\ \A k \in items : k # i => k \in items'
           /\ items' \in SUBSET Item /\ \A k, l \in items' : k.id = l.id => k = l
<1>t. /\ items \in SUBSET Item /\ IdsAreOwn /\ VaultsAreOurs /\ OpFits(at[p], call[p].op) /\ KindFits(at[p])
      /\ CallFits(p)
  BY DEF WalletSound, WalletTypes, ItemTypes, JobsFit
<1>1. at[p] \in {"bw_edit", "bw_delete"} /\ i.svc # Svc(p)
  BY DEF Taken1
<1>2. kind = "bitwarden" /\ (at[p] = "bw_edit" => Wants(p, "store")) /\ (at[p] = "bw_delete" => Wants(p, "delete"))
  BY <1>t, <1>1 DEF KindFits, OpFits, BwSteps, Storing, Deleting, Wants
<1>3. Svc(p) \in Services /\ (Wants(p, "store") => call[p].secret \in Secrets)
  BY <1>t, <1>1, <1>2 DEF CallFits, Wants
<1>4. i \in Item /\ i.place = "vault"
  BY <1>t, <1>2 DEF VaultsAreOurs, ItsPlace
<1>5. /\ Renamed(p, i).id = i.id /\ Renamed(p, i).svc = Svc(p) /\ Renamed(p, i).mine
      /\ Renamed(p, i).secret = call[p].secret /\ Renamed(p, i).place = "vault"
      /\ at[p] = "bw_edit" => Renamed(p, i) \in Item
  BY <1>2, <1>3, <1>4 DEF Renamed, Item
<1>6. /\ \A k \in items' : k \in items \/ (k = Renamed(p, i) /\ at[p] = "bw_edit")
      /\ \A k \in items : k # i => k \in items'
  BY DEF Taken1
<1>7. items' \in SUBSET Item
  BY <1>t, <1>5, <1>6
<1>8. \A k, l \in items' : k.id = l.id => k = l
  <2>1. CASE items' = items
    BY <1>t, <2>1 DEF IdsAreOwn
  <2>2. CASE items' = (items \ {i}) \cup (IF at[p] = "bw_edit" THEN {Renamed(p, i)} ELSE {})
    <3>1. \A k \in items' : (k \in items /\ k.id # i.id) \/ (k = Renamed(p, i) /\ k.id = i.id)
      BY <1>t, <1>5, <2>2 DEF IdsAreOwn
    <3> QED BY <1>t, <3>1 DEF IdsAreOwn
  <2> QED BY <2>1, <2>2 DEF Taken1
<1> QED BY <1>2, <1>3, <1>5, <1>6, <1>7, <1>8

LEMMA TakesAnotherStands ==
    ASSUME WalletSound, NEW p \in Shells, BwTakesAnother(p)
    PROVE  WalletSound'
<1>t. /\ ItemTypes /\ JobTypes /\ OwingTypes /\ FlagTypes /\ PasswordTypes /\ JobsFit /\ IdsAreOwn
      /\ VaultsAreOurs /\ StoresAlone /\ CreatesFromNone /\ OneOfAName /\ DeletedIsNotOwed /\ OwedIsThere
  BY DEF WalletSound, WalletTypes
<1>1. PICK i \in items, ans \in {"ok", "error"} : Taken1(p, i, ans)
  BY TakesOne
<1> DEFINE mine == Svc(p)
           next == IF session[p] /\ ~held[p] THEN "bw_lock" ELSE "idle"
<1>2. /\ blind' = [blind EXCEPT ![p] = TRUE] /\ crowded' = crowded \cup {mine}
      /\ UNCHANGED <<own, found, late, kind, walletOutside>> /\ (Works \/ Fails)
      /\ at[p] \in {"bw_edit", "bw_delete"}
  BY TakesOne DEF Same
<1>3. /\ answer' = [answer EXCEPT ![p] = ans] /\ shown' = [shown EXCEPT ![p] = {}]
      /\ at' = [at EXCEPT ![p] = next] /\ call' = [call EXCEPT ![p] = NoCall]
      /\ before' = [before EXCEPT ![p] = {}]
      /\ kept' = [s \in Services |-> IF s = i.svc THEN Remains(s, items') ELSE Owed(p, ans)[s]]
      /\ i.svc # mine
  BY <1>1 DEF Taken1, Says
<1>4. /\ kind = "bitwarden" /\ mine \in Services
      /\ at[p] = "bw_edit" => Wants(p, "store") /\ call[p].secret \in Secrets
      /\ at[p] = "bw_delete" => Wants(p, "delete")
      /\ Renamed(p, i).svc = mine /\ Renamed(p, i).mine
      /\ at[p] = "bw_edit" => Renamed(p, i).secret = call[p].secret /\ Renamed(p, i).place = "vault"
      /\ \A k \in items' : k \in items \/ (k = Renamed(p, i) /\ at[p] = "bw_edit")
      /\ \A k \in items : k # i => k \in items'
      /\ items' \in SUBSET Item /\ \A k, l \in items' : k.id = l.id => k = l
  BY <1>1, TakenItems
<1>n. NoCall \in CallTypes /\ NoCall.op = "list" /\ NoCall.svc = Foreign
  BY DEF NoCall, CallTypes, Ops
<1>5. /\ \A s \in Services : s # mine => Ours(s)' \subseteq Ours(s)
      /\ \A s \in Services : s # mine /\ s # i.svc => Ours(s) \subseteq Ours(s)'
  BY <1>4 DEF Ours, InVault, Named
<1>6. next \in {"bw_lock", "idle"} /\ next \in Steps
  BY DEF Steps
<1> HIDE DEF next
<1>7. /\ at' \in [Shells -> Steps] /\ at'[p] = next /\ \A q \in Shells \ {p} : at'[q] = at[q]
  BY <1>t, <1>3, <1>6 DEF JobTypes
<1>8. /\ call' \in [Shells -> CallTypes] /\ call'[p] = NoCall
      /\ \A q \in Shells \ {p} : call'[q] = call[q]
  BY <1>t, <1>n, <1>3 DEF JobTypes
<1>9. ItemTypes'
  BY <1>t, <1>2, <1>3, <1>4 DEF ItemTypes
<1>10. JobTypes'
  <2>1. ans \in Answers
    BY DEF Answers
  <2> QED BY <1>t, <1>2, <1>3, <1>7, <1>8, <2>1 DEF JobTypes
<1>11. FlagTypes' /\ PasswordTypes'
  <2>1. blind' \in [Shells -> BOOLEAN]
    BY <1>t, <1>2, Zenon DEF FlagTypes
  <2> QED BY <1>t, <1>2, <2>1, OwnKeepsTypes
<1>12. CountTypes'
  BY <1>2, CountsStay DEF Works
<1>13. JobsFit'
  <2>1. ASSUME NEW q \in Shells PROVE OpFits(at'[q], call'[q].op) /\ KindFits(at'[q]) /\ CallFits(q)'
    <3>1. CASE q # p
      BY <1>t, <1>7, <1>8, <3>1 DEF JobsFit, CallFits, Wants, Svc
    <3>2. CASE q = p
      BY <1>6, <1>7, <1>8, <1>n, <3>2 DEF OpFits, KindFits, CallFits, Wants, Storing, Deleting, BwSteps, KpSteps
    <3> QED BY <3>1, <3>2
  <2> QED BY <1>t, <1>2, <2>1 DEF JobsFit, KindFits, EffectsFit
<1>14. IdsAreOwn'
  <2>1. \A q \in Shells : at'[q] # "kp_purge"
    BY <1>t, <1>4, <1>6, <1>7 DEF JobsFit, KindFits, KpSteps
  <2> QED BY <1>2, <1>4, <2>1 DEF IdsAreOwn, SameThing
<1>15. VaultsAreOurs'
  BY <1>t, <1>2, <1>4 DEF VaultsAreOurs, ItsPlace
<1>16. StoresAlone'
  BY <1>t, <1>2, <1>8, <1>n DEF StoresAlone, Wants, Svc
<1>17. CreatesFromNone'
  <2>1. ASSUME NEW q \in Shells, at'[q] \in {"op_create", "bw_create"}
        PROVE  call'[q].svc \in crowded' \/ Ours(Svc(q))' = {}
    <3>1. q # p /\ at[q] \in {"op_create", "bw_create"} /\ call'[q] = call[q]
      BY <1>6, <1>7, <1>8, <2>1
    <3>2. call[q].svc \in Services
      BY <1>t, <3>1 DEF JobsFit, OpFits, CallFits, Storing, Wants, Svc
    <3>3. call[q].svc \in crowded \/ Ours(call[q].svc) = {}
      BY <1>t, <3>1 DEF CreatesFromNone, Svc
    <3>4. PICK s \in Services : s = call[q].svc
      BY <3>2
    <3>5. s \in crowded' \/ Ours(s)' = {}
      BY <1>2, <1>5, <3>3, <3>4
    <3> QED BY <3>1, <3>4, <3>5 DEF Svc
  <2> QED BY <2>1 DEF CreatesFromNone, Svc
<1>18. OneOfAName'
  BY <1>t, <1>2, <1>5 DEF OneOfAName
<1>19. ASSUME NEW s \in Services
       PROVE  /\ s = i.svc => \/ kept'[s] = kept[s] /\ (kept[s] = None \/ Ours(s)' # {})
                              \/ Losing(s)
              /\ s # i.svc /\ s # mine => kept'[s] = kept[s]
              /\ s = mine /\ Wants(p, "delete") => kept'[s] = kept[s]
              /\ s = mine /\ Wants(p, "store") =>
                   kept'[s] = IF ans = "ok" /\ ~Forgetting(p) THEN call[p].secret ELSE None
  <2>1. kept'[s] = IF s = i.svc THEN Remains(s, items') ELSE Owed(p, ans)[s]
    BY <1>3
  <2>2. s = i.svc => \/ kept'[s] = kept[s] /\ (kept[s] = None \/ Ours(s)' # {})
                     \/ Losing(s)
    BY <2>1, RemainsSo DEF Losing
  <2>3. /\ s # mine => Owed(p, ans)[s] = kept[s]
        /\ Wants(p, "delete") => Owed(p, ans)[s] = kept[s]
        /\ s = mine /\ Wants(p, "store") =>
             Owed(p, ans)[s] = IF ans = "ok" /\ ~Forgetting(p) THEN call[p].secret ELSE None
    BY <1>t, <1>4 DEF Owed, OwingTypes, Wants
  <2> QED BY <1>3, <2>1, <2>2, <2>3
<1>20. OwingTypes'
  <2>1. ASSUME NEW s \in Services PROVE kept'[s] \in Secrets \cup {None, Untold}
    BY <1>t, <1>2, <1>4, <1>19 DEF OwingTypes, Losing
  <2> QED BY <1>t, <1>2, <1>3, <1>4, <2>1 DEF OwingTypes
<1>21. DeletedIsNotOwed'
  <2>1. ASSUME NEW q \in Shells, call'[q].op = "delete" PROVE kept'[call'[q].svc] = None
    <3>1. q # p /\ call'[q] = call[q] /\ Wants(q, "delete") /\ Svc(q) \in Services /\ Busy(q)
      <4>1. q # p /\ call'[q] = call[q] /\ call[q].op = "delete"
        BY <1>8, <1>n, <2>1
      <4> QED BY <1>t, <1>n, <4>1 DEF JobsFit, CallFits, Wants, Busy
    <3>2. kept[Svc(q)] = None
      BY <1>t, <3>1 DEF DeletedIsNotOwed
    <3>3. Svc(q) = mine => Forgetting(p)
      BY <3>1 DEF Forgetting
    <3>4. PICK s \in Services : s = Svc(q)
      BY <3>1
    <3>5. kept'[s] = None
      BY <1>2, <1>4, <1>19, <3>2, <3>3, <3>4 DEF Losing
    <3> QED BY <3>1, <3>4, <3>5 DEF Svc
  <2> QED BY <2>1 DEF DeletedIsNotOwed, Wants, Svc
<1>22. OwedIsThere'
  <2>1. ASSUME NEW s \in Services, kept'[s] \notin {None, Untold}
        PROVE  \E k \in Ours(s)' : s \in crowded' \/ k.secret = kept'[s]
    <3>0. ~\E q \in Shells : at[q] = "op_create"
      BY <1>t, <1>4 DEF JobsFit, KindFits
    <3>1. CASE s = i.svc
      <4>1. kept'[s] = kept[s] /\ Ours(s)' # {}
        BY <1>19, <2>1, <3>1 DEF Losing
      <4>2. PICK k \in Ours(s) : s \in crowded \/ k.secret = kept[s]
        BY <1>t, <2>1, <3>0, <4>1 DEF OwedIsThere
      <4>3. PICK l : l \in Ours(s)' /\ l \in Ours(s)
        BY <1>3, <1>5, <3>1, <4>1
      <4>4. s \in crowded \/ k = l
        BY <1>t, <4>2, <4>3 DEF OneOfAName
      <4> QED BY <1>2, <4>1, <4>2, <4>3, <4>4
    <3>2. CASE s = mine
      <4>1. Wants(p, "store") /\ at[p] = "bw_edit" /\ ans = "ok"
        <5>1. ~Wants(p, "delete")
          BY <1>t, <1>19, <2>1, <3>2 DEF DeletedIsNotOwed
        <5>2. at[p] = "bw_edit" /\ Wants(p, "store")
          BY <1>2, <1>4, <5>1
        <5> QED BY <1>19, <2>1, <3>2, <5>2
      <4>2. Renamed(p, i) \in items'
        BY <1>1, <4>1 DEF Taken1
      <4>3. Renamed(p, i) \in Ours(s)'
        BY <1>4, <3>2, <4>1, <4>2 DEF Ours, InVault, Named
      <4> QED BY <1>2, <3>2, <4>3
    <3>3. CASE s # i.svc /\ s # mine
      <4>1. kept'[s] = kept[s] /\ Ours(s)' = Ours(s)
        BY <1>5, <1>19, <3>3
      <4> QED BY <1>t, <1>2, <2>1, <3>0, <4>1 DEF OwedIsThere
    <3> QED BY <3>1, <3>2, <3>3
  <2> QED BY <2>1 DEF OwedIsThere
<1> QED BY <1>9, <1>10, <1>11, <1>12, <1>13, <1>14, <1>15, <1>16, <1>17, <1>18, <1>20, <1>21, <1>22
        DEF WalletSound, WalletTypes

LEMMA ShellStands ==
    ASSUME WalletSound, NEW p \in Shells,
           \/ \E s \in Services : Calls(p, "lookup", s, None) \/ Calls(p, "delete", s, None)
           \/ \E s \in Services, x \in Secrets : Calls(p, "store", s, x)
           \/ Calls(p, "list", Foreign, None)
           \/ OnePassword(p) \/ Bitwarden(p) \/ SecretTool(p) \/ CredentialManager(p)
           \/ Keychain(p) \/ KeePassXCCLI(p) \/ WalletKilled(p)
    PROVE  WalletSound'
<1>1. CASE \E s \in Services : Calls(p, "lookup", s, None) \/ Calls(p, "delete", s, None)
  BY <1>1, CallsStand DEF Ops
<1>2. CASE \E s \in Services, x \in Secrets : Calls(p, "store", s, x)
  BY <1>2, CallsStand DEF Ops
<1>3. CASE Calls(p, "list", Foreign, None)
  BY <1>3, CallsStand DEF Ops
<1>4. ASSUME Worked(p) /\ at[p] \notin {"idle", "bw_lock"} PROVE WalletSound'
  BY <1>4, WorkStands DEF Worked
<1>5. CASE Bitwarden(p)
  <2>1. CASE BwWork(p)
    BY <1>4, <2>1, BitwardenWorks
  <2>2. CASE BwLock(p) \/ HoldsOpen(p) \/ LetsGo(p)
    BY <2>2, SessionsStand
  <2>3. CASE BwTakesAnother(p)
    BY <2>3, TakesAnotherStands
  <2> QED BY <1>5, <2>1, <2>2, <2>3 DEF Bitwarden, BwWork
<1>6. CASE OnePassword(p)
  BY <1>4, <1>6, OnePasswordWorks
<1>7. CASE SecretTool(p)
  BY <1>4, <1>7, SecretToolWorks
<1>8. CASE CredentialManager(p)
  BY <1>4, <1>8, CredentialManagerWorks
<1>9. CASE Keychain(p)
  BY <1>4, <1>9, KeychainWorks
<1>10. CASE KeePassXCCLI(p)
  BY <1>4, <1>10, KeePassXCCLIWorks
<1>11. CASE WalletKilled(p)
  BY <1>11, KilledStands
<1> QED BY <1>1, <1>2, <1>3, <1>5, <1>6, <1>7, <1>8, <1>9, <1>10, <1>11

LEMMA NextWallets == WalletSound /\ [WalletsNext]_walletVars => WalletSound'
<1> SUFFICES ASSUME WalletSound, [WalletsNext]_walletVars PROVE WalletSound'
  OBVIOUS
<1>1. CASE UNCHANGED walletVars
  <2>1. /\ UNCHANGED <<kind, items, call, answer, found, shown, late, before, kept, crowded>>
        /\ UNCHANGED <<at, own, blind, walletFailures, walletOutside>>
    BY <1>1 DEF walletVars, job, history
  <2>2. FlagTypes' /\ PasswordTypes'
    BY <2>1, OwnKeepsTypes, Zenon DEF WalletSound, WalletTypes, FlagTypes
  <2>3. CountTypes'
    BY <2>1, CountsStay
  <2>4. at' \in [Shells -> Steps]
    BY <2>1 DEF WalletSound, WalletTypes, JobTypes
  <2> QED BY <2>1, <2>2, <2>3, <2>4, QuietStands
<1>2. CASE \E p \in Shells :
             \/ \E s \in Services : Calls(p, "lookup", s, None) \/ Calls(p, "delete", s, None)
             \/ \E s \in Services, x \in Secrets : Calls(p, "store", s, x)
             \/ Calls(p, "list", Foreign, None)
             \/ OnePassword(p) \/ Bitwarden(p) \/ SecretTool(p) \/ CredentialManager(p)
             \/ Keychain(p) \/ KeePassXCCLI(p) \/ WalletKilled(p)
  <2>1. PICK p \in Shells :
             \/ \E s \in Services : Calls(p, "lookup", s, None) \/ Calls(p, "delete", s, None)
             \/ \E s \in Services, x \in Secrets : Calls(p, "store", s, x)
             \/ Calls(p, "list", Foreign, None)
             \/ OnePassword(p) \/ Bitwarden(p) \/ SecretTool(p) \/ CredentialManager(p)
             \/ Keychain(p) \/ KeePassXCCLI(p) \/ WalletKilled(p)
    BY <1>2
  <2> QED BY <2>1, ShellStands
<1>3. CASE \E e \in late : Lands(e)
  BY <1>3, LandsStands
<1>4. CASE \E s \in Services \cup {Foreign}, x \in Secrets : UserAdds(s, x)
  BY <1>4, UserAddsStands
<1>5. CASE \E i \in items : UserRemoves(i)
  BY <1>5, UserRemovesStands
<1> QED BY <1>1, <1>2, <1>3, <1>4, <1>5 DEF WalletsNext

(* Every command of every store, the user and the calls that were given up *)
(* on keep the types of the wallets' state.                                *)
THEOREM WalletsTypes == WalletsSpec => []WalletsTypeOK
<1>1. WalletSound => WalletsTypeOK
  BY WalletsTyped DEF WalletSound
<1> QED BY <1>1, InitWallets, NextWallets, PTL DEF WalletsSpec

(* OneCopy: a passphrase that is stored again replaces the one before, in  *)
(* every store, whatever commands fail and whoever is killed, but where two *)
(* store it at once, a failed look is taken for a miss, a call given up on  *)
(* lands late, Bitwarden's search took another's item, or the user put one  *)
(* there by hand (the Store methods of internal/wallets/onepassword,        *)
(* bitwarden, secrettool, credman, keychain and keepassxccli).             *)
THEOREM OneCopyIsKept == WalletsSpec => []OneCopy
<1>1. WalletSound => OneCopy
  <2> SUFFICES ASSUME WalletSound, NEW s \in Services, s \notin crowded
               PROVE  Cardinality(Ours(s)) <= 1
    BY DEF OneCopy, Ours
  <2>1. \A i, j \in Ours(s) : i = j
    BY DEF WalletSound, OneOfAName
  <2>2. CASE Ours(s) = {}
    BY <2>2, FS_EmptySet
  <2>3. CASE Ours(s) # {}
    <3>1. PICK i : i \in Ours(s)
      BY <2>3
    <3>2. Ours(s) = {i}
      BY <2>1, <3>1
    <3>3. Cardinality({i}) = 1
      BY FS_Singleton
    <3>4. Cardinality(Ours(s)) = 1
      BY <3>2, <3>3, Zenon
    <3> QED BY <3>4
  <2> QED BY <2>2, <2>3
<1> QED BY <1>1, InitWallets, NextWallets, PTL DEF WalletsSpec

(* LossIsReported: what a store said it saved is there, and is the one last *)
(* saved but where two were at it, until somebody is told that it was       *)
(* forgotten or that replacing it failed, or 1Password's Store is between   *)
(* its delete and its create.  The steps that lose it with nobody told      *)
(* (Untold) are those three and no other: a kill in that Store, a deletion  *)
(* that was given up on and lands late, and an edit or a deletion of        *)
(* another name in Bitwarden.                                              *)
THEOREM LossesAreReported == WalletsSpec => []LossIsReported
<1>1. WalletSound => LossIsReported
  BY DEF WalletSound, OwedIsThere, LossIsReported, Ours
<1> QED BY <1>1, InitWallets, NextWallets, PTL DEF WalletsSpec

-----------------------------------------------------------------------------
(* What others put in a store.  An operation that deletes looks first, and *)
(* what it finds then is what it deletes: of the items that are not ours    *)
(* and were there when it began, none is in its way, unless it is blind.    *)
(* Bitwarden's edit gives an item another name, and nothing is traced there.*)
Theirs(p) == {i \in items : ~i.mine /\ i \in before[p]}
Since(p) == kind # "bitwarden" => \A i \in items, b \in before[p] : i.id = b.id => Was(b, i)
Fraught == {"op_delete", "kp_rm", "kp_search_again", "kp_purge"}
LookedFirst(p) ==
  \/ blind[p]
  \/ /\ at[p] = "op_delete" => \A i \in Theirs(p) : i.svc # Svc(p)
     /\ at[p] = "kp_search_again" \/ (at[p] = "kp_rm" /\ Right(p)) =>
          \A i \in Theirs(p) : i.svc = Svc(p) => i \in found[p]
     /\ at[p] = "kp_purge" => \A i \in Theirs(p), j \in found[p] : i.id # j.id
ShownIsOurs == \A p \in Shells : \A i \in shown[p] : i.mine \/ blind[p]
Careful == ShownIsOurs /\ \A p \in Shells : Since(p) /\ LookedFirst(p)

(* Where what is in the store comes from: it was there, or it is new.      *)
Traced ==
  \A i \in items' : (\E j \in items : Was(j, i)) \/ (\A q \in Shells : \A b \in before[q] : b.id # i.id)
OthersStay == \A i \in items : ~i.mine => i \in items'

LEMMA TracedSince ==
    ASSUME WalletSound, NEW p \in Shells, Traced, Since(p), UNCHANGED kind, items' \in SUBSET Item,
           before'[p] = before[p]
    PROVE  Since(p)' /\ (kind # "bitwarden" => Theirs(p)' \subseteq Theirs(p))
<1>t. items \in SUBSET Item /\ before[p] \in SUBSET Item
  BY DEF WalletSound, WalletTypes, ItemTypes
<1>1. ASSUME kind # "bitwarden", NEW i \in items', NEW b \in before[p], i.id = b.id
      PROVE  \E j \in items : Was(j, i) /\ Was(b, j)
  <2>1. PICK j \in items : Was(j, i)
    BY <1>1 DEF Traced
  <2>2. j.id = b.id
    BY <1>1, <2>1 DEF Was
  <2> QED BY <1>1, <2>1, <2>2 DEF Since
<1>2. kind # "bitwarden" => \A i \in items', b \in before[p] : i.id = b.id => Was(b, i)
  BY <1>1 DEF Was
<1>3. Since(p)'
  BY <1>2 DEF Since, Was
<1>4. ASSUME kind # "bitwarden", NEW i \in items', ~i.mine, i \in before[p] PROVE i \in items
  <2>1. PICK j \in items : Was(j, i) /\ Was(i, j)
    BY <1>1, <1>4
  <2>2. i.place = j.place /\ i.secret = j.secret /\ i.id = j.id /\ i.svc = j.svc /\ i.mine = j.mine
    BY <1>4, <2>1 DEF Was
  <2>3. i = j
    BY <1>t, <2>2 DEF Item
  <2> QED BY <2>1, <2>3
<1> QED BY <1>3, <1>4 DEF Theirs

(* A shell that does nothing meanwhile has still looked first.             *)
LEMMA IdleStillLooked ==
    ASSUME WalletSound, Careful, NEW q \in Shells, UNCHANGED kind, Traced, items' \in SUBSET Item,
           before'[q] = before[q], at'[q] = at[q], call'[q] = call[q], found'[q] = found[q],
           blind'[q] = blind[q], dbpass'[q] = dbpass[q]
    PROVE  Since(q)' /\ LookedFirst(q)'
<1>0. Since(q)' /\ (kind # "bitwarden" => Theirs(q)' \subseteq Theirs(q))
  BY TracedSince DEF Careful
<1>2. LookedFirst(q)
  BY DEF Careful
<1>3. CASE blind[q]
  BY <1>0, <1>3 DEF LookedFirst
<1>5. CASE kind = "bitwarden"
  <2>1. at[q] \notin Fraught
    BY <1>5, AtWork DEF KindFits, KpSteps, Fraught
  <2> QED BY <1>0, <2>1 DEF LookedFirst, Fraught
<1>4. CASE ~blind[q] /\ kind # "bitwarden"
  <2>0. Since(q)' /\ Theirs(q)' \subseteq Theirs(q)
    BY <1>0, <1>4
  <2>1. at'[q] = "op_delete" => \A i \in Theirs(q)' : i.svc # call'[q].svc
    BY <2>0, <1>2, <1>4 DEF LookedFirst, Svc
  <2>2. at'[q] = "kp_search_again" \/ (at'[q] = "kp_rm" /\ dbpass'[q] = "right") =>
          \A i \in Theirs(q)' : i.svc = call'[q].svc => i \in found'[q]
    BY <2>0, <1>2, <1>4 DEF LookedFirst, Svc, Right
  <2>3. at'[q] = "kp_purge" => \A i \in Theirs(q)', j \in found'[q] : i.id # j.id
    BY <2>0, <1>2, <1>4 DEF LookedFirst
  <2> QED BY <2>0, <2>1, <2>2, <2>3 DEF LookedFirst, Svc, Right
<1> QED BY <1>3, <1>4, <1>5

(* What a command of p takes care of ...                                   *)
Heeds(p) ==
  /\ \A i \in items : ~i.mine /\ i \notin items' => blind[p] \/ i \notin before[p]
  /\ shown' = shown \/ \E out : shown' = [shown EXCEPT ![p] = out] /\ \A i \in out : i.mine \/ blind'[p]
  /\ at'[p] \in Fraught => LookedFirst(p)'

(* ... and what follows for all.                                           *)
LEMMA WorkIsTraced ==
    ASSUME WalletSound, NEW p \in Shells, ItemsWork(p)
    PROVE  Traced
<1>t. items \in SUBSET Item /\ IdsAreOwn /\ (Wants(p, "store") => Svc(p) \in Services /\ call[p].secret \in Secrets)
  BY AtWork DEF Wants
<1>1. CASE items' = items
  <2>1. ItemsStay
    BY <1>t, <1>1, UntouchedItemsStay
  <2> QED BY <2>1 DEF ItemsStay, Traced
<1>2. CASE MadeOne(p)
  <2>1. IsNew(NewItem(Svc(p), call[p].secret)) /\ items' = items \cup {NewItem(Svc(p), call[p].secret)}
    BY <1>t, <1>2, NewItemIsNew DEF MadeOne, Created
  <2> QED BY <2>1 DEF IsNew, Traced, Was
<1>3. CASE ChangedItsOwn(p)
  BY <1>3 DEF ChangedItsOwn, ItemsStay, Traced
<1> QED BY <1>1, <1>2, <1>3 DEF ItemsWork

LEMMA WorkStaysCareful ==
    ASSUME WalletSound, Careful, NEW p \in Shells, Worked(p), Heeds(p)
    PROVE  Careful'
<1>t. /\ at \in [Shells -> Steps] /\ call \in [Shells -> CallTypes] /\ found \in [Shells -> SUBSET Item]
      /\ before \in [Shells -> SUBSET Item] /\ shown \in [Shells -> SUBSET Item]
  BY DEF WalletSound, WalletTypes, ItemTypes, JobTypes
<1>1. Traced /\ UNCHANGED kind /\ items' \in SUBSET Item
  BY WorkIsTraced, WorkKeepsItems DEF Worked, Noted, Same
<1>2. \E next : at' = [at EXCEPT ![p] = next]
  BY DEF Worked, WentOn, Goes, Returned, ReturnWith, Says, Owed
<1>3. UNCHANGED <<call, before>> \/ (call' = [call EXCEPT ![p] = NoCall] /\ before' = [before EXCEPT ![p] = {}])
  BY DEF Worked, WentOn, Goes, Returned, ReturnWith, Says, Owed
<1>4. \E w : found' \in {found, [found EXCEPT ![p] = w]}
  BY DEF Worked, Noted
<1>5. ASSUME NEW q \in Shells, q # p PROVE Since(q)' /\ LookedFirst(q)'
  <2>1. at'[q] = at[q] /\ call'[q] = call[q] /\ before'[q] = before[q] /\ found'[q] = found[q]
    BY <1>t, <1>2, <1>3, <1>4, <1>5
  <2>2. blind'[q] = blind[q] /\ dbpass'[q] = dbpass[q]
    BY <1>5 DEF Worked, Noted, OthersKeep
  <2> QED BY <1>1, <2>1, <2>2, IdleStillLooked
<1>6. Since(p)'
  <2>1. CASE before'[p] = before[p]
    BY <1>1, <2>1, TracedSince DEF Careful
  <2>2. CASE before'[p] = {}
    BY <2>2 DEF Since
  <2> QED BY <1>t, <1>3, <2>1, <2>2
<1>7. LookedFirst(p)'
  <2>1. CASE at'[p] \in Fraught
    BY <2>1 DEF Heeds
  <2>2. CASE at'[p] \notin Fraught
    BY <2>2 DEF LookedFirst, Fraught
  <2> QED BY <2>1, <2>2
<1>8. ShownIsOurs'
  <2>1. \A q \in Shells \ {p} : blind'[q] = blind[q]
    BY DEF Worked, Noted, OthersKeep
  <2>2. blind[p] => blind'[p]
    BY DEF Worked, Noted
  <2>3. \A q \in Shells \ {p} : shown'[q] = shown[q]
    BY <1>t DEF Heeds
  <2>4. \A i \in shown'[p] : i.mine \/ blind'[p]
    BY <1>t, <2>2 DEF ShownIsOurs, Careful, Heeds
  <2> QED BY <2>1, <2>3, <2>4 DEF ShownIsOurs, Careful
<1> QED BY <1>5, <1>6, <1>7, <1>8 DEF Careful

(* A command that ends, or goes on to one that deletes nothing.            *)
LEMMA PlainHeeds ==
    ASSUME WalletSound, NEW p \in Shells, OthersStay,
           \/ \E ans, out : ReturnWith(p, ans, out) /\ \A i \in out : i.mine \/ blind'[p]
           \/ \E next : Goes(p, next) /\ next \notin Fraught
    PROVE  Heeds(p)
<1>t. at \in [Shells -> Steps]
  BY DEF WalletSound, WalletTypes, JobTypes
<1>1. CASE \E ans, out : ReturnWith(p, ans, out) /\ \A i \in out : i.mine \/ blind'[p]
  <2>1. at'[p] \in {"idle", "bw_lock"}
    BY <1>t, <1>1 DEF ReturnWith, Says, Owed
  <2>2. \E out : shown' = [shown EXCEPT ![p] = out] /\ \A i \in out : i.mine \/ blind'[p]
    BY <1>1 DEF ReturnWith, Says, Owed
  <2> QED BY <2>1, <2>2 DEF Heeds, OthersStay, Fraught
<1>2. CASE \E next : Goes(p, next) /\ next \notin Fraught
  <2>1. at'[p] \notin Fraught /\ shown' = shown
    BY <1>t, <1>2 DEF Goes
  <2> QED BY <2>1 DEF Heeds, OthersStay
<1> QED BY <1>1, <1>2

(* Where a name has one item, that is the item of that name.               *)
LEMMA OneIsTheOne ==
    ASSUME WalletSound, NEW s, Cardinality(Named(s)) = 1
    PROVE  \A i, j \in Named(s) : i = j
<1> DEFINE S == Named(s)
           f == [i \in S |-> i.id]
<1>1. S \in SUBSET Item /\ \A i, j \in S : i.id = j.id => i = j
  BY AtWork DEF WalletSound, WalletTypes, ItemTypes, IdsAreOwn, Named
<1>2. f \in Injection(S, Ids)
  <2>1. f \in [S -> Ids]
    BY <1>1 DEF Item
  <2>2. \A i, j \in S : f[i] = f[j] => i = j
    BY <1>1
  <2> QED BY <2>1, <2>2 DEF Injection, IsInjective
<1>3. IsFiniteSet(Ids)
  BY StoresBounds, FS_Interval, 1 \in Int, MaxItems \in Int DEF Ids
<1>4. IsFiniteSet(S)
  <2> HIDE DEF f, S
  <2> QED BY <1>2, <1>3, FS_Injection
<1>5. \E x : S = {x}
  BY <1>4, FS_Singleton
<1> QED BY <1>5

LEMMA OnePasswordHeeds ==
    ASSUME WalletSound, Careful, NEW p \in Shells, OnePassword(p)
    PROVE  Heeds(p)
<1>t. /\ items \in SUBSET Item /\ OpFits(at[p], call[p].op) /\ call[p].op \in Ops
      /\ at \in [Shells -> Steps]
  BY AtWork DEF WalletSound, WalletTypes, JobTypes
<1>1. CASE OpGet(p)
  <2>1. items' = items /\ at[p] = "op_get"
    BY <1>1 DEF OpGet
  <2>2. OthersStay
    BY <2>1 DEF OthersStay
  <2> DEFINE same == Named(Svc(p))
  <2>3. call[p].op \in {"lookup", "store", "delete"}
    BY <1>t, <2>1 DEF OpFits, Ops
  <2>4. \/ \E ans : Return(p, ans)
        \/ Goes(p, "op_create")
        \/ Cardinality(same) = 1 /\ Marked(same) /\ (ReturnWith(p, "ok", same) \/ Goes(p, "op_delete"))
    <3> HIDE DEF same
    <3>1. CASE Wants(p, "lookup")
      BY <1>1, <3>1 DEF OpGet, Wants, same
    <3>2. CASE Wants(p, "delete")
      BY <1>1, <3>2 DEF OpGet, Wants, same
    <3>3. CASE Wants(p, "store")
      BY <1>1, <3>3 DEF OpGet, Wants, same
    <3> QED BY <2>3, <3>1, <3>2, <3>3 DEF Wants
  <2>5. CASE \E ans : Return(p, ans)
    BY <2>2, <2>5, PlainHeeds DEF Return
  <2>6. CASE Goes(p, "op_create")
    <3>1. "op_create" \notin Fraught
      BY DEF Fraught
    <3> QED BY <2>2, <2>6, <3>1, PlainHeeds
  <2>7. CASE Cardinality(same) = 1 /\ Marked(same) /\ (ReturnWith(p, "ok", same) \/ Goes(p, "op_delete"))
    <3>1. \A i \in same : i.mine
      <4>1. PICK i \in same : i.mine
        BY <2>7 DEF Marked
      <4> QED BY <2>7, <4>1, OneIsTheOne
    <3>2. CASE ReturnWith(p, "ok", same)
      BY <2>2, <3>1, <3>2, PlainHeeds
    <3>3. CASE Goes(p, "op_delete")
      <4>1. at'[p] = "op_delete" /\ UNCHANGED <<call, before, shown>>
        BY <1>t, <3>3 DEF Goes
      <4>2. \A i \in Theirs(p)' : i.svc # call'[p].svc
        BY <2>1, <3>1, <4>1 DEF Theirs, Named, Svc
      <4>3. LookedFirst(p)'
        BY <4>1, <4>2 DEF LookedFirst, Svc
      <4> QED BY <2>2, <4>1, <4>3 DEF Heeds, OthersStay
    <3> QED BY <2>7, <3>2, <3>3
  <2> QED BY <2>4, <2>5, <2>6, <2>7
<1>2. CASE OpDelete(p)
  <2>1. /\ at[p] = "op_delete" /\ items' \in {items, items \ Named(Svc(p))}
        /\ (\E ans : Return(p, ans)) \/ Goes(p, "op_create")
    BY <1>2 DEF OpDelete, Changes
  <2>2. ASSUME NEW i \in items, ~i.mine, i \notin items' PROVE blind[p] \/ i \notin before[p]
    <3>1. i.svc = Svc(p)
      BY <2>1, <2>2 DEF Named
    <3>2. LookedFirst(p)
      BY DEF Careful
    <3> QED BY <2>1, <2>2, <3>1, <3>2 DEF LookedFirst, Theirs
  <2>3. at'[p] \in {"idle", "bw_lock", "op_create"}
    BY <1>t, <2>1 DEF Return, ReturnWith, Says, Owed, Goes
  <2>4. shown' = shown \/ shown' = [shown EXCEPT ![p] = {}]
    BY <2>1 DEF Return, ReturnWith, Says, Owed, Goes
  <2> QED BY <2>2, <2>3, <2>4 DEF Heeds, Fraught
<1>3. CASE OpCreate(p)
  <2>1. items' \in {items, Created(p)} /\ \E ans : Return(p, ans)
    BY <1>3 DEF OpCreate, Changes
  <2>2. OthersStay
    BY <2>1 DEF OthersStay, Created
  <2> QED BY <2>1, <2>2, PlainHeeds DEF Return
<1>4. CASE OpList(p)
  <2>1. /\ items' = items
        /\ \E ans, out : ReturnWith(p, ans, out) /\ \A i \in out : i.mine
    BY <1>4 DEF OpList, Lists, Return
  <2> QED BY <2>1, PlainHeeds DEF OthersStay
<1> QED BY <1>1, <1>2, <1>3, <1>4 DEF OnePassword

LEMMA BitwardenHeeds ==
    ASSUME WalletSound, NEW p \in Shells, BwWork(p)
    PROVE  Heeds(p)
<1>b. blind \in [Shells -> BOOLEAN]
  BY DEF WalletSound, WalletTypes, FlagTypes
<1>t. /\ items \in SUBSET Item /\ OpFits(at[p], call[p].op) /\ KindFits(at[p]) /\ VaultsAreOurs
      /\ ~Wants(p, "list") => Svc(p) \in Services
  BY AtWork
<1>1. CASE BwUnlock(p)
  <2>1. /\ items' = items
        /\ (\E ans : Return(p, ans)) \/ \E next \in {"bw_get", "bw_find", "bw_list"} : Goes(p, next)
    BY <1>1 DEF BwUnlock, BwFirst
  <2> QED BY <2>1, PlainHeeds DEF OthersStay, Return, Fraught
<1>2. CASE BwGet(p)
  <2>1. /\ items' = items /\ at[p] = "bw_get"
        /\ \/ \E ans : Return(p, ans)
           \/ TakenForOwn(p, Answering(Svc(p))) /\ ReturnWith(p, "ok", Answering(Svc(p)))
    BY <1>2 DEF BwGet
  <2>2. kind = "bitwarden" /\ Svc(p) \in Services
    BY <1>t, <2>1 DEF KindFits, BwSteps, OpFits, Wants
  <2>4. \A i \in Named(Svc(p)) : i.mine
    BY <1>t, <2>2 DEF Named, VaultsAreOurs, ItsPlace
  <2>5. TakenForOwn(p, Answering(Svc(p))) => blind'[p] \/ Answering(Svc(p)) \subseteq Named(Svc(p))
    BY <1>b, Zenon DEF TakenForOwn
  <2>3. TakenForOwn(p, Answering(Svc(p))) => \A i \in Answering(Svc(p)) : i.mine \/ blind'[p]
    BY <2>4, <2>5
  <2> QED BY <2>1, <2>3, PlainHeeds DEF OthersStay, Return
<1>3. CASE BwFind(p)
  <2>1. /\ items' = items
        /\ \/ \E ans : Return(p, ans)
           \/ \E next \in {"bw_create", "bw_edit", "bw_delete"} : Goes(p, next)
    BY <1>3 DEF BwFind
  <2> QED BY <2>1, PlainHeeds DEF OthersStay, Return, Fraught
<1>4. CASE BwEdit(p) \/ BwDelete(p)
  <2>1. /\ at[p] \in {"bw_edit", "bw_delete"} /\ OfItsName(p) /\ \E ans : Return(p, ans)
        /\ items' \in {items, Overwritten(p, Still(p)), items \ Still(p)}
    BY <1>4 DEF BwEdit, BwDelete, Changes
  <2>2. OthersStay
    BY <2>1, StillIsItsOwn DEF OthersStay, Overwritten
  <2> QED BY <2>1, <2>2, PlainHeeds DEF Return
<1>5. CASE BwCreate(p)
  <2>1. items' \in {items, Created(p)} /\ \E ans : Return(p, ans)
    BY <1>5 DEF BwCreate, Changes
  <2> QED BY <2>1, PlainHeeds DEF Return, OthersStay, Created
<1>6. CASE BwList(p)
  <2>1. /\ items' = items /\ at[p] = "bw_list"
        /\ \E ans : Return(p, ans) \/ ReturnWith(p, ans, OwnServices(items))
    BY <1>6 DEF BwList, Lists
  <2>2. kind = "bitwarden"
    BY <1>t, <2>1 DEF KindFits, BwSteps
  <2>3. \A i \in OwnServices(items) : i.mine
    BY <1>t, <2>2 DEF OwnServices, VaultsAreOurs, ItsPlace
  <2> QED BY <2>1, <2>3, PlainHeeds DEF OthersStay, Return
<1> QED BY <1>1, <1>2, <1>3, <1>4, <1>5, <1>6 DEF BwWork

LEMMA LookupHeeds ==
    ASSUME WalletSound, NEW p \in Shells, NEW how, at[p] = "lookup", kind # "1password", LooksUp(p, how)
    PROVE  Heeds(p)
<1>t. /\ OpFits(at[p], call[p].op) /\ VaultsAreOurs /\ (~Wants(p, "list") => Svc(p) \in Services)
  BY AtWork
<1>1. Svc(p) \in Services
  BY <1>t DEF OpFits, Wants
<1>2. \A i \in InVault(Svc(p)) : i.mine
  BY <1>t, <1>1 DEF InVault, Named, VaultsAreOurs, ItsPlace
<1>3. items' = items /\ ((\E ans : Return(p, ans)) \/ ReturnWith(p, "ok", InVault(Svc(p))))
  BY DEF LooksUp
<1> QED BY <1>2, <1>3, PlainHeeds DEF OthersStay, Return

(* A store or a deletion in one of those stores.                           *)
LEMMA OwnVaultHeeds ==
    ASSUME WalletSound, NEW p \in Shells, Wants(p, "store") \/ Wants(p, "delete"), kind # "1password",
           items' \in {items, Created(p), Overwritten(p, InVault(Svc(p))), items \ InVault(Svc(p))},
           (\E ans : Return(p, ans)) \/ \E next : Goes(p, next) /\ next \notin Fraught
    PROVE  Heeds(p)
<1>1. OthersStay
  BY VaultIsItsOwn DEF OthersStay, Created, Overwritten
<1> QED BY <1>1, PlainHeeds DEF Return

LEMMA OneCallHeeds ==
    ASSUME WalletSound, NEW p \in Shells, SecretTool(p) \/ CredentialManager(p)
    PROVE  Heeds(p)
<1>t. OpFits(at[p], call[p].op) /\ VaultsAreOurs
  BY AtWork
<1>1. CASE SecretToolLookup(p) \/ CredLookup(p)
  BY <1>1, LookupHeeds DEF SecretToolLookup, CredLookup
<1>2. CASE SecretToolStore(p) \/ CredStore(p)
  <2>1. /\ at[p] = "store" /\ kind # "1password" /\ items' \in {items, Saved(p)} /\ \E ans : Return(p, ans)
    BY <1>2 DEF SecretToolStore, CredStore, Changes, Writes, Bounded
  <2>2. Wants(p, "store")
    BY <1>t, <2>1 DEF OpFits, Storing, Wants
  <2> QED BY <2>1, <2>2, OwnVaultHeeds DEF Saved
<1>3. CASE SecretToolDelete(p) \/ CredDelete(p)
  <2>1. /\ at[p] = "delete" /\ kind # "1password" /\ items' \in {items, items \ InVault(Svc(p))}
        /\ \E ans : Return(p, ans)
    BY <1>3 DEF SecretToolDelete, CredDelete, Changes, Erases, Bounded
  <2>2. Wants(p, "delete")
    BY <1>t, <2>1 DEF OpFits, Deleting, Wants
  <2> QED BY <2>1, <2>2, OwnVaultHeeds
<1>4. CASE SecretToolList(p)
  BY <1>4, PlainHeeds DEF SecretToolList, OthersStay, Return
<1>5. CASE CredList(p)
  <2>1. \A i \in {j \in items : j.svc \in Services} : i.mine
    BY <1>t, <1>5 DEF CredList, VaultsAreOurs, ItsPlace
  <2>2. /\ items' = items
        /\ \E ans : Return(p, ans) \/ ReturnWith(p, ans, {j \in items : j.svc \in Services})
    BY <1>5 DEF CredList, Lists
  <2> QED BY <2>1, <2>2, PlainHeeds DEF OthersStay, Return
<1> QED BY <1>1, <1>2, <1>3, <1>4, <1>5 DEF SecretTool, CredentialManager

LEMMA KeychainHeeds ==
    ASSUME WalletSound, NEW p \in Shells, Keychain(p)
    PROVE  Heeds(p)
<1>t. OpFits(at[p], call[p].op) /\ KindFits(at[p]) /\ VaultsAreOurs
  BY AtWork
<1>1. CASE KeychainLookup(p)
  BY <1>1, LookupHeeds DEF KeychainLookup
<1>2. CASE KeychainFind(p)
  <2>1. /\ items' = items
        /\ (\E ans : Return(p, ans)) \/ \E next \in {"kc_add", "kc_update"} : Goes(p, next)
    BY <1>2 DEF KeychainFind
  <2> QED BY <2>1, PlainHeeds DEF OthersStay, Return, Fraught
<1>3. CASE KeychainAdd(p) \/ KeychainUpdate(p)
  <2>1. /\ at[p] \in {"kc_add", "kc_update"} /\ \E ans : Return(p, ans)
        /\ items' \in {items, Created(p), Overwritten(p, InVault(Svc(p)))}
    BY <1>3 DEF KeychainAdd, KeychainUpdate, Bounded
  <2>2. Wants(p, "store") /\ kind # "1password"
    BY <1>t, <2>1 DEF OpFits, KindFits, Storing, Wants
  <2> QED BY <2>1, <2>2, OwnVaultHeeds
<1>4. CASE KeychainDelete(p)
  <2>1. /\ at[p] = "delete" /\ kind # "1password" /\ items' \in {items, items \ InVault(Svc(p))}
        /\ \E ans : Return(p, ans)
    BY <1>4 DEF KeychainDelete, Erases, Bounded
  <2>2. Wants(p, "delete")
    BY <1>t, <2>1 DEF OpFits, Deleting, Wants
  <2> QED BY <2>1, <2>2, OwnVaultHeeds
<1>5. CASE KeychainList(p)
  <2>1. \A i \in OwnServices(items) : i.mine
    BY <1>t, <1>5 DEF KeychainList, OwnServices, VaultsAreOurs, ItsPlace
  <2>2. items' = items /\ \E ans : Return(p, ans) \/ ReturnWith(p, ans, OwnServices(items))
    BY <1>5 DEF KeychainList, Lists
  <2> QED BY <2>1, <2>2, PlainHeeds DEF OthersStay, Return
<1> QED BY <1>1, <1>2, <1>3, <1>4, <1>5 DEF Keychain

LEMMA KpSearchHeeds ==
    ASSUME WalletSound, Careful, NEW p \in Shells, KpSearch(p)
    PROVE  Heeds(p)
<1>t. at \in [Shells -> Steps] /\ found \in [Shells -> SUBSET Item] /\ blind \in [Shells -> BOOLEAN]
  BY DEF WalletSound, WalletTypes, JobTypes, ItemTypes, FlagTypes
<1>1. items' = items /\ UNCHANGED dbpass
  BY DEF KpSearch, own
<1>2. OthersStay
  BY <1>1 DEF OthersStay
<1>3. CASE Return(p, "error")
  BY <1>2, <1>3, PlainHeeds DEF Return
<1>4. CASE Goes(p, "kp_rm") /\ \/ Looks(p, IF Right(p) THEN Named(Svc(p)) ELSE {})
                               \/ Looks(p, {}) /\ TakenForMiss(p, Named(Svc(p)) # {})
  <2>1. at'[p] = "kp_rm" /\ UNCHANGED <<call, before, shown>>
    BY <1>t, <1>4 DEF Goes
  <2>2. LookedFirst(p)'
    <3>1. CASE Looks(p, IF Right(p) THEN Named(Svc(p)) ELSE {})
      <4>1. found'[p] = IF Right(p) THEN Named(Svc(p)) ELSE {}
        BY <1>t, <3>1 DEF Looks
      <4>2. Right(p) => \A i \in Theirs(p)' : i.svc = call[p].svc => i \in found'[p]
        BY <1>1, <4>1 DEF Theirs, Named, Svc
      <4> QED BY <1>1, <2>1, <4>2 DEF LookedFirst, Right, Svc
    <3>2. CASE Looks(p, {}) /\ TakenForMiss(p, Named(Svc(p)) # {})
      <4>1. CASE Named(Svc(p)) # {}
        <5>1. blind'[p]
          BY <1>t, <3>2, <4>1, BlindnessGrows
        <5> QED BY <5>1 DEF LookedFirst
      <4>2. CASE Named(Svc(p)) = {}
        <5>1. \A i \in Theirs(p)' : i.svc # call[p].svc
          BY <1>1, <4>2 DEF Theirs, Named, Svc
        <5> QED BY <2>1, <5>1 DEF LookedFirst, Svc
      <4> QED BY <4>1, <4>2
    <3> QED BY <1>4, <3>1, <3>2
  <2> QED BY <1>2, <2>1, <2>2 DEF Heeds, OthersStay
<1> QED BY <1>3, <1>4 DEF KpSearch

LEMMA KpRmHeeds ==
    ASSUME WalletSound, Careful, NEW p \in Shells, KpRm(p)
    PROVE  Heeds(p)
<1>t. /\ at \in [Shells -> Steps] /\ OpFits(at[p], call[p].op) /\ KindFits(at[p])
      /\ LookedFirst(p) /\ Since(p)
  BY AtWork DEF WalletSound, WalletTypes, JobTypes, Careful
<1>1. at[p] = "kp_rm" /\ items' \in {items, ToBin(InVault(Svc(p)))} /\ UNCHANGED <<own, found>>
  BY DEF KpRm
<1>2. Wants(p, "delete") /\ kind = "keepassxc-cli"
  BY <1>t, <1>1 DEF OpFits, KindFits, Deleting, KpSteps, Wants
<1>3. OthersStay
  BY <1>1, <1>2, VaultIsItsOwn DEF OthersStay, ToBin
<1>4. CASE \E ans : Return(p, ans)
  BY <1>3, <1>4, PlainHeeds DEF Return
<1>5. CASE Right(p) /\ Goes(p, "kp_search_again") /\ NotBlind
  <2>1. at'[p] = "kp_search_again" /\ UNCHANGED <<call, before, shown, blind, dbpass>>
    BY <1>t, <1>1, <1>5 DEF Goes, NotBlind, own
  <2>2. Traced /\ UNCHANGED kind /\ items' \in SUBSET Item
    BY KpRmWorks, WorkIsTraced, WorkKeepsItems DEF Worked, Noted, Same
  <2>3. Theirs(p)' \subseteq Theirs(p)
    BY <1>t, <1>2, <2>1, <2>2, TracedSince
  <2>4. blind[p] \/ \A i \in Theirs(p)' : i.svc = call'[p].svc => i \in found'[p]
    BY <1>t, <1>1, <1>5, <2>1, <2>3 DEF LookedFirst, Svc
  <2>5. LookedFirst(p)'
    BY <2>1, <2>4 DEF LookedFirst, Svc
  <2> QED BY <1>3, <2>1, <2>5 DEF Heeds, OthersStay
<1> QED BY <1>4, <1>5 DEF KpRm

LEMMA KpSearchAgainHeeds ==
    ASSUME WalletSound, Careful, NEW p \in Shells, KpSearchAgain(p)
    PROVE  Heeds(p)
<1>t. /\ at \in [Shells -> Steps] /\ found \in [Shells -> SUBSET Item] /\ LookedFirst(p) /\ IdsAreOwn
  BY DEF WalletSound, WalletTypes, JobTypes, ItemTypes, Careful
<1>1. at[p] = "kp_search_again" /\ items' = items
  BY DEF KpSearchAgain
<1>2. OthersStay
  BY <1>1 DEF OthersStay
<1>3. CASE \E ans : Return(p, ans)
  BY <1>2, <1>3, PlainHeeds DEF Return
<1>4. CASE NotBlind /\ Looks(p, {i \in Named(Svc(p)) : i.place \in Moved(p)}) /\ Goes(p, "kp_purge")
  <2>1. at'[p] = "kp_purge" /\ UNCHANGED <<call, before, shown, blind>>
    BY <1>t, <1>4 DEF Goes, NotBlind
  <2>2. found'[p] = {i \in Named(Svc(p)) : i.place \in Moved(p)}
    BY <1>t, <1>4 DEF Looks
  <2>3. ASSUME NEW i \in Theirs(p)', NEW j \in found'[p], i.id = j.id PROVE blind[p]
    <3>1. i \in Theirs(p) /\ j \in items /\ j.svc = Svc(p) /\ j.place \in Moved(p)
      BY <1>1, <2>1, <2>2, <2>3 DEF Theirs, Named
    <3>2. i = j
      BY <1>t, <2>3, <3>1 DEF IdsAreOwn, Theirs
    <3>3. i \notin found[p]
      BY <3>1, <3>2 DEF Moved, Places
    <3> QED BY <1>t, <1>1, <3>1, <3>2, <3>3 DEF LookedFirst
  <2>4. LookedFirst(p)'
    BY <2>1, <2>3 DEF LookedFirst
  <2> QED BY <1>2, <2>1, <2>4 DEF Heeds, OthersStay
<1> QED BY <1>3, <1>4 DEF KpSearchAgain

LEMMA EndHeeds ==
    ASSUME NEW p, at'[p] \notin Fraught, shown' = [shown EXCEPT ![p] = {}],
           \A k \in items : ~k.mine /\ k \notin items' => blind[p] \/ k \notin before[p]
    PROVE  Heeds(p)
<1>1. shown' = [shown EXCEPT ![p] = {}] /\ \A i \in {} : i.mine \/ blind'[p]
  OBVIOUS
<1>2. \E out : shown' = [shown EXCEPT ![p] = out] /\ \A i \in out : i.mine \/ blind'[p]
  <2> WITNESS {}
  <2> QED BY <1>1
<1>3. at'[p] \in Fraught => LookedFirst(p)'
  OBVIOUS
<1> QED BY <1>2, <1>3 DEF Heeds

LEMMA KpPurgeHeeds ==
    ASSUME WalletSound, Careful, NEW p \in Shells, KpPurge(p)
    PROVE  Heeds(p)
<1>t. /\ at \in [Shells -> Steps] /\ found \in [Shells -> SUBSET Item] /\ blind \in [Shells -> BOOLEAN]
      /\ LookedFirst(p) /\ Since(p)
  BY DEF WalletSound, WalletTypes, JobTypes, ItemTypes, FlagTypes, Careful
<1>0. at[p] = "kp_purge"
  BY DEF KpPurge
<1>k. kind # "bitwarden"
  BY <1>0, AtWork DEF KindFits, KpSteps
<1>w. Traced /\ UNCHANGED kind /\ items' \in SUBSET Item
  BY KpPurgeWorks, WorkIsTraced, WorkKeepsItems DEF Worked, Noted, Same
<1>1. CASE items' = items /\ Return(p, "ok")
  BY <1>1, PlainHeeds DEF Return, OthersStay
<1>2. ASSUME NEW i \in found[p], found' = [found EXCEPT ![p] = @ \ {i}],
             items' \in {items, items \ {j \in items : j.id = i.id}, ToBin({j \in items : j.id = i.id})},
             (Goes(p, "kp_purge") /\ (NotBlind \/ TakenForMiss(p, TRUE))) \/ Return(p, "error")
      PROVE  Heeds(p)
  <2>1. \A k \in items : ~k.mine /\ k \notin items' => blind[p] \/ k \notin before[p]
    <3>1. \A k \in items : k \notin items' => k.id = i.id
      BY <1>2 DEF ToBin
    <3> QED BY <1>t, <1>0, <3>1 DEF LookedFirst, Theirs
  <2>2. CASE Return(p, "error")
    <3>1. at'[p] \notin Fraught /\ shown' = [shown EXCEPT ![p] = {}]
      BY <1>t, <2>2 DEF Return, ReturnWith, Says, Owed, Fraught
    <3> QED BY <2>1, <3>1, EndHeeds
  <2>3. CASE Goes(p, "kp_purge") /\ (NotBlind \/ TakenForMiss(p, TRUE))
    <3>1. at'[p] = "kp_purge" /\ UNCHANGED <<call, before, shown>>
      BY <1>t, <2>3 DEF Goes
    <3>2. Theirs(p)' \subseteq Theirs(p)
      BY <1>t, <1>k, <1>w, <3>1, TracedSince
    <3>3. found'[p] \subseteq found[p]
      BY <1>t, <1>2
    <3>4. blind[p] => blind'[p]
      BY <1>t, <2>3, BlindnessGrows DEF NotBlind
    <3>5. blind'[p] \/ \A k \in Theirs(p)', j \in found'[p] : k.id # j.id
      <4>1. blind[p] \/ \A k \in Theirs(p), j \in found[p] : k.id # j.id
        BY <1>t, <1>0 DEF LookedFirst
      <4> QED BY <3>2, <3>3, <3>4, <4>1
    <3>6. LookedFirst(p)'
      BY <3>1, <3>5 DEF LookedFirst
    <3> QED BY <2>1, <3>1, <3>6 DEF Heeds
  <2> QED BY <1>2, <2>2, <2>3
<1>3. \/ items' = items /\ Return(p, "ok")
      \/ \E i \in found[p] :
           /\ found' = [found EXCEPT ![p] = @ \ {i}]
           /\ items' \in {items, items \ {j \in items : j.id = i.id}, ToBin({j \in items : j.id = i.id})}
           /\ (Goes(p, "kp_purge") /\ (NotBlind \/ TakenForMiss(p, TRUE))) \/ Return(p, "error")
  BY DEF KpPurge
<1> QED BY <1>1, <1>2, <1>3

LEMMA KeePassXCCLIHeeds ==
    ASSUME WalletSound, Careful, NEW p \in Shells, KeePassXCCLI(p)
    PROVE  Heeds(p)
<1>t. /\ OpFits(at[p], call[p].op) /\ KindFits(at[p]) /\ VaultsAreOurs
  BY AtWork
<1>1. CASE KpUnlock(p)
  <2>1. /\ items' = items
        /\ (\E ans : Return(p, ans)) \/ \E next \in {"kp_search", "kp_ls", "kp_show"} : Goes(p, next)
    BY <1>1 DEF KpUnlock, KpFirst
  <2> QED BY <2>1, PlainHeeds DEF OthersStay, Return, Fraught
<1>2. CASE KpShow(p)
  <2>1. /\ items' = items /\ at[p] = "kp_show"
        /\ \/ \E ans : Return(p, ans)
           \/ ReturnWith(p, "ok", InVault(Svc(p)))
           \/ \E next \in {"kp_add", "kp_edit"} : Goes(p, next)
    BY <1>2 DEF KpShow
  <2>2. kind = "keepassxc-cli"
    BY <1>t, <2>1 DEF KindFits, KpSteps
  <2>3. \A i \in InVault(Svc(p)) : i.mine
    BY <1>t, <2>2 DEF InVault, Named, VaultsAreOurs, ItsPlace
  <2> QED BY <2>1, <2>3, PlainHeeds DEF OthersStay, Return, Fraught
<1>3. CASE KpAdd(p) \/ KpEdit(p)
  <2>1. /\ at[p] \in {"kp_add", "kp_edit"} /\ \E ans : Return(p, ans)
        /\ items' \in {items, Created(p), Overwritten(p, InVault(Svc(p)))}
    BY <1>3 DEF KpAdd, KpEdit, Changes
  <2>2. Wants(p, "store") /\ kind # "1password"
    BY <1>t, <2>1 DEF OpFits, KindFits, KpSteps, Storing, Wants
  <2> QED BY <2>1, <2>2, OwnVaultHeeds
<1>4. CASE KpList(p)
  <2>1. at[p] = "kp_ls" /\ items' = items
    BY <1>4 DEF KpList, Lists
  <2>2. kind = "keepassxc-cli"
    BY <1>t, <2>1 DEF KindFits, KpSteps
  <2>3. \A i \in {j \in items : j.place = "vault"} : i.mine
    BY <1>t, <2>2 DEF VaultsAreOurs, ItsPlace
  <2>4. \E ans : Return(p, ans) \/ ReturnWith(p, ans, {j \in items : j.place = "vault"})
    BY <1>4 DEF KpList, Lists, Return
  <2> QED BY <2>1, <2>3, <2>4, PlainHeeds DEF OthersStay, Return
<1>5. CASE KpSearch(p) \/ KpRm(p) \/ KpSearchAgain(p) \/ KpPurge(p)
  BY <1>5, KpSearchHeeds, KpRmHeeds, KpSearchAgainHeeds, KpPurgeHeeds
<1> QED BY <1>1, <1>2, <1>3, <1>4, <1>5 DEF KeePassXCCLI

(* Steps that leave the store and what was seen of it alone.               *)
LEMMA SettledStillLooked ==
    ASSUME WalletSound, Careful, UNCHANGED <<kind, items>>, NEW p \in Shells,
           at'[p] \notin Fraught, before'[p] \in {before[p], {}, items},
           \A q \in Shells \ {p} :
             /\ before'[q] = before[q] /\ at'[q] = at[q] /\ call'[q] = call[q] /\ found'[q] = found[q]
             /\ blind'[q] = blind[q] /\ dbpass'[q] = dbpass[q]
    PROVE  \A q \in Shells : Since(q)' /\ LookedFirst(q)'
<1>t. items \in SUBSET Item /\ IdsAreOwn
  BY AtWork
<1>1. ItemsStay
  BY <1>t, UntouchedItemsStay
<1>2. Traced /\ items' \in SUBSET Item
  BY <1>1 DEF ItemsStay, Traced
<1>3. \A q \in Shells \ {p} : Since(q)' /\ LookedFirst(q)'
  BY <1>2, IdleStillLooked
<1>4. Since(p)'
  <2>1. CASE before'[p] = before[p]
    BY <1>2, <2>1, TracedSince DEF Careful
  <2>2. CASE before'[p] = {}
    BY <2>2 DEF Since
  <2>3. CASE before'[p] = items
    BY <1>t, <2>3 DEF Since, Was, IdsAreOwn
  <2> QED BY <2>1, <2>2, <2>3
<1>5. LookedFirst(p)'
  BY DEF LookedFirst, Fraught
<1> QED BY <1>3, <1>4, <1>5

LEMMA OutsideStaysCareful ==
    ASSUME WalletSound, Careful, UNCHANGED <<kind, job, own, before, blind>>, Traced, items' \in SUBSET Item
    PROVE  Careful'
<1>1. UNCHANGED <<call, at, found, shown, dbpass>>
  BY DEF job, own
<1>2. \A q \in Shells : Since(q)' /\ LookedFirst(q)'
  BY <1>1, IdleStillLooked
<1>3. ShownIsOurs'
  BY <1>1 DEF Careful, ShownIsOurs
<1> QED BY <1>2, <1>3 DEF Careful

(* Who works on the store, by what it asks of it.                          *)
AtTheStore(p) ==
  \/ OnePassword(p) \/ BwWork(p) \/ SecretTool(p) \/ CredentialManager(p) \/ Keychain(p) \/ KeePassXCCLI(p)

LEMMA CommandsAreCareful ==
    ASSUME WalletSound, Careful, NEW p \in Shells, AtTheStore(p)
    PROVE  Careful' /\ Heeds(p) /\ Busy(p)
<1>1. Heeds(p)
  BY OnePasswordHeeds, BitwardenHeeds, OneCallHeeds, KeychainHeeds, KeePassXCCLIHeeds DEF AtTheStore
<1>2. Worked(p) /\ at[p] \notin {"idle", "bw_lock"}
  BY OnePasswordWorks, BitwardenWorks, SecretToolWorks, CredentialManagerWorks, KeychainWorks,
     KeePassXCCLIWorks DEF AtTheStore
<1> QED BY <1>1, <1>2, WorkStaysCareful DEF Busy

LEMMA LandsIsTraced ==
    ASSUME WalletSound, NEW e \in late, Lands(e)
    PROVE  OthersStay /\ Traced /\ items' \in SUBSET Item
<1>t. /\ items \in SUBSET Item /\ IdsAreOwn /\ VaultsAreOurs /\ e \in Effects /\ kind # "1password"
      /\ e.does # "delete" => e.secret \in Secrets
  BY DEF WalletSound, WalletTypes, ItemTypes, JobTypes, JobsFit, EffectsFit
<1> DEFINE there == InVault(e.svc)
           new == [NewItem(e.svc, e.secret) EXCEPT !.secret = e.secret]
           over == (items \ there) \cup {[i EXCEPT !.secret = e.secret] : i \in there}
<1>1. /\ UNCHANGED <<kind, job, own, before, blind>>
      /\ \/ items' = items \ there
         \/ e.does # "delete" /\ Free # {} /\ items' = items \cup {new}
         \/ items' = items
         \/ e.does # "delete" /\ items' = over
  BY <1>t DEF Lands, Effects, Same
<1>2. there \in SUBSET items /\ \A i \in there : i.mine
  <2>1. e.svc \in Services
    BY <1>t DEF Effects
  <2> QED BY <1>t, <2>1 DEF InVault, Named, VaultsAreOurs, ItsPlace
<1>3. OthersStay
  <2> HIDE DEF new, there
  <2> QED BY <1>1, <1>2 DEF OthersStay
<1>4. Traced /\ items' \in SUBSET Item
  <2>1. CASE items' = items \/ items' = items \ there
    <3>1. ItemsStay
      BY <1>t, <2>1, UntouchedItemsStay
    <3> QED BY <3>1 DEF ItemsStay, Traced
  <2>2. CASE e.does # "delete" /\ items' = over
    <3>1. ItemsStay
      BY <1>t, <1>2, <2>2, OverwrittenStay
    <3> QED BY <3>1 DEF ItemsStay, Traced
  <2>3. CASE e.does # "delete" /\ Free # {} /\ items' = items \cup {new}
    <3>1. IsNew(NewItem(e.svc, e.secret))
      BY <1>t, <2>3, NewItemIsNew DEF Effects
    <3>2. new \in Item /\ new.id = NewItem(e.svc, e.secret).id
      BY <1>t, <2>3, <3>1 DEF IsNew, Item
    <3> HIDE DEF new
    <3> QED BY <1>t, <2>3, <3>1, <3>2 DEF IsNew, Traced, Was
  <2> QED BY <1>1, <2>1, <2>2, <2>3
<1> QED BY <1>3, <1>4

LEMMA LandsIsCareful ==
    ASSUME WalletSound, Careful, NEW e \in late, Lands(e)
    PROVE  Careful' /\ OthersStay
<1>1. UNCHANGED <<kind, job, own, before, blind>>
  BY DEF Lands, Same
<1> QED BY <1>1, LandsIsTraced, OutsideStaysCareful

LEMMA UserIsTraced ==
    ASSUME WalletSound,
           \/ \E s \in Services \cup {Foreign}, x \in Secrets : UserAdds(s, x)
           \/ \E i \in items : UserRemoves(i)
    PROVE  Traced /\ items' \in SUBSET Item
<1>t. items \in SUBSET Item /\ IdsAreOwn
  BY DEF WalletSound, WalletTypes, ItemTypes
<1>2. CASE \E s \in Services \cup {Foreign}, x \in Secrets : UserAdds(s, x)
  <2>1. PICK s \in Services \cup {Foreign}, x \in Secrets : UserAdds(s, x)
    BY <1>2
  <2> DEFINE n == [NewItem(s, x) EXCEPT !.mine = s \in Services /\ ~Marks,
                                        !.place = IF kind = "keepassxc-cli" THEN "elsewhere" ELSE "vault"]
  <2>2. Free # {} /\ items' = items \cup {n}
    BY <2>1 DEF UserAdds
  <2>3. IsNew(NewItem(s, x))
    BY <2>2, NewItemIsNew
  <2>4. n \in Item /\ n.id = NewItem(s, x).id
    BY <2>3 DEF IsNew, Item
  <2> HIDE DEF n
  <2>5. Traced /\ items' \in SUBSET Item
    BY <1>t, <2>2, <2>3, <2>4 DEF IsNew, Traced, Was
  <2> QED BY <2>5
<1>3. CASE \E i \in items : UserRemoves(i)
  <2>1. PICK i \in items : UserRemoves(i)
    BY <1>3
  <2>2. items' = items \ {i} \/ (items' = ToBin({i}) /\ kind = "keepassxc-cli")
    BY <2>1 DEF UserRemoves
  <2>3. ItemsStay
    BY <1>t, <2>2, UntouchedItemsStay, BinnedStay
  <2>4. Traced /\ items' \in SUBSET Item
    BY <2>3 DEF ItemsStay, Traced
  <2> QED BY <2>4
<1> QED BY <1>2, <1>3

LEMMA UserIsCareful ==
    ASSUME WalletSound, Careful,
           \/ \E s \in Services \cup {Foreign}, x \in Secrets : UserAdds(s, x)
           \/ \E i \in items : UserRemoves(i)
    PROVE  Careful' /\ walletOutside' # walletOutside
<1>0. UNCHANGED <<kind, job, own, before, blind>> /\ Outside
  BY DEF UserAdds, UserRemoves, history
<1>1. walletOutside' # walletOutside
  BY <1>0, StoresBounds DEF Outside, WalletSound, WalletTypes, CountTypes
<1> QED BY <1>0, <1>1, UserIsTraced, OutsideStaysCareful

LEMMA CallerIsCareful ==
    ASSUME WalletSound, Careful, NEW p \in Shells,
           \/ \E op \in Ops : \E s, x : Calls(p, op, s, x)
           \/ BwLock(p) \/ HoldsOpen(p) \/ LetsGo(p) \/ WalletKilled(p)
    PROVE  Careful' /\ items' = items
<1>t. /\ call \in [Shells -> CallTypes] /\ at \in [Shells -> Steps]
      /\ found \in [Shells -> SUBSET Item] /\ before \in [Shells -> SUBSET Item]
      /\ shown \in [Shells -> SUBSET Item]
      /\ blind \in [Shells -> BOOLEAN] /\ dbpass \in [Shells -> {"unasked", "right", "wrong"}]
  BY DEF WalletSound, WalletTypes, JobTypes, ItemTypes, FlagTypes, PasswordTypes
<1>1. items' = items /\ UNCHANGED kind
  BY DEF Calls, BwLock, HoldsOpen, LetsGo, WalletKilled, Same
<1>2. /\ at' = at \/ \E step : at' = [at EXCEPT ![p] = step]
      /\ call' = call \/ \E c : call' = [call EXCEPT ![p] = c]
      /\ found' = found \/ \E w : found' = [found EXCEPT ![p] = w]
      /\ before' = before \/ before' = [before EXCEPT ![p] = {}] \/ before' = [before EXCEPT ![p] = items]
      /\ shown' = shown \/ shown' = [shown EXCEPT ![p] = {}]
      /\ dbpass' = dbpass \/ \E w : dbpass' = [dbpass EXCEPT ![p] = w]
  BY DEF Calls, BwLock, HoldsOpen, LetsGo, WalletKilled, job, own, history
<1>3. blind' = blind \/ blind' = [blind EXCEPT ![p] = FALSE]
  BY DEF Calls, BwLock, HoldsOpen, LetsGo, WalletKilled, history
<1>4. \A q \in Shells \ {p} : blind'[q] = blind[q]
  BY <1>t, <1>3, Zenon
<1>5. \A q \in Shells \ {p} :
        /\ before'[q] = before[q] /\ at'[q] = at[q] /\ call'[q] = call[q] /\ found'[q] = found[q]
        /\ dbpass'[q] = dbpass[q]
  BY <1>t, <1>2
<1>6. before'[p] \in {before[p], {}, items}
  BY <1>t, <1>2
<1>7. at'[p] \notin Fraught
  <2>1. CASE \E op \in Ops : \E s, x : Calls(p, op, s, x)
    <3>1. PICK op \in Ops : at' = [at EXCEPT ![p] = First(p, op)]
      BY <2>1 DEF Calls
    <3>2. at'[p] = First(p, op) /\ First(p, op) \notin Fraught
      BY <1>t, <3>1 DEF First, OpFirst, BwFirst, KpFirst, Ops, Fraught
    <3> QED BY <3>2
  <2>2. CASE BwLock(p) \/ WalletKilled(p)
    BY <1>t, <2>2 DEF BwLock, WalletKilled, Fraught
  <2>3. CASE HoldsOpen(p) \/ LetsGo(p)
    BY <2>3 DEF HoldsOpen, LetsGo, Busy, job, Fraught
  <2> QED BY <2>1, <2>2, <2>3
<1>8. \A q \in Shells : Since(q)' /\ LookedFirst(q)'
  BY <1>1, <1>4, <1>5, <1>6, <1>7, SettledStillLooked
<1>9. ShownIsOurs'
  <2>1. (shown' = shown /\ blind' = blind) \/ shown' = [shown EXCEPT ![p] = {}]
    BY DEF Calls, BwLock, HoldsOpen, LetsGo, WalletKilled, job, own, history
  <2>2. \A q \in Shells \ {p} : shown'[q] = shown[q]
    BY <1>t, <2>1
  <2>3. \A i \in shown'[p] : i.mine \/ blind'[p]
    BY <1>t, <2>1 DEF Careful, ShownIsOurs
  <2> QED BY <1>4, <2>2, <2>3 DEF Careful, ShownIsOurs
<1> QED BY <1>1, <1>8, <1>9 DEF Careful

LEMMA InitCareful == WalletsInit => Careful
<1> SUFFICES ASSUME WalletsInit PROVE Careful
  OBVIOUS
<1>1. \A p \in Shells : at[p] = "idle" /\ before[p] = {} /\ shown[p] = {}
  BY DEF WalletsInit
<1> QED BY <1>1 DEF Careful, ShownIsOurs, Since, LookedFirst, Theirs

(* What a step of the wallets does to the items of others and to what is   *)
(* handed to a caller: each step, by whose it is.                          *)
Spares ==
  \A i \in items : ~i.mine /\ i \notin items' =>
     walletOutside' # walletOutside
     \/ \E p \in Shells : Busy(p) /\ (blind[p] \/ blind'[p] \/ i \notin before[p])

(* Bitwarden's edit or deletion of an item of another name.                *)
LEMMA TakesAnotherIsCareful ==
    ASSUME WalletSound, Careful, NEW p \in Shells, BwTakesAnother(p)
    PROVE  Careful' /\ Spares
<1>t. shown \in [Shells -> SUBSET Item] /\ blind \in [Shells -> BOOLEAN]
  BY DEF WalletSound, WalletTypes, ItemTypes, FlagTypes
<1>1. kind = "bitwarden" /\ kind' = kind /\ WalletSound'
  BY AtWork, TakesOne, TakesAnotherStands DEF KindFits, BwSteps, Same
<1>2. \A q \in Shells : at'[q] \notin Fraught
  BY <1>1 DEF WalletSound, JobsFit, KindFits, KpSteps, Fraught
<1>3. \A q \in Shells : Since(q)' /\ LookedFirst(q)'
  BY <1>1, <1>2 DEF Since, LookedFirst, Fraught
<1>4. blind'[p] /\ \A q \in Shells : blind[q] => blind'[q]
  BY <1>t, TakesOne, Zenon
<1>5. shown'[p] = {} /\ \A q \in Shells \ {p} : shown'[q] = shown[q]
  BY <1>t DEF BwTakesAnother, Says
<1>6. ShownIsOurs'
  BY <1>4, <1>5 DEF Careful, ShownIsOurs
<1>7. Busy(p)
  BY TakesOne DEF Busy
<1> QED BY <1>3, <1>4, <1>6, <1>7 DEF Careful, Spares

LEMMA ShellSpares ==
    ASSUME WalletSound, Careful, NEW p \in Shells,
           \/ \E s \in Services : Calls(p, "lookup", s, None) \/ Calls(p, "delete", s, None)
           \/ \E s \in Services, x \in Secrets : Calls(p, "store", s, x)
           \/ Calls(p, "list", Foreign, None)
           \/ OnePassword(p) \/ Bitwarden(p) \/ SecretTool(p) \/ CredentialManager(p)
           \/ Keychain(p) \/ KeePassXCCLI(p) \/ WalletKilled(p)
    PROVE  Careful' /\ Spares
<1>1. CASE AtTheStore(p)
  <2>1. Careful' /\ Heeds(p) /\ Busy(p)
    BY <1>1, CommandsAreCareful
  <2>2. \A i \in items : ~i.mine /\ i \notin items' => blind[p] \/ i \notin before[p]
    BY <2>1 DEF Heeds
  <2> QED BY <2>1, <2>2, Zenon DEF Spares
<1>2. CASE \/ \E op \in Ops : \E s, x : Calls(p, op, s, x)
           \/ BwLock(p) \/ HoldsOpen(p) \/ LetsGo(p) \/ WalletKilled(p)
  <2>1. Careful' /\ items' = items
    BY <1>2, CallerIsCareful
  <2> QED BY <2>1 DEF Spares
<1>3. CASE \E s \in Services : Calls(p, "lookup", s, None) \/ Calls(p, "delete", s, None)
  <2>1. \E op \in Ops : \E s, x : Calls(p, op, s, x)
    BY <1>3 DEF Ops
  <2> QED BY <1>2, <2>1
<1>4. CASE \E s \in Services, x \in Secrets : Calls(p, "store", s, x)
  <2>1. \E op \in Ops : \E s, x : Calls(p, op, s, x)
    BY <1>4 DEF Ops
  <2> QED BY <1>2, <2>1
<1>5. CASE Calls(p, "list", Foreign, None)
  <2>1. \E op \in Ops : \E s, x : Calls(p, op, s, x)
    BY <1>5 DEF Ops
  <2> QED BY <1>2, <2>1
<1>6. CASE Bitwarden(p)
  <2>1. BwWork(p) \/ BwLock(p) \/ HoldsOpen(p) \/ LetsGo(p) \/ BwTakesAnother(p)
    BY <1>6 DEF Bitwarden, BwWork
  <2> QED BY <1>1, <1>2, <2>1, TakesAnotherIsCareful DEF AtTheStore
<1>7. CASE OnePassword(p) \/ SecretTool(p) \/ CredentialManager(p) \/ Keychain(p) \/ KeePassXCCLI(p)
  BY <1>1, <1>7 DEF AtTheStore
<1> QED BY <1>2, <1>3, <1>4, <1>5, <1>6, <1>7

LEMMA StepSpares == WalletSound /\ Careful /\ WalletsNext => Careful' /\ Spares
<1> SUFFICES ASSUME WalletSound, Careful, WalletsNext PROVE Careful' /\ Spares
  OBVIOUS
<1>1. CASE \E p \in Shells :
             \/ \E s \in Services : Calls(p, "lookup", s, None) \/ Calls(p, "delete", s, None)
             \/ \E s \in Services, x \in Secrets : Calls(p, "store", s, x)
             \/ Calls(p, "list", Foreign, None)
             \/ OnePassword(p) \/ Bitwarden(p) \/ SecretTool(p) \/ CredentialManager(p)
             \/ Keychain(p) \/ KeePassXCCLI(p) \/ WalletKilled(p)
  BY <1>1, ShellSpares
<1>2. CASE \E e \in late : Lands(e)
  <2>1. Careful' /\ OthersStay
    BY <1>2, LandsIsCareful
  <2> QED BY <2>1 DEF OthersStay, Spares
<1>3. CASE \/ \E s \in Services \cup {Foreign}, x \in Secrets : UserAdds(s, x)
           \/ \E i \in items : UserRemoves(i)
  <2>1. Careful' /\ walletOutside' # walletOutside
    BY <1>3, UserIsCareful
  <2> QED BY <2>1 DEF Spares
<1> QED BY <1>1, <1>2, <1>3 DEF WalletsNext

LEMMA RestIsCareful == WalletSound /\ Careful /\ UNCHANGED walletVars => Careful'
<1> SUFFICES ASSUME WalletSound, Careful, UNCHANGED walletVars PROVE Careful'
  OBVIOUS
<1>1. UNCHANGED <<kind, job, own, before, blind, items>>
  BY DEF walletVars, job, own, history
<1>2. items \in SUBSET Item /\ items' = items
  BY <1>1 DEF WalletSound, WalletTypes, ItemTypes
<1>3. Traced
  BY <1>2 DEF Traced, Was
<1> QED BY <1>1, <1>2, <1>3, OutsideStaysCareful

(* OthersLeftAlone: no command of any store removes or writes over an item *)
(* that sshakku did not put there, but one that came after the operation   *)
(* looked or that a failed search hid, and none of them is handed to a     *)
(* caller (F27 of docs/FEATURES.md; the lookups of                         *)
(* internal/wallets/onepassword and the group of keepassxc-cli's Delete).  *)
(* In the stores that have no mark an item under a name of ours is not told *)
(* from ours, and Bitwarden's search term takes one of a longer name too,  *)
(* of which the shell is then blind.  The invariant Careful says what each *)
(* of the deeds that could remove an item has seen.                        *)
THEOREM OthersAreLeftAlone == WalletsSpec => OthersLeftAlone
<1> DEFINE Kept == /\ \A p \in Shells : \A i \in shown'[p] : i.mine \/ blind'[p]
                   /\ \A i \in items : ~i.mine /\ i \notin items' =>
                        walletOutside' # walletOutside
                        \/ \E p \in Shells : Busy(p) /\ (blind[p] \/ blind'[p] \/ i \notin before[p])
<1>1. WalletSound /\ Careful /\ [WalletsNext]_walletVars => WalletSound' /\ Careful'
  BY NextWallets, StepSpares, RestIsCareful
<1>2. WalletSound /\ Careful /\ [WalletsNext]_walletVars => [Kept]_walletVars
  <2>1. WalletSound /\ Careful /\ WalletsNext => Kept
    BY StepSpares DEF Careful, ShownIsOurs, Spares
  <2> QED BY <2>1
<1>3. WalletsInit => WalletSound /\ Careful
  BY InitWallets, InitCareful
<1> QED BY <1>1, <1>2, <1>3, PTL DEF WalletsSpec, OthersLeftAlone

-----------------------------------------------------------------------------
(* What is forgotten.  An operation that deletes knows, when it is about to *)
(* say so, where every copy is that was there when it began: Bitwarden's in *)
(* the item it found, KeePassXC's in the bin, at a place that was not there *)
(* before.                                                                  *)
Telling == {"bw_delete", "kp_rm", "kp_search_again", "kp_purge"}
Purging == {"kp_search_again", "kp_purge"}

Doomed(p) == {i \in items : i.mine /\ i.svc = Svc(p) /\ \E j \in before[p] : j.id = i.id}
Unexcused(p) == Wants(p, "delete") /\ ~blind[p] /\ ~BinHeldOne(p) /\ Svc(p) \notin crowded
InTheBin(s) == \E i \in items : i.svc = s /\ i.place = "bin"

OursInPlace == \A i \in items : i.mine => i.place # "elsewhere"
EmptiesIt(p) == at[p] \in Purging => Svc(p) \in crowded \/ Ours(Svc(p)) = {}
BinIsAll(p) == Unexcused(p) /\ InTheBin(Svc(p)) => Ours(Svc(p)) = {}
KnowsWhere(p) ==
  Unexcused(p) =>
    /\ at[p] = "bw_delete" => \A i \in Doomed(p) : \E j \in found[p] : j.id = i.id
    /\ at[p] = "kp_rm" /\ Right(p) /\ "bin" \in Places(found[p]) => Ours(Svc(p)) = {}
    /\ at[p] = "kp_search_again" =>
         "bin" \notin Places(found[p]) /\ \A i \in Doomed(p) : i.place = "bin"
    /\ at[p] = "kp_purge" =>
         \A i \in Doomed(p) : \E j \in found[p] : j.id = i.id /\ j.place = "bin"
Thorough == OursInPlace /\ \A p \in Shells : EmptiesIt(p) /\ BinIsAll(p) /\ KnowsWhere(p)

(* What no step does: put one of ours elsewhere, put something in a bin     *)
(* while one of that name stays in the vault, or fill a vault somebody is   *)
(* deleting from without that being noticed.                               *)
OnlyBinned ==
  /\ OursInPlace'
  /\ \A i \in items' : i.place = "bin" /\ i.svc \in Services =>
       InTheBin(i.svc) \/ i.svc \in crowded' \/ \A s : s = i.svc => Ours(s)' = {}
StayEmpty ==
  \A q \in Shells, s \in Services : Wants(q, "delete") /\ s = Svc(q) /\ Ours(s) = {} =>
     Ours(s)' = {} \/ s \in crowded'

(* What was there at first of a shell that goes on is less and less.       *)
LEMMA DoomedDwindle ==
    ASSUME WalletSound, NEW q \in Shells, Traced, call'[q] = call[q], before'[q] = before[q]
    PROVE  \A i \in Doomed(q)' : \E j \in Doomed(q) : j.id = i.id /\ (j.place = "bin" => i.place = "bin")
<1> SUFFICES ASSUME NEW i \in Doomed(q)'
             PROVE  \E j \in Doomed(q) : j.id = i.id /\ (j.place = "bin" => i.place = "bin")
  OBVIOUS
<1>1. i \in items' /\ i.mine /\ i.svc = call[q].svc /\ \E b \in before[q] : b.id = i.id
  BY DEF Doomed, Svc
<1>2. PICK j \in items : Was(j, i)
  BY <1>1 DEF Traced
<1>3. j \in Doomed(q)
  BY <1>1, <1>2 DEF Was, Doomed, Svc
<1> QED BY <1>2, <1>3 DEF Was

(* The bin stays where all of it is, while a deletion goes on.             *)
LEMMA BinStaysAll ==
    ASSUME WalletSound, NEW q \in Shells, BinIsAll(q), OnlyBinned, StayEmpty, crowded \subseteq crowded',
           call'[q] = call[q], before'[q] = before[q], Wants(q, "delete") /\ blind[q] => blind'[q]
    PROVE  /\ Unexcused(q)' => Unexcused(q)
           /\ \A s : s = Svc(q) /\ Unexcused(q)' /\ Ours(s) = {} => Ours(s)' = {}
           /\ BinIsAll(q)'
<1> PICK s : s = Svc(q)
  OBVIOUS
<1>t. ~Wants(q, "list") => s \in Services
  BY AtWork
<1>2. Unexcused(q)' => Unexcused(q) /\ s \notin crowded'
  BY DEF Unexcused, BinHeldOne, Wants, Svc
<1>3. Wants(q, "delete") /\ Ours(s) = {} => Ours(s)' = {} \/ s \in crowded'
  BY <1>t DEF StayEmpty, Wants
<1>4. Svc(q)' = s
  BY DEF Svc
<1>6. Unexcused(q)' /\ Ours(s) = {} => Ours(s)' = {}
  BY <1>2, <1>3 DEF Unexcused
<1>7. Unexcused(q)' /\ (\E i \in items' : i.svc = s /\ i.place = "bin") => Ours(s)' = {}
  <2> SUFFICES ASSUME Unexcused(q)', NEW i \in items', i.svc = s, i.place = "bin" PROVE Ours(s)' = {}
    OBVIOUS
  <2>0. s \in Services
    BY <1>t, <1>2 DEF Unexcused, Wants
  <2>1. InTheBin(s) \/ Ours(s)' = {}
    BY <1>2, <2>0 DEF OnlyBinned
  <2>2. InTheBin(s) => Ours(s) = {}
    BY <1>2 DEF BinIsAll
  <2> QED BY <1>6, <2>1, <2>2
<1>8. BinIsAll(q)'
  BY <1>4, <1>7 DEF BinIsAll, InTheBin, Ours, InVault, Named
<1> QED BY <1>2, <1>6, <1>8

(* A shell that does nothing meanwhile still knows.                        *)
LEMMA IdleStillKnows ==
    ASSUME WalletSound, Thorough, NEW q \in Shells, Traced, OnlyBinned, StayEmpty,
           crowded \subseteq crowded',
           before'[q] = before[q], at'[q] = at[q], call'[q] = call[q], found'[q] = found[q],
           blind'[q] = blind[q], dbpass'[q] = dbpass[q]
    PROVE  EmptiesIt(q)' /\ BinIsAll(q)' /\ KnowsWhere(q)'
<1> PICK s : s = Svc(q)
  OBVIOUS
<1>t. OpFits(at[q], call[q].op) /\ (~Wants(q, "list") => s \in Services)
  BY AtWork
<1>1. EmptiesIt(q) /\ BinIsAll(q) /\ KnowsWhere(q)
  BY DEF Thorough
<1>2. (Unexcused(q)' => Unexcused(q)) /\ (Unexcused(q)' /\ Ours(s) = {} => Ours(s)' = {}) /\ BinIsAll(q)'
  BY <1>1, BinStaysAll
<1>3. Wants(q, "delete") /\ Ours(s) = {} => Ours(s)' = {} \/ s \in crowded'
  BY <1>t DEF StayEmpty, Wants
<1>4. Svc(q)' = s
  BY DEF Svc
<1>5. EmptiesIt(q)'
  <2> SUFFICES ASSUME at'[q] \in Purging PROVE s \in crowded' \/ Ours(s)' = {}
    BY <1>4 DEF EmptiesIt, Ours, InVault, Named
  <2>1. Wants(q, "delete")
    BY <1>t DEF OpFits, Purging, Deleting, Wants
  <2>2. s \in crowded \/ Ours(s) = {}
    BY <1>1 DEF EmptiesIt
  <2> QED BY <1>3, <2>1, <2>2
<1>9. KnowsWhere(q)'
  <2> SUFFICES ASSUME Unexcused(q)'
               PROVE  /\ at'[q] = "bw_delete" => \A i \in Doomed(q)' : \E j \in found'[q] : j.id = i.id
                      /\ at'[q] = "kp_rm" /\ dbpass'[q] = "right" /\ "bin" \in Places(found'[q])
                           => Ours(s)' = {}
                      /\ at'[q] = "kp_search_again" =>
                           "bin" \notin Places(found'[q]) /\ \A i \in Doomed(q)' : i.place = "bin"
                      /\ at'[q] = "kp_purge" =>
                           \A i \in Doomed(q)' : \E j \in found'[q] : j.id = i.id /\ j.place = "bin"
    BY <1>4 DEF KnowsWhere, Right, Ours, InVault, Named, Places
  <2>1. \A i \in Doomed(q)' : \E j \in Doomed(q) : j.id = i.id /\ (j.place = "bin" => i.place = "bin")
    BY DoomedDwindle
  <2>2. Unexcused(q)
    BY <1>2
  <2>3. at[q] = "bw_delete" => \A i \in Doomed(q)' : \E j \in found[q] : j.id = i.id
    BY <1>1, <2>1, <2>2 DEF KnowsWhere
  <2>4. at[q] = "kp_rm" /\ dbpass[q] = "right" /\ "bin" \in Places(found[q]) => Ours(s)' = {}
    BY <1>1, <1>2, <2>2 DEF KnowsWhere, Right
  <2>5. at[q] = "kp_search_again" =>
          "bin" \notin Places(found[q]) /\ \A i \in Doomed(q)' : i.place = "bin"
    BY <1>1, <2>1, <2>2 DEF KnowsWhere
  <2>6. at[q] = "kp_purge" => \A i \in Doomed(q)' : \E j \in found[q] : j.id = i.id /\ j.place = "bin"
    BY <1>1, <2>1, <2>2 DEF KnowsWhere
  <2> QED BY <2>3, <2>4, <2>5, <2>6
<1> QED BY <1>2, <1>5, <1>9

(* What a command of p sees to ...                                         *)
Finishes(p) ==
  /\ OnlyBinned
  /\ Wants(p, "delete") /\ blind[p] => blind'[p]
  /\ at'[p] \in Purging => at[p] \in Purging \/ \A s : s = Svc(p) => Ours(s)' = {}
  /\ at'[p] \in Telling => KnowsWhere(p)'
  /\ Ends(p, "delete", "ok") /\ ~blind'[p] /\ ~BinHeldOne(p) /\ Svc(p) \notin crowded => Left(p) = {}

(* ... and what follows for all.                                           *)
LEMMA WorkStaysThorough ==
    ASSUME WalletSound, Thorough, NEW p \in Shells, Worked(p), Finishes(p)
    PROVE  Thorough'
<1>t. /\ at \in [Shells -> Steps] /\ call \in [Shells -> CallTypes] /\ found \in [Shells -> SUBSET Item]
      /\ before \in [Shells -> SUBSET Item] /\ StoresAlone
  BY DEF WalletSound, WalletTypes, ItemTypes, JobTypes
<1>1. Traced /\ UNCHANGED kind /\ crowded \subseteq crowded'
      /\ \A s \in Services : Ours(s) = {} => Ours(s)' = {} \/ (s = Svc(p) /\ Wants(p, "store"))
  BY WorkIsTraced, WorkKeepsItems DEF Worked, Noted, Same
<1>2. \E next : at' = [at EXCEPT ![p] = next]
  BY DEF Worked, WentOn, Goes, Returned, ReturnWith, Says, Owed
<1>3. \/ UNCHANGED <<call, before>>
      \/ /\ call' = [call EXCEPT ![p] = NoCall] /\ before' = [before EXCEPT ![p] = {}]
         /\ at'[p] \in {"idle", "bw_lock"}
  BY <1>t DEF Worked, WentOn, Goes, Returned, ReturnWith, Says, Owed
<1>4. \E w : found' \in {found, [found EXCEPT ![p] = w]}
  BY DEF Worked, Noted
<1>5. StayEmpty
  <2> SUFFICES ASSUME NEW q \in Shells, NEW s \in Services, Wants(q, "delete"), s = Svc(q), Ours(s) = {}
               PROVE  Ours(s)' = {} \/ s \in crowded'
    BY DEF StayEmpty
  <2>1. CASE s = Svc(p) /\ Wants(p, "store")
    <3>1. p # q /\ call[q].op \in {"store", "delete"}
      BY <2>1 DEF Wants
    <3> QED BY <1>t, <1>1, <2>1, <3>1 DEF StoresAlone
  <2> QED BY <1>1, <2>1
<1>6. OnlyBinned
  BY DEF Finishes
<1>7. ASSUME NEW q \in Shells, q # p PROVE EmptiesIt(q)' /\ BinIsAll(q)' /\ KnowsWhere(q)'
  <2>1. at'[q] = at[q] /\ call'[q] = call[q] /\ before'[q] = before[q] /\ found'[q] = found[q]
    BY <1>t, <1>2, <1>3, <1>4, <1>7
  <2>2. blind'[q] = blind[q] /\ dbpass'[q] = dbpass[q]
    BY <1>7 DEF Worked, Noted, OthersKeep
  <2> QED BY <1>1, <1>5, <1>6, <2>1, <2>2, IdleStillKnows
<1>8. CASE call'[p] = NoCall /\ at'[p] \in {"idle", "bw_lock"}
  <2>1. ~Unexcused(p)' /\ at'[p] \notin Purging
    BY <1>8 DEF Unexcused, Wants, NoCall, Purging
  <2>2. EmptiesIt(p)' /\ BinIsAll(p)' /\ KnowsWhere(p)'
    BY <2>1 DEF EmptiesIt, BinIsAll, KnowsWhere
  <2> QED BY <1>6, <1>7, <2>2 DEF Thorough, OnlyBinned
<1>9. CASE UNCHANGED <<call, before>>
  <2> PICK s : s = Svc(p)
    OBVIOUS
  <2>1. BinIsAll(p) /\ EmptiesIt(p) /\ OpFits(at[p], call[p].op)
    BY AtWork DEF Thorough
  <2>2. BinIsAll(p)' /\ (Unexcused(p)' => Unexcused(p))
    BY <1>1, <1>5, <1>6, <1>9, <2>1, BinStaysAll DEF Finishes
  <2>3. Svc(p)' = s
    BY <1>9 DEF Svc
  <2>4. at'[p] \in Purging => s \in crowded' \/ Ours(s)' = {}
    <3>1. ASSUME at[p] \in Purging PROVE s \in crowded' \/ Ours(s)' = {}
      <4>1. Wants(p, "delete")
        BY <2>1, <3>1 DEF OpFits, Purging, Deleting, Wants
      <4>2. s \in Services
        BY <4>1, AtWork DEF Wants
      <4> QED BY <1>1, <1>5, <2>1, <3>1, <4>1, <4>2 DEF EmptiesIt, StayEmpty
    <3> QED BY <3>1 DEF Finishes
  <2>5. EmptiesIt(p)'
    BY <2>3, <2>4 DEF EmptiesIt, Ours, InVault, Named
  <2>6. KnowsWhere(p)'
    <3>1. CASE at'[p] \in Telling
      BY <3>1 DEF Finishes
    <3>2. CASE at'[p] \notin Telling
      BY <3>2 DEF KnowsWhere, Telling
    <3> QED BY <3>1, <3>2
  <2> QED BY <1>6, <1>7, <2>2, <2>5, <2>6 DEF Thorough, OnlyBinned
<1> QED BY <1>t, <1>3, <1>8, <1>9

(* Who is not deleting, and who deletes from a store that has no bin.      *)
LEMMA NoBinElsewhere ==
    ASSUME WalletSound, NEW p \in Shells, Worked(p), kind # "keepassxc-cli"
    PROVE  OnlyBinned
<1>1. VaultsAreOurs' /\ kind' = kind
  BY WorkKeepsItems DEF Worked, Noted, Same
<1>2. \A i \in items' : i.place = "vault"
  BY <1>1 DEF VaultsAreOurs, ItsPlace
<1> QED BY <1>2 DEF OnlyBinned, OursInPlace

LEMMA OthersFinish ==
    ASSUME WalletSound, NEW p \in Shells, Worked(p), OnlyBinned, ~Wants(p, "delete")
    PROVE  Finishes(p)
<1>t. at \in [Shells -> Steps]
  BY DEF WalletSound, WalletTypes, JobTypes
<1>1. at'[p] \notin Telling
  <2>1. CASE WentOn(p)
    <3>1. PICK next \in Steps : Goes(p, next) /\ OpFits(next, call[p].op)
      BY <2>1 DEF WentOn
    <3> QED BY <1>t, <3>1 DEF Goes, OpFits, Deleting, Telling, Wants
  <2>2. CASE Returned(p)
    BY <1>t, <2>2 DEF Returned, ReturnWith, Says, Owed, Telling
  <2> QED BY <2>1, <2>2 DEF Worked
<1> QED BY <1>1 DEF Finishes, Ends, Telling, Purging

LEMMA DeletesElsewhere ==
    ASSUME WalletSound, NEW p \in Shells, Worked(p), kind # "keepassxc-cli", Wants(p, "delete"),
           NotBlind \/ \E missed \in BOOLEAN : TakenForMiss(p, missed), at'[p] # "bw_delete",
           Ends(p, "delete", "ok") /\ ~blind'[p] => \A i \in items' : i.mine => i.svc # Svc(p)
    PROVE  Finishes(p)
<1>t. at \in [Shells -> Steps] /\ blind \in [Shells -> BOOLEAN]
  BY DEF WalletSound, WalletTypes, JobTypes, FlagTypes
<1>1. at'[p] \notin Telling
  <2>1. CASE WentOn(p)
    <3>1. PICK next \in Steps : Goes(p, next) /\ KindFits(next)
      BY <2>1 DEF WentOn
    <3> QED BY <1>t, <3>1 DEF Goes, KindFits, KpSteps, Telling
  <2>2. CASE Returned(p)
    BY <1>t, <2>2 DEF Returned, ReturnWith, Says, Owed, Telling
  <2> QED BY <2>1, <2>2 DEF Worked
<1>2. blind[p] => blind'[p]
  BY <1>t, BlindnessGrows DEF NotBlind
<1>3. OnlyBinned
  BY NoBinElsewhere
<1>4. Ends(p, "delete", "ok") /\ ~blind'[p] => Left(p) = {}
  BY DEF Ends, Left
<1> QED BY <1>1, <1>2, <1>3, <1>4 DEF Finishes, Telling, Purging

LEMMA ReturnAnswers ==
    ASSUME WalletSound, NEW p \in Shells, NEW ans, Return(p, ans)
    PROVE  answer'[p] = ans /\ at'[p] \in {"idle", "bw_lock"}
BY DEF WalletSound, WalletTypes, JobTypes, Return, ReturnWith, Says, Owed

LEMMA OnePasswordFinishes ==
    ASSUME WalletSound, Thorough, NEW p \in Shells, OnePassword(p)
    PROVE  Finishes(p)
<1>t. /\ OpFits(at[p], call[p].op) /\ at \in [Shells -> Steps] /\ blind \in [Shells -> BOOLEAN]
      /\ answer \in [Shells -> Answers] /\ call[p].op \in Ops
  BY AtWork DEF WalletSound, WalletTypes, JobTypes, FlagTypes
<1>0. Worked(p) /\ kind # "keepassxc-cli"
  BY AtWork, OnePasswordWorks DEF KindFits, OnePassword, OpGet, OpDelete, OpCreate, OpList
<1>1. CASE ~Wants(p, "delete")
  BY <1>0, <1>1, OthersFinish, NoBinElsewhere
<1>2. CASE Wants(p, "delete") /\ OpGet(p)
  <2> DEFINE same == Named(Svc(p))
  <2>1. /\ items' = items
        /\ \/ Return(p, "error") /\ NotBlind
           \/ TakenForMiss(p, same # {}) /\ Return(p, "ok")
           \/ NotBlind /\ (Goes(p, "op_delete") \/ (Return(p, "ok") /\ ~Marked(same)))
    <3> HIDE DEF same
    <3> QED BY <1>2, Zenon DEF OpGet, Wants, same
  <2>2. CASE Return(p, "error") /\ NotBlind
    BY <1>0, <1>2, <2>2, ReturnAnswers, DeletesElsewhere DEF Ends
  <2>3. CASE TakenForMiss(p, same # {}) /\ Return(p, "ok")
    <3>1. same # {} => blind'[p]
      BY <1>t, <2>3, BlindnessGrows
    <3>2. ~blind'[p] => \A i \in items' : i.svc # Svc(p)
      BY <2>1, <3>1 DEF Named
    <3> QED BY <1>0, <1>2, <2>3, <3>2, ReturnAnswers, DeletesElsewhere DEF Ends
  <2>4. CASE NotBlind /\ Goes(p, "op_delete")
    <3>1. at'[p] = "op_delete" /\ answer' = answer
      BY <1>t, <2>4 DEF Goes
    <3> QED BY <1>0, <1>2, <2>4, <3>1, DeletesElsewhere DEF Ends
  <2>5. CASE NotBlind /\ Return(p, "ok") /\ ~Marked(same)
    <3>1. \A i \in items' : i.mine => i.svc # Svc(p)
      BY <2>1, <2>5 DEF Marked, Named
    <3> QED BY <1>0, <1>2, <2>5, <3>1, ReturnAnswers, DeletesElsewhere DEF Ends
  <2> QED BY <2>1, <2>2, <2>3, <2>4, <2>5
<1>3. CASE Wants(p, "delete") /\ OpDelete(p)
  <2>1. NotBlind /\ (Return(p, "error") \/ (Return(p, "ok") /\ items' = items \ Named(Svc(p))))
    BY <1>3 DEF OpDelete, Changes, Wants
  <2> QED BY <1>0, <1>3, <2>1, ReturnAnswers, DeletesElsewhere DEF Named, Ends
<1>4. CASE OpCreate(p) \/ OpList(p)
  BY <1>1, <1>4, <1>t DEF OpCreate, OpList, OpFits, Storing, Wants
<1> QED BY <1>1, <1>2, <1>3, <1>4 DEF OnePassword

LEMMA BwFindFinishes ==
    ASSUME WalletSound, NEW p \in Shells, BwFind(p), Wants(p, "delete"), kind # "keepassxc-cli", Worked(p)
    PROVE  Finishes(p)
<1>t. /\ at \in [Shells -> Steps] /\ blind \in [Shells -> BOOLEAN] /\ found \in [Shells -> SUBSET Item]
  BY DEF WalletSound, WalletTypes, JobTypes, ItemTypes, FlagTypes
<1> DEFINE same == Named(Svc(p))
<1>1. /\ items' = items
      /\ \/ Return(p, "error") /\ NotBlind
         \/ TakenForMiss(p, same # {}) /\ Return(p, "ok")
         \/ NotBlind /\ Looks(p, Answering(Svc(p))) /\ Goes(p, "bw_delete")
  <2> HIDE DEF same
  <2> QED BY Zenon DEF BwFind, Wants, same
<1>2. CASE Return(p, "error") /\ NotBlind
  BY <1>2, ReturnAnswers, DeletesElsewhere DEF Ends
<1>3. CASE TakenForMiss(p, same # {}) /\ Return(p, "ok")
  <2>1. same # {} => blind'[p]
    BY <1>t, <1>3, BlindnessGrows
  <2>2. ~blind'[p] => \A i \in items' : i.svc # Svc(p)
    BY <1>1, <2>1 DEF Named
  <2> QED BY <1>3, <2>2, ReturnAnswers, DeletesElsewhere DEF Ends
<1>4. CASE NotBlind /\ Looks(p, Answering(Svc(p))) /\ Goes(p, "bw_delete")
  <2>1. at'[p] = "bw_delete" /\ answer' = answer /\ call' = call /\ before' = before
    BY <1>t, <1>4 DEF Goes
  <2>2. found'[p] = Answering(Svc(p))
    BY <1>t, <1>4 DEF Looks
  <2>3. \A i \in Doomed(p)' : i \in found'[p]
    BY <1>1, <2>1, <2>2 DEF Doomed, Answering, Svc
  <2>4. KnowsWhere(p)'
    BY <2>1, <2>3 DEF KnowsWhere
  <2>5. OnlyBinned
    BY NoBinElsewhere
  <2>6. blind' = blind
    BY <1>4 DEF NotBlind
  <2> QED BY <2>1, <2>4, <2>5, <2>6 DEF Finishes, Ends, Purging
<1> QED BY <1>1, <1>2, <1>3, <1>4

LEMMA BitwardenFinishes ==
    ASSUME WalletSound, Thorough, NEW p \in Shells, BwWork(p)
    PROVE  Finishes(p)
<1>t. /\ OpFits(at[p], call[p].op) /\ KindFits(at[p]) /\ at \in [Shells -> Steps]
  BY AtWork DEF WalletSound, WalletTypes, JobTypes
<1>0. Worked(p) /\ kind # "keepassxc-cli"
  BY <1>t, BitwardenWorks DEF KindFits, BwSteps, BwWork, BwUnlock, BwGet, BwFind, BwEdit, BwCreate,
     BwDelete, BwList
<1>1. CASE ~Wants(p, "delete")
  BY <1>0, <1>1, OthersFinish, NoBinElsewhere
<1>2. CASE Wants(p, "delete") /\ BwUnlock(p)
  <2>1. NotBlind /\ (Goes(p, "bw_find") \/ Return(p, "error"))
    BY <1>2 DEF BwUnlock, BwFirst, Wants
  <2>2. CASE Return(p, "error")
    BY <1>0, <1>2, <2>1, <2>2, ReturnAnswers, DeletesElsewhere DEF Ends
  <2>3. CASE Goes(p, "bw_find")
    <3>1. at'[p] = "bw_find" /\ answer' = answer
      BY <1>t, <2>3 DEF Goes
    <3> QED BY <1>0, <1>2, <2>1, <3>1, DeletesElsewhere DEF Ends
  <2> QED BY <2>1, <2>2, <2>3
<1>3. CASE Wants(p, "delete") /\ BwFind(p)
  BY <1>0, <1>3, BwFindFinishes
<1>4. CASE Wants(p, "delete") /\ BwDelete(p)
  <2>1. /\ NotBlind /\ at[p] = "bw_delete"
        /\ Return(p, "error") \/ (Return(p, "ok") /\ items' = items \ Still(p))
    BY <1>4 DEF BwDelete, Changes
  <2>2. at'[p] \in {"idle", "bw_lock"} /\ blind' = blind
    BY <2>1, ReturnAnswers DEF NotBlind
  <2>3. ASSUME Ends(p, "delete", "ok"), ~blind'[p], ~BinHeldOne(p), Svc(p) \notin crowded
        PROVE  Left(p) = {}
    <3>1. items' = items \ Still(p)
      BY <2>1, <2>3, ReturnAnswers DEF Ends
    <3>2. \A i \in Doomed(p) : i \in Still(p)
      BY <1>4, <2>1, <2>2, <2>3 DEF Thorough, KnowsWhere, Unexcused, Doomed, Still
    <3> QED BY <3>1, <3>2 DEF Left, Doomed
  <2>4. OnlyBinned
    BY <1>0, NoBinElsewhere
  <2> QED BY <2>2, <2>3, <2>4 DEF Finishes, Telling, Purging
<1>5. CASE BwGet(p) \/ BwEdit(p) \/ BwCreate(p) \/ BwList(p)
  BY <1>1, <1>5, <1>t DEF BwGet, BwEdit, BwCreate, BwList, OpFits, Storing, Wants
<1> QED BY <1>1, <1>2, <1>3, <1>4, <1>5 DEF BwWork

(* The stores where a deletion is one call.                                *)
LEMMA OneCallFinishes ==
    ASSUME WalletSound, NEW p \in Shells, SecretTool(p) \/ CredentialManager(p) \/ Keychain(p)
    PROVE  Finishes(p)
<1>t. OpFits(at[p], call[p].op) /\ KindFits(at[p]) /\ VaultsAreOurs
  BY AtWork
<1>0. Worked(p)
  BY SecretToolWorks, CredentialManagerWorks, KeychainWorks
<1>1. kind # "keepassxc-cli"
  BY <1>t DEF SecretTool, CredentialManager, Keychain, SecretToolLookup, SecretToolStore, SecretToolDelete,
     SecretToolList, CredLookup, CredStore, CredDelete, CredList, KeychainLookup, KeychainFind, KeychainAdd,
     KeychainUpdate, KeychainDelete, KeychainList, KindFits
<1>2. CASE ~Wants(p, "delete")
  BY <1>0, <1>1, <1>2, OthersFinish, NoBinElsewhere
<1>3. CASE Wants(p, "delete")
  <2>1. SecretToolDelete(p) \/ CredDelete(p) \/ KeychainDelete(p)
    BY <1>t, <1>3 DEF SecretTool, CredentialManager, Keychain, SecretToolLookup, SecretToolStore,
       SecretToolList, CredLookup, CredStore, CredList, KeychainLookup, KeychainFind, KeychainAdd,
       KeychainUpdate, KeychainList, OpFits, Storing, Wants
  <2>2. NotBlind /\ (Return(p, "error") \/ (Return(p, "ok") /\ items' = items \ InVault(Svc(p))))
    BY <2>1 DEF SecretToolDelete, CredDelete, KeychainDelete, Changes, Erases, Bounded
  <2>3. items' = items \ InVault(Svc(p)) => \A i \in items' : i.svc # Svc(p)
    BY <1>t, <1>1 DEF InVault, Named, VaultsAreOurs, ItsPlace
  <2> QED BY <1>0, <1>1, <1>3, <2>2, <2>3, ReturnAnswers, DeletesElsewhere DEF Ends
<1> QED BY <1>2, <1>3

(* KeePassXC's database, which has a bin.                                  *)
LEMMA NotBinned ==
    ASSUME WalletSound, Thorough, NEW p \in Shells,
           \/ items' = items
           \/ Wants(p, "store") /\ Free # {} /\ items' = Created(p)
           \/ items' = Overwritten(p, InVault(Svc(p)))
    PROVE  OnlyBinned
<1>t. items \in SUBSET Item /\ OursInPlace /\ (Wants(p, "store") => Svc(p) \in Services /\ call[p].secret \in Secrets)
  BY AtWork DEF Thorough, Wants
<1>1. \A i \in items' : i.place = "vault" \/ \E j \in items : j.place = i.place /\ j.svc = i.svc /\ j.mine = i.mine
  <2>1. CASE items' = items
    BY <2>1
  <2>2. CASE Wants(p, "store") /\ Free # {} /\ items' = Created(p)
    <3>1. NewItem(Svc(p), call[p].secret).place = "vault"
      BY <1>t, <2>2, NewItemIsNew
    <3> QED BY <2>2, <3>1 DEF Created
  <2>3. CASE items' = Overwritten(p, InVault(Svc(p)))
    <3>1. \A i \in InVault(Svc(p)) : [i EXCEPT !.secret = call[p].secret].place = "vault"
      BY <1>t DEF InVault, Named, Item
    <3> QED BY <2>3, <3>1 DEF Overwritten
  <2> QED BY <2>1, <2>2, <2>3
<1>2. OursInPlace'
  BY <1>t, <1>1 DEF OursInPlace
<1>3. \A i \in items' : i.place = "bin" => InTheBin(i.svc)
  BY <1>1 DEF InTheBin
<1> QED BY <1>2, <1>3 DEF OnlyBinned

(* A deletion that returns, and one that goes on.                          *)
LEMMA EndFinishes ==
    ASSUME WalletSound, NEW p \in Shells, OnlyBinned, NEW ans, Return(p, ans),
           NotBlind \/ \E missed \in BOOLEAN : TakenForMiss(p, missed),
           ans = "ok" /\ ~blind'[p] /\ ~BinHeldOne(p) /\ Svc(p) \notin crowded => Left(p) = {}
    PROVE  Finishes(p)
<1>1. answer'[p] = ans /\ at'[p] \in {"idle", "bw_lock"}
  BY ReturnAnswers
<1>2. blind[p] => blind'[p]
  BY BlindnessGrows DEF NotBlind, WalletSound, WalletTypes, FlagTypes
<1> QED BY <1>1, <1>2 DEF Finishes, Ends, Purging, Telling

LEMMA GoingFinishes ==
    ASSUME WalletSound, NEW p \in Shells, OnlyBinned, NEW next, Goes(p, next),
           NotBlind \/ \E missed \in BOOLEAN : TakenForMiss(p, missed),
           next \in Purging => at[p] \in Purging \/ \A s : s = Svc(p) => Ours(s)' = {},
           next \in Telling => KnowsWhere(p)'
    PROVE  Finishes(p)
<1>1. at'[p] = next /\ answer' = answer
  BY DEF Goes, WalletSound, WalletTypes, JobTypes
<1>2. blind[p] => blind'[p]
  BY BlindnessGrows DEF NotBlind, WalletSound, WalletTypes, FlagTypes
<1> QED BY <1>1, <1>2 DEF Finishes, Ends

LEMMA KpSearchFinishes ==
    ASSUME WalletSound, Thorough, NEW p \in Shells, KpSearch(p)
    PROVE  Finishes(p)
<1>t. /\ at \in [Shells -> Steps] /\ found \in [Shells -> SUBSET Item] /\ blind \in [Shells -> BOOLEAN]
      /\ BinIsAll(p)
  BY DEF WalletSound, WalletTypes, JobTypes, ItemTypes, FlagTypes, Thorough
<1>1. items' = items /\ UNCHANGED dbpass
  BY DEF KpSearch, own
<1>2. OnlyBinned
  BY <1>1, NotBinned
<1>3. CASE Return(p, "error") /\ NotBlind
  BY <1>2, <1>3, EndFinishes
<1>4. CASE /\ Goes(p, "kp_rm")
           /\ \/ Looks(p, IF Right(p) THEN Named(Svc(p)) ELSE {}) /\ NotBlind
              \/ Looks(p, {}) /\ TakenForMiss(p, Named(Svc(p)) # {})
  <2> PICK s : s = Svc(p)
    OBVIOUS
  <2>1. at'[p] = "kp_rm" /\ UNCHANGED <<call, before>>
    BY <1>t, <1>4 DEF Goes
  <2>2. NotBlind \/ \E missed \in BOOLEAN : TakenForMiss(p, missed)
    BY <1>4
  <2>3. found'[p] = {} \/ (found'[p] = Named(Svc(p)) /\ NotBlind)
    BY <1>t, <1>4 DEF Looks
  <2>4. Svc(p)' = s /\ (NotBlind => (Unexcused(p)' => Wants(p, "delete") /\ ~blind[p] /\ ~BinHeldOne(p)))
    BY <2>1 DEF Svc, Unexcused, BinHeldOne, Wants, NotBlind
  <2>5. NotBlind => (Unexcused(p)' => Unexcused(p))
    BY <2>1 DEF Svc, Unexcused, BinHeldOne, Wants, NotBlind
  <2>6. Unexcused(p)' /\ "bin" \in Places(found'[p]) => Ours(s) = {}
    <3> SUFFICES ASSUME Unexcused(p)', "bin" \in Places(found'[p]) PROVE Ours(s) = {}
      OBVIOUS
    <3>1. PICK i \in found'[p] : i.place = "bin"
      BY DEF Places
    <3>2. i \in Named(Svc(p)) /\ NotBlind
      BY <2>3, <3>1
    <3>3. InTheBin(Svc(p)) /\ Unexcused(p)
      BY <2>5, <3>1, <3>2 DEF InTheBin, Named
    <3> QED BY <1>t, <3>3 DEF BinIsAll
  <2>7. Ours(s)' = Ours(s)
    BY <1>1 DEF Ours, InVault, Named
  <2>8. KnowsWhere(p)'
    BY <2>1, <2>4, <2>6, <2>7 DEF KnowsWhere, Places, Ours, InVault, Named
  <2> QED BY <1>2, <1>4, <2>2, <2>8, GoingFinishes DEF Purging
<1> QED BY <1>3, <1>4 DEF KpSearch

LEMMA KpRmFinishes ==
    ASSUME WalletSound, Thorough, NEW p \in Shells, KpRm(p)
    PROVE  Finishes(p)
<1>t. /\ at \in [Shells -> Steps] /\ OpFits(at[p], call[p].op) /\ KindFits(at[p]) /\ items \in SUBSET Item
      /\ KnowsWhere(p) /\ OursInPlace /\ blind \in [Shells -> BOOLEAN]
  BY AtWork DEF WalletSound, WalletTypes, JobTypes, FlagTypes, Thorough
<1> PICK s : s = Svc(p)
  OBVIOUS
<1>1. at[p] = "kp_rm" /\ items' \in {items, ToBin(InVault(s))} /\ UNCHANGED <<own, found>>
  BY DEF KpRm
<1>2. Wants(p, "delete") /\ kind # "1password"
  BY <1>t, <1>1 DEF OpFits, KindFits, Deleting, KpSteps, Wants
<1>3. \A i \in InVault(s) : i \in items /\ i.svc = s /\ i.place = "vault" /\ i.mine
  BY <1>2, VaultIsItsOwn
<1>4. ASSUME items' = ToBin(InVault(s)), NEW i \in items'
      PROVE  /\ i.mine => i.place # "elsewhere"
             /\ (i \in items /\ i \notin InVault(s)) \/ (i.svc = s /\ i.place = "bin" /\ i.mine)
  <2>1. CASE i \in items /\ i \notin InVault(s)
    BY <1>t, <2>1 DEF OursInPlace
  <2>2. CASE \E j \in InVault(s) : i = [j EXCEPT !.place = "bin"]
    BY <1>t, <1>3, <2>2 DEF Item
  <2> QED BY <1>4, <2>1, <2>2 DEF ToBin
<1>5. items' = ToBin(InVault(s)) => Ours(s)' = {}
  BY <1>4 DEF Ours, InVault, Named
<1>6. OnlyBinned
  <2>1. CASE items' = items
    BY <2>1, NotBinned
  <2>2. CASE items' = ToBin(InVault(s))
    <3>1. OursInPlace'
      BY <1>4, <2>2 DEF OursInPlace
    <3>2. \A i \in items' : i.place = "bin" => InTheBin(i.svc) \/ i.svc = s
      BY <1>4, <2>2 DEF InTheBin
    <3> QED BY <1>5, <2>2, <3>1, <3>2 DEF OnlyBinned
  <2> QED BY <1>1, <2>1, <2>2
<1>7. CASE Return(p, "error") /\ NotBlind
  BY <1>6, <1>7, EndFinishes
<1>8. CASE /\ TakenForMiss(p, \E i \in Named(s) : i.mine) /\ Return(p, "ok")
           /\ (Right(p) /\ InVault(s) # {}) \/ items' = items
  <2> DEFINE missed == \E i \in Named(s) : i.mine
  <2>1. missed \in BOOLEAN /\ TakenForMiss(p, missed)
    BY <1>8
  <2>2. missed => blind'[p]
    BY <1>t, <2>1, BlindnessGrows
  <2>3. ~blind'[p] => items' = items /\ \A i \in items : i.mine => i.svc # s
    BY <1>3, <1>8, <2>2 DEF Named
  <2>4. ~blind'[p] => Left(p) = {}
    BY <2>3 DEF Left
  <2> QED BY <1>6, <1>8, <2>1, <2>4, EndFinishes
<1>9. CASE Right(p) /\ InVault(s) # {} /\ items' = ToBin(InVault(s)) /\ Goes(p, "kp_search_again") /\ NotBlind
  <2>1. at'[p] = "kp_search_again" /\ UNCHANGED <<call, before, blind, found>>
    BY <1>t, <1>1, <1>9 DEF Goes, NotBlind
  <2>2. Unexcused(p)' => "bin" \notin Places(found[p])
    <3>1. Ours(s) # {}
      BY <1>3, <1>9 DEF Ours
    <3>2. Unexcused(p)' => Unexcused(p)
      BY <1>9, <2>1 DEF Unexcused, BinHeldOne, Wants, Svc, NotBlind
    <3> QED BY <1>t, <1>1, <1>9, <3>1, <3>2 DEF KnowsWhere
  <2>3. \A i \in Doomed(p)' : i.place = "bin"
    <3> SUFFICES ASSUME NEW i \in Doomed(p)' PROVE i.place = "bin"
      OBVIOUS
    <3>1. i \in items' /\ i.mine /\ i.svc = s
      BY <2>1 DEF Doomed, Svc
    <3>2. CASE i \in items /\ i \notin InVault(s)
      <4>1. i.place # "vault" /\ i.place # "elsewhere"
        BY <1>t, <3>1, <3>2 DEF InVault, Named, OursInPlace
      <4> QED BY <1>t, <3>2, <4>1 DEF Item
    <3> QED BY <1>4, <1>9, <3>1, <3>2
  <2>4. KnowsWhere(p)'
    BY <2>1, <2>2, <2>3 DEF KnowsWhere, Places
  <2> QED BY <1>5, <1>6, <1>9, <2>4, GoingFinishes
<1>10. \/ Return(p, "error") /\ NotBlind
       \/ /\ TakenForMiss(p, \E i \in Named(s) : i.mine) /\ Return(p, "ok")
          /\ (Right(p) /\ InVault(s) # {}) \/ items' = items
       \/ Right(p) /\ InVault(s) # {} /\ items' = ToBin(InVault(s)) /\ Goes(p, "kp_search_again") /\ NotBlind
  BY DEF KpRm
<1> QED BY <1>7, <1>8, <1>9, <1>10

LEMMA KpSearchAgainFinishes ==
    ASSUME WalletSound, Thorough, NEW p \in Shells, KpSearchAgain(p)
    PROVE  Finishes(p)
<1>t. /\ at \in [Shells -> Steps] /\ found \in [Shells -> SUBSET Item] /\ blind \in [Shells -> BOOLEAN]
      /\ KnowsWhere(p) /\ items \in SUBSET Item
  BY DEF WalletSound, WalletTypes, JobTypes, ItemTypes, FlagTypes, Thorough
<1>1. at[p] = "kp_search_again" /\ items' = items
  BY DEF KpSearchAgain
<1>2. OnlyBinned
  BY <1>1, NotBinned
<1>3. CASE Return(p, "error") /\ NotBlind
  BY <1>2, <1>3, EndFinishes
<1>4. CASE TakenForMiss(p, Named(Svc(p)) # {}) /\ Return(p, "ok")
  <2>1. Named(Svc(p)) # {} => blind'[p]
    BY <1>t, <1>4, BlindnessGrows
  <2>2. ~blind'[p] => Left(p) = {}
    BY <1>1, <2>1 DEF Left, Named
  <2> QED BY <1>2, <1>4, <2>2, EndFinishes
<1>5. CASE NotBlind /\ Looks(p, {i \in Named(Svc(p)) : i.place \in Moved(p)}) /\ Goes(p, "kp_purge")
  <2>1. at'[p] = "kp_purge" /\ UNCHANGED <<call, before, blind>>
    BY <1>t, <1>5 DEF Goes, NotBlind
  <2>2. found'[p] = {i \in Named(Svc(p)) : i.place \in Moved(p)}
    BY <1>t, <1>5 DEF Looks
  <2>3. Unexcused(p)' => Unexcused(p)
    BY <1>5, <2>1 DEF Unexcused, BinHeldOne, Wants, Svc, NotBlind
  <2>4. ASSUME Unexcused(p)', NEW i \in Doomed(p)' PROVE i \in found'[p] /\ i.place = "bin"
    <3>1. i \in Doomed(p) /\ i \in Named(Svc(p))
      BY <1>1, <2>1 DEF Doomed, Svc, Named
    <3>2. i.place = "bin" /\ "bin" \notin Places(found[p])
      BY <1>t, <1>1, <2>3, <2>4, <3>1 DEF KnowsWhere
    <3>3. i.place \in Moved(p)
      BY <3>1, <3>2 DEF Moved, Places
    <3> QED BY <2>2, <3>1, <3>2, <3>3
  <2>5. KnowsWhere(p)'
    BY <2>1, <2>4 DEF KnowsWhere
  <2> QED BY <1>1, <1>2, <1>5, <2>5, GoingFinishes DEF Purging
<1> QED BY <1>3, <1>4, <1>5 DEF KpSearchAgain

LEMMA KpPurgeFinishes ==
    ASSUME WalletSound, Thorough, NEW p \in Shells, KpPurge(p)
    PROVE  Finishes(p)
<1>t. /\ at \in [Shells -> Steps] /\ found \in [Shells -> SUBSET Item] /\ blind \in [Shells -> BOOLEAN]
      /\ KnowsWhere(p) /\ EmptiesIt(p) /\ OursInPlace /\ items \in SUBSET Item /\ IdsAreOwn
      /\ OpFits(at[p], call[p].op)
  BY AtWork DEF WalletSound, WalletTypes, JobTypes, ItemTypes, FlagTypes, Thorough
<1>0. at[p] = "kp_purge"
  BY DEF KpPurge
<1> PICK s : s = Svc(p)
  OBVIOUS
<1>d. Wants(p, "delete") /\ s \in Services
  BY <1>t, <1>0, AtWork DEF OpFits, Deleting, Wants
<1>k. kind # "bitwarden"
  BY <1>0, AtWork DEF KindFits, KpSteps
<1>w. Traced /\ crowded \subseteq crowded' /\ (Ours(s) = {} => Ours(s)' = {})
  BY <1>d, KpPurgeWorks, WorkIsTraced, WorkKeepsItems DEF Worked, Noted, Wants
<1>1. CASE found[p] = {} /\ items' = items /\ Return(p, "ok") /\ NotBlind
  <2>1. OnlyBinned
    BY <1>1, NotBinned
  <2>2. ~blind'[p] /\ ~BinHeldOne(p) /\ Svc(p) \notin crowded => Unexcused(p)
    BY <1>1, <1>d DEF NotBlind, Unexcused
  <2>3. Unexcused(p) => Doomed(p) = {}
    BY <1>t, <1>0, <1>1 DEF KnowsWhere
  <2>4. Left(p) = Doomed(p)
    BY <1>1 DEF Left, Doomed
  <2> QED BY <1>1, <2>1, <2>2, <2>3, <2>4, EndFinishes
<1>2. ASSUME NEW i \in found[p], NEW still, still = {j \in items : j.id = i.id},
             found' = [found EXCEPT ![p] = @ \ {i}], items' \in {items, items \ still, ToBin(still)},
             \/ Goes(p, "kp_purge") /\ NotBlind /\ (i.place = "bin" => items' = items \ still)
             \/ Goes(p, "kp_purge") /\ TakenForMiss(p, TRUE)
             \/ Return(p, "error") /\ NotBlind
      PROVE  Finishes(p)
  <2>1. \A j \in still : j \in items /\ j.id = i.id /\ j.svc = s
    BY <1>t, <1>0, <1>2, <1>k DEF IdsAreOwn, SameThing
  <2>2. ASSUME items' = ToBin(still), NEW k \in items'
        PROVE  /\ k.mine => k.place # "elsewhere"
               /\ k \in items \/ k.svc = s
    <3>1. CASE k \in items
      BY <1>t, <3>1 DEF OursInPlace
    <3>2. CASE \E j \in still : k = [j EXCEPT !.place = "bin"]
      BY <1>t, <2>1, <3>2 DEF Item
    <3> QED BY <2>2, <3>1, <3>2 DEF ToBin
  <2>3. OnlyBinned
    <3>1. CASE items' = items
      BY <3>1, NotBinned
    <3>2. CASE items' = items \ still
      BY <1>t, <3>2 DEF OnlyBinned, OursInPlace, InTheBin
    <3>3. CASE items' = ToBin(still)
      <4>1. OursInPlace'
        BY <2>2, <3>3 DEF OursInPlace
      <4>2. \A k \in items' : k.place = "bin" => InTheBin(k.svc) \/ k.svc = s
        BY <2>2, <3>3 DEF InTheBin
      <4>3. s \in crowded' \/ Ours(s)' = {}
        BY <1>t, <1>0, <1>w DEF EmptiesIt, Purging
      <4> QED BY <4>1, <4>2, <4>3 DEF OnlyBinned
    <3> QED BY <1>2, <3>1, <3>2, <3>3
  <2>4. CASE Return(p, "error") /\ NotBlind
    BY <2>3, <2>4, EndFinishes
  <2>5. CASE Goes(p, "kp_purge") /\ TakenForMiss(p, TRUE)
    <3>1. blind'[p]
      BY <1>t, <2>5, BlindnessGrows
    <3>2. KnowsWhere(p)'
      BY <3>1 DEF KnowsWhere, Unexcused
    <3> QED BY <1>0, <2>3, <2>5, <3>2, GoingFinishes DEF Purging
  <2>6. CASE Goes(p, "kp_purge") /\ NotBlind /\ (i.place = "bin" => items' = items \ still)
    <3>1. at'[p] = "kp_purge" /\ UNCHANGED <<call, before, blind>>
      BY <1>t, <2>6 DEF Goes, NotBlind
    <3>2. Unexcused(p)' => Unexcused(p)
      BY <2>6, <3>1 DEF Unexcused, BinHeldOne, Wants, Svc, NotBlind
    <3>3. found'[p] = found[p] \ {i}
      BY <1>t, <1>2
    <3>4. ASSUME Unexcused(p)', NEW k \in Doomed(p)'
          PROVE  \E j \in found'[p] : j.id = k.id /\ j.place = "bin"
      <4>1. PICK d \in Doomed(p) : d.id = k.id
        BY <1>w, <3>1, DoomedDwindle
      <4>2. PICK j \in found[p] : j.id = k.id /\ j.place = "bin"
        BY <1>t, <1>0, <3>2, <3>4, <4>1 DEF KnowsWhere
      <4>3. j # i
        <5> SUFFICES ASSUME j = i PROVE FALSE
          OBVIOUS
        <5>1. items' = items \ still
          BY <2>6, <4>2
        <5>2. k \in items'
          BY <3>4 DEF Doomed
        <5> QED BY <1>2, <4>2, <5>1, <5>2
      <4> QED BY <3>3, <4>2, <4>3
    <3>5. KnowsWhere(p)'
      BY <3>1, <3>4 DEF KnowsWhere
    <3> QED BY <1>0, <2>3, <2>6, <3>5, GoingFinishes DEF Purging
  <2> QED BY <1>2, <2>4, <2>5, <2>6
<1>3. \/ found[p] = {} /\ items' = items /\ Return(p, "ok") /\ NotBlind
      \/ \E i \in found[p] : \E still :
           /\ still = {j \in items : j.id = i.id}
           /\ found' = [found EXCEPT ![p] = @ \ {i}] /\ items' \in {items, items \ still, ToBin(still)}
           /\ \/ Goes(p, "kp_purge") /\ NotBlind /\ (i.place = "bin" => items' = items \ still)
              \/ Goes(p, "kp_purge") /\ TakenForMiss(p, TRUE)
              \/ Return(p, "error") /\ NotBlind
  BY DEF KpPurge
<1> QED BY <1>1, <1>2, <1>3

LEMMA KeePassXCCLIFinishes ==
    ASSUME WalletSound, Thorough, NEW p \in Shells, KeePassXCCLI(p)
    PROVE  Finishes(p)
<1>t. /\ OpFits(at[p], call[p].op) /\ KindFits(at[p]) /\ items \in SUBSET Item
  BY AtWork
<1>0. Worked(p)
  BY KeePassXCCLIWorks
<1>1. CASE KpUnlock(p)
  <2>1. NotBlind /\ (Return(p, "error") \/ Goes(p, KpFirst(call[p].op))) /\ items' = items
    BY <1>1 DEF KpUnlock
  <2>2. OnlyBinned
    BY <2>1, NotBinned
  <2>3. KpFirst(call[p].op) \notin Telling \cup Purging
    BY DEF KpFirst, Telling, Purging
  <2> QED BY <2>1, <2>2, <2>3, EndFinishes, GoingFinishes
<1>2. CASE KpShow(p) \/ KpList(p)
  <2>1. items' = items /\ at[p] \in {"kp_show", "kp_ls"}
    BY <1>2 DEF KpShow, KpList, Lists
  <2>2. ~Wants(p, "delete")
    BY <1>t, <2>1 DEF OpFits, Wants
  <2> QED BY <1>0, <2>1, <2>2, NotBinned, OthersFinish
<1>3. CASE KpAdd(p) \/ KpEdit(p)
  <2>1. /\ at[p] \in {"kp_add", "kp_edit"}
        /\ items' \in {items, Overwritten(p, InVault(Svc(p)))} \/ (Free # {} /\ items' = Created(p))
    BY <1>3 DEF KpAdd, KpEdit, Changes
  <2>2. Wants(p, "store") /\ ~Wants(p, "delete")
    BY <1>t, <2>1 DEF OpFits, Storing, Wants
  <2> QED BY <1>0, <2>1, <2>2, NotBinned, OthersFinish
<1>4. CASE KpSearch(p) \/ KpRm(p) \/ KpSearchAgain(p) \/ KpPurge(p)
  BY <1>4, KpSearchFinishes, KpRmFinishes, KpSearchAgainFinishes, KpPurgeFinishes
<1> QED BY <1>1, <1>2, <1>3, <1>4 DEF KeePassXCCLI

LEMMA CommandsAreThorough ==
    ASSUME WalletSound, Thorough, NEW p \in Shells, AtTheStore(p)
    PROVE  Thorough' /\ Finishes(p)
<1>1. Finishes(p)
  BY OnePasswordFinishes, BitwardenFinishes, OneCallFinishes, KeePassXCCLIFinishes DEF AtTheStore
<1>2. Worked(p)
  BY OnePasswordWorks, BitwardenWorks, SecretToolWorks, CredentialManagerWorks, KeychainWorks,
     KeePassXCCLIWorks DEF AtTheStore
<1> QED BY <1>1, <1>2, WorkStaysThorough

(* What is not a command: nobody is told anything.                         *)
LEMMA OutsideStaysThorough ==
    ASSUME WalletSound, Thorough, UNCHANGED <<kind, job, own, before, blind>>, Traced, OnlyBinned, StayEmpty,
           crowded \subseteq crowded'
    PROVE  Thorough' /\ UNCHANGED answer
<1>1. UNCHANGED <<call, at, found, answer, dbpass>>
  BY DEF job, own
<1>2. \A q \in Shells : EmptiesIt(q)' /\ BinIsAll(q)' /\ KnowsWhere(q)'
  BY <1>1, IdleStillKnows
<1> QED BY <1>1, <1>2 DEF Thorough, OnlyBinned

LEMMA LandsIsThorough ==
    ASSUME WalletSound, Careful, Thorough, NEW e \in late, Lands(e)
    PROVE  Thorough' /\ UNCHANGED answer
<1>t. /\ items \in SUBSET Item /\ e \in Effects /\ OursInPlace
      /\ e.does # "delete" => e.secret \in Secrets
  BY DEF WalletSound, WalletTypes, ItemTypes, JobTypes, JobsFit, EffectsFit, Thorough
<1> DEFINE there == InVault(e.svc)
           new == [NewItem(e.svc, e.secret) EXCEPT !.secret = e.secret]
           Over(i) == [i EXCEPT !.secret = e.secret]
           over == (items \ there) \cup {Over(i) : i \in there}
<1>1. /\ UNCHANGED <<kind, job, own, before, blind>> /\ crowded' = crowded \cup {e.svc}
      /\ \/ items' = items \ there
         \/ e.does # "delete" /\ Free # {} /\ items' = items \cup {new}
         \/ items' = items
         \/ e.does # "delete" /\ items' = over
  BY <1>t DEF Lands, Effects, Same
<1>2. \A i \in items' : i \in items \/ (i.svc = e.svc /\ i.place = "vault")
  <2>1. ASSUME e.does # "delete", Free # {} PROVE new.svc = e.svc /\ new.place = "vault"
    <3>1. /\ NewItem(e.svc, e.secret) \in Item /\ NewItem(e.svc, e.secret).svc = e.svc
          /\ NewItem(e.svc, e.secret).place = "vault"
      BY <1>t, <2>1, NewItemIsNew DEF Effects, IsNew
    <3> QED BY <3>1 DEF Item
  <2>2. ASSUME NEW i \in there PROVE Over(i).svc = e.svc /\ Over(i).place = "vault"
    BY <1>t, <2>2 DEF InVault, Named, Item
  <2> HIDE DEF new, there, Over
  <2>3. CASE e.does # "delete" /\ items' = over
    BY <2>2, <2>3
  <2>4. CASE e.does # "delete" /\ Free # {} /\ items' = items \cup {new}
    BY <2>1, <2>4
  <2>5. CASE items' = items \ there \/ items' = items
    BY <2>5
  <2> QED BY <1>1, <2>3, <2>4, <2>5
<1>3. OnlyBinned
  BY <1>t, <1>2 DEF OnlyBinned, OursInPlace, InTheBin
<1>4. StayEmpty
  <2> SUFFICES ASSUME NEW s \in Services, Ours(s) = {}, s # e.svc PROVE Ours(s)' = {}
    BY <1>1 DEF StayEmpty
  <2> QED BY <1>2 DEF Ours, InVault, Named
<1>5. Traced
  BY LandsIsTraced
<1> QED BY <1>1, <1>3, <1>4, <1>5, OutsideStaysThorough

LEMMA UserIsThorough ==
    ASSUME WalletSound, Thorough,
           \/ \E s \in Services \cup {Foreign}, x \in Secrets : UserAdds(s, x)
           \/ \E i \in items : UserRemoves(i)
    PROVE  Thorough' /\ UNCHANGED answer
<1>t. items \in SUBSET Item /\ OursInPlace /\ OneOfAName /\ VaultsAreOurs
  BY DEF WalletSound, WalletTypes, ItemTypes, Thorough
<1>0. UNCHANGED <<kind, job, own, before, blind>> /\ crowded \subseteq crowded'
  BY DEF UserAdds, UserRemoves, history
<1>1. Traced
  BY UserIsTraced
<1>2. CASE \E s \in Services \cup {Foreign}, x \in Secrets : UserAdds(s, x)
  <2>1. PICK s \in Services \cup {Foreign}, x \in Secrets : UserAdds(s, x)
    BY <1>2
  <2> DEFINE n == [NewItem(s, x) EXCEPT !.mine = s \in Services /\ ~Marks,
                                        !.place = IF kind = "keepassxc-cli" THEN "elsewhere" ELSE "vault"]
  <2>2. Free # {} /\ items' = items \cup {n}
    BY <2>1 DEF UserAdds
  <2>3. NewItem(s, x) \in Item
    BY <2>2, NewItemIsNew DEF IsNew
  <2>4. n.place # "bin" /\ (n.mine => n.place = "vault" /\ s \in Services /\ ~Marks) /\ n.svc = s
    BY <2>2, <2>3, NewItemIsNew DEF Item, Marks, IsNew
  <2> HIDE DEF n
  <2>5. OnlyBinned
    BY <1>t, <2>2, <2>4 DEF OnlyBinned, OursInPlace, InTheBin
  <2>6. StayEmpty
    <3> SUFFICES ASSUME NEW q \in Shells, NEW r \in Services, r = Svc(q), Ours(r) = {}
                 PROVE  Ours(r)' = {} \/ r \in crowded'
      BY DEF StayEmpty
    <3>1. CASE n.mine /\ s = r
      BY <2>1, <2>4, <3>1 DEF UserAdds
    <3>2. CASE ~(n.mine /\ s = r)
      BY <2>2, <2>4, <3>2 DEF Ours, InVault, Named
    <3> QED BY <3>1, <3>2
  <2> QED BY <1>0, <1>1, <2>5, <2>6, OutsideStaysThorough
<1>3. CASE \E i \in items : UserRemoves(i)
  <2>1. PICK i \in items : UserRemoves(i)
    BY <1>3
  <2>2. items' = items \ {i} \/ (items' = ToBin({i}) /\ kind = "keepassxc-cli" /\ i.place = "vault")
    BY <2>1 DEF UserRemoves
  <2>3. CASE items' = items \ {i}
    <3>1. OnlyBinned
      BY <1>t, <2>3 DEF OnlyBinned, OursInPlace, InTheBin
    <3>2. StayEmpty
      BY <2>3 DEF StayEmpty, Ours, InVault, Named
    <3> QED BY <1>0, <1>1, <3>1, <3>2, OutsideStaysThorough
  <2>4. CASE items' = ToBin({i}) /\ kind = "keepassxc-cli" /\ i.place = "vault"
    <3> DEFINE b == [i EXCEPT !.place = "bin"]
    <3>1. items' = (items \ {i}) \cup {b} /\ b.svc = i.svc /\ b.place = "bin"
      BY <1>t, <2>1, <2>4 DEF ToBin, Item
    <3> HIDE DEF b
    <3>2. i.mine
      BY <1>t, <2>1, <2>4 DEF VaultsAreOurs, ItsPlace
    <3>3. \A s \in Services : s = i.svc => s \in crowded \/ Ours(s)' = {}
      <4> SUFFICES ASSUME NEW s \in Services, s = i.svc, s \notin crowded, NEW k \in Ours(s)' PROVE FALSE
        OBVIOUS
      <4>1. k \in items' /\ k.svc = s /\ k.place = "vault" /\ k.mine
        BY DEF Ours, InVault, Named
      <4>2. k \in items /\ k # i
        BY <3>1, <4>1
      <4>3. k \in Ours(s) /\ i \in Ours(s)
        BY <2>1, <2>4, <3>2, <4>1, <4>2 DEF Ours, InVault, Named
      <4> QED BY <1>t, <4>2, <4>3 DEF OneOfAName
    <3>4. OnlyBinned
      <4>1. OursInPlace'
        BY <1>t, <3>1 DEF OursInPlace
      <4>2. \A k \in items' : k.place = "bin" => InTheBin(k.svc) \/ k.svc = i.svc
        BY <3>1 DEF InTheBin
      <4> QED BY <1>0, <3>3, <4>1, <4>2 DEF OnlyBinned
    <3>5. StayEmpty
      BY <3>1 DEF StayEmpty, Ours, InVault, Named
    <3> QED BY <1>0, <1>1, <3>4, <3>5, OutsideStaysThorough
  <2> QED BY <2>2, <2>3, <2>4
<1> QED BY <1>2, <1>3

LEMMA CallerIsThorough ==
    ASSUME WalletSound, Thorough, NEW p \in Shells,
           \/ \E op \in Ops : \E s, x : Calls(p, op, s, x)
           \/ BwLock(p) \/ HoldsOpen(p) \/ LetsGo(p) \/ WalletKilled(p)
    PROVE  Thorough' /\ answer' \in {answer, [answer EXCEPT ![p] = "none"]}
<1>t. /\ call \in [Shells -> CallTypes] /\ at \in [Shells -> Steps]
      /\ found \in [Shells -> SUBSET Item] /\ before \in [Shells -> SUBSET Item]
      /\ items \in SUBSET Item /\ IdsAreOwn /\ CallFits(p) /\ OursInPlace
      /\ blind \in [Shells -> BOOLEAN] /\ dbpass \in [Shells -> {"unasked", "right", "wrong"}]
  BY DEF WalletSound, WalletTypes, JobTypes, ItemTypes, FlagTypes, PasswordTypes, JobsFit, Thorough
<1>1. items' = items /\ UNCHANGED kind /\ crowded \subseteq crowded'
  BY DEF Calls, BwLock, HoldsOpen, LetsGo, WalletKilled, Same, history
<1>2. /\ at' = at \/ \E step : at' = [at EXCEPT ![p] = step]
      /\ call' = call \/ \E c : call' = [call EXCEPT ![p] = c]
      /\ found' = found \/ \E w : found' = [found EXCEPT ![p] = w]
      /\ before' = before \/ \E w : before' = [before EXCEPT ![p] = w]
      /\ dbpass' = dbpass \/ \E w : dbpass' = [dbpass EXCEPT ![p] = w]
      /\ answer' \in {answer, [answer EXCEPT ![p] = "none"]}
  BY DEF Calls, BwLock, HoldsOpen, LetsGo, WalletKilled, job, own, history
<1>3. blind' = blind \/ blind' = [blind EXCEPT ![p] = FALSE]
  BY DEF Calls, BwLock, HoldsOpen, LetsGo, WalletKilled, history
<1>4. \A q \in Shells \ {p} : blind'[q] = blind[q]
  BY <1>t, <1>3, Zenon
<1>5. \A q \in Shells \ {p} :
        /\ before'[q] = before[q] /\ at'[q] = at[q] /\ call'[q] = call[q] /\ found'[q] = found[q]
        /\ dbpass'[q] = dbpass[q]
  BY <1>t, <1>2
<1>6. Traced /\ StayEmpty
  BY <1>1 DEF Traced, Was, StayEmpty, Ours, InVault, Named
<1>7. OnlyBinned
  BY <1>1, NotBinned
<1>8. \A q \in Shells \ {p} : EmptiesIt(q)' /\ BinIsAll(q)' /\ KnowsWhere(q)'
  BY <1>1, <1>4, <1>5, <1>6, <1>7, IdleStillKnows
<1>9. EmptiesIt(p)' /\ BinIsAll(p)' /\ KnowsWhere(p)'
  <2>1. CASE \E op \in Ops : \E s, x : Calls(p, op, s, x)
    <3>1. PICK op \in Ops : at' = [at EXCEPT ![p] = First(p, op)]
      BY <2>1 DEF Calls
    <3>2. at'[p] \notin Telling /\ at'[p] \notin Purging
      BY <1>t, <3>1 DEF First, OpFirst, BwFirst, KpFirst, Ops, Telling, Purging
    <3>3. before'[p] = items
      BY <1>t, <2>1 DEF Calls
    <3>4. ~BinHeldOne(p)' => ~\E i \in items' : i.svc = call'[p].svc /\ i.place = "bin"
      BY <1>1, <3>3 DEF BinHeldOne, Svc
    <3>5. BinIsAll(p)'
      BY <3>4 DEF BinIsAll, Unexcused, InTheBin, Svc
    <3> QED BY <3>2, <3>5 DEF EmptiesIt, KnowsWhere, Telling
  <2>2. CASE BwLock(p) \/ HoldsOpen(p) \/ LetsGo(p) \/ WalletKilled(p)
    <3>1. call'[p] = NoCall /\ at'[p] = "idle"
      <4>1. CASE BwLock(p)
        BY <1>t, <4>1 DEF BwLock, CallFits
      <4>2. CASE HoldsOpen(p) \/ LetsGo(p)
        BY <1>t, <4>2 DEF HoldsOpen, LetsGo, Busy, job, CallFits
      <4>3. CASE WalletKilled(p)
        BY <1>t, <4>3 DEF WalletKilled
      <4> QED BY <2>2, <4>1, <4>2, <4>3
    <3>2. ~Unexcused(p)'
      BY <3>1 DEF Unexcused, Wants, NoCall
    <3> QED BY <3>1, <3>2 DEF EmptiesIt, BinIsAll, KnowsWhere, Purging
  <2> QED BY <2>1, <2>2
<1> QED BY <1>2, <1>7, <1>8, <1>9 DEF Thorough, OnlyBinned

LEMMA InitThorough == WalletsInit => Thorough
<1> SUFFICES ASSUME WalletsInit PROVE Thorough
  OBVIOUS
<1>1. items = {} /\ \A p \in Shells : at[p] = "idle" /\ call[p] = NoCall
  BY DEF WalletsInit
<1> QED BY <1>1 DEF Thorough, OursInPlace, EmptiesIt, BinIsAll, KnowsWhere, Unexcused, Wants, NoCall, Purging

(* What a step says is forgotten: each step, by whose it is.               *)
Gone ==
  \A p \in Shells :
    Ends(p, "delete", "ok") /\ ~blind'[p] /\ ~BinHeldOne(p) /\ Svc(p) \notin crowded => Left(p) = {}

LEMMA SilentForgetsNobody ==
    ASSUME WalletSound, NEW p \in Shells, answer' \in {answer, [answer EXCEPT ![p] = "none"]}
    PROVE  Gone
<1>1. answer \in [Shells -> Answers]
  BY DEF WalletSound, WalletTypes, JobTypes
<1>2. \A q \in Shells : answer'[q] \in {answer[q], "none"}
  BY <1>1
<1> QED BY <1>2 DEF Gone, Ends

(* Bitwarden's edit or deletion of an item of another name: no item takes  *)
(* a name that somebody is forgetting without that being noticed.          *)
LEMMA TakesAnotherForgets ==
    ASSUME WalletSound, Thorough, NEW p \in Shells, BwTakesAnother(p)
    PROVE  Thorough' /\ Gone
<1>t. /\ at \in [Shells -> Steps] /\ call \in [Shells -> CallTypes] /\ answer \in [Shells -> Answers]
      /\ before \in [Shells -> SUBSET Item] /\ blind \in [Shells -> BOOLEAN]
  BY DEF WalletSound, WalletTypes, JobTypes, ItemTypes, FlagTypes
<1>1. PICK i \in items, ans \in {"ok", "error"} : Taken1(p, i, ans)
  BY TakesOne
<1>2. /\ kind = "bitwarden" /\ kind' = kind /\ WalletSound' /\ found' = found
      /\ blind'[p] /\ (\A q \in Shells \ {p} : blind'[q] = blind[q]) /\ crowded' = crowded \cup {Svc(p)}
  <2>1. blind' = [blind EXCEPT ![p] = TRUE]
    BY TakesOne
  <2>2. blind'[p] /\ \A q \in Shells \ {p} : blind'[q] = blind[q]
    BY <1>t, <2>1, Zenon
  <2> QED BY <1>1, <2>2, TakenItems, TakesOne, TakesAnotherStands DEF Same
<1>3. /\ at'[p] \in {"idle", "bw_lock"} /\ call'[p] = NoCall
      /\ \A q \in Shells \ {p} :
           at'[q] = at[q] /\ call'[q] = call[q] /\ before'[q] = before[q] /\ answer'[q] = answer[q]
  BY <1>t, <1>1 DEF Taken1, Says
<1>4. \A k \in items' : k \in items \/ k.svc = Svc(p)
  BY <1>1, TakenItems
<1>5. /\ \A k \in items' : k.place = "vault"
      /\ \A q \in Shells : at'[q] \notin Purging /\ at'[q] # "kp_rm"
  BY <1>2 DEF WalletSound, VaultsAreOurs, ItsPlace, JobsFit, KindFits, KpSteps, Purging
<1>6. OursInPlace' /\ \A q \in Shells : EmptiesIt(q)' /\ BinIsAll(q)'
  BY <1>5 DEF OursInPlace, EmptiesIt, BinIsAll, InTheBin
<1>7. ASSUME NEW q \in Shells PROVE KnowsWhere(q)'
  <2>1. CASE q = p
    BY <1>3, <2>1 DEF KnowsWhere, Unexcused, Wants, NoCall
  <2>2. CASE q # p
    <3> SUFFICES ASSUME Unexcused(q)', at'[q] = "bw_delete", NEW k \in Doomed(q)'
                 PROVE  \E j \in found'[q] : j.id = k.id
      BY <1>5 DEF KnowsWhere, Purging
    <3>1. Unexcused(q) /\ Svc(q) # Svc(p)
      BY <1>2, <1>3, <2>2 DEF Unexcused, BinHeldOne, Wants, Svc
    <3>2. k \in Doomed(q)
      BY <1>3, <1>4, <2>2, <3>1 DEF Doomed, Svc
    <3> QED BY <1>2, <1>3, <2>2, <3>1, <3>2 DEF Thorough, KnowsWhere
  <2> QED BY <2>1, <2>2
<1>8. Gone
  BY <1>2, <1>3 DEF Gone, Ends
<1> QED BY <1>6, <1>7, <1>8 DEF Thorough

LEMMA ShellForgets ==
    ASSUME WalletSound, Thorough, NEW p \in Shells,
           \/ \E s \in Services : Calls(p, "lookup", s, None) \/ Calls(p, "delete", s, None)
           \/ \E s \in Services, x \in Secrets : Calls(p, "store", s, x)
           \/ Calls(p, "list", Foreign, None)
           \/ OnePassword(p) \/ Bitwarden(p) \/ SecretTool(p) \/ CredentialManager(p)
           \/ Keychain(p) \/ KeePassXCCLI(p) \/ WalletKilled(p)
    PROVE  Thorough' /\ Gone
<1>1. CASE AtTheStore(p)
  <2>1. Thorough' /\ Finishes(p)
    BY <1>1, CommandsAreThorough
  <2>2. Worked(p)
    BY <1>1, OnePasswordWorks, BitwardenWorks, SecretToolWorks, CredentialManagerWorks, KeychainWorks,
       KeePassXCCLIWorks DEF AtTheStore
  <2>3. \A q \in Shells \ {p} : answer'[q] = answer[q]
    BY <2>2 DEF Worked, WentOn, Goes, Returned, ReturnWith, Says, Owed, WalletSound, WalletTypes, JobTypes
  <2>4. \A q \in Shells \ {p} : ~Ends(q, "delete", "ok")
    BY <2>3 DEF Ends
  <2> QED BY <2>1, <2>4 DEF Finishes, Gone
<1>2. CASE \/ \E op \in Ops : \E s, x : Calls(p, op, s, x)
           \/ BwLock(p) \/ HoldsOpen(p) \/ LetsGo(p) \/ WalletKilled(p)
  <2>1. Thorough' /\ answer' \in {answer, [answer EXCEPT ![p] = "none"]}
    BY <1>2, CallerIsThorough
  <2>2. Gone
    BY <2>1, SilentForgetsNobody
  <2> QED BY <2>1, <2>2
<1>3. CASE \E s \in Services : Calls(p, "lookup", s, None) \/ Calls(p, "delete", s, None)
  <2>1. \E op \in Ops : \E s, x : Calls(p, op, s, x)
    BY <1>3 DEF Ops
  <2> QED BY <1>2, <2>1
<1>4. CASE \E s \in Services, x \in Secrets : Calls(p, "store", s, x)
  <2>1. \E op \in Ops : \E s, x : Calls(p, op, s, x)
    BY <1>4 DEF Ops
  <2> QED BY <1>2, <2>1
<1>5. CASE Calls(p, "list", Foreign, None)
  <2>1. \E op \in Ops : \E s, x : Calls(p, op, s, x)
    BY <1>5 DEF Ops
  <2> QED BY <1>2, <2>1
<1>6. CASE Bitwarden(p)
  <2>1. BwWork(p) \/ BwLock(p) \/ HoldsOpen(p) \/ LetsGo(p) \/ BwTakesAnother(p)
    BY <1>6 DEF Bitwarden, BwWork
  <2> QED BY <1>1, <1>2, <2>1, TakesAnotherForgets DEF AtTheStore
<1>7. CASE OnePassword(p) \/ SecretTool(p) \/ CredentialManager(p) \/ Keychain(p) \/ KeePassXCCLI(p)
  BY <1>1, <1>7 DEF AtTheStore
<1> QED BY <1>2, <1>3, <1>4, <1>5, <1>6, <1>7

LEMMA StepForgets == WalletSound /\ Careful /\ Thorough /\ WalletsNext => Thorough' /\ Gone
<1> SUFFICES ASSUME WalletSound, Careful, Thorough, WalletsNext PROVE Thorough' /\ Gone
  OBVIOUS
<1>1. CASE \E p \in Shells :
             \/ \E s \in Services : Calls(p, "lookup", s, None) \/ Calls(p, "delete", s, None)
             \/ \E s \in Services, x \in Secrets : Calls(p, "store", s, x)
             \/ Calls(p, "list", Foreign, None)
             \/ OnePassword(p) \/ Bitwarden(p) \/ SecretTool(p) \/ CredentialManager(p)
             \/ Keychain(p) \/ KeePassXCCLI(p) \/ WalletKilled(p)
  BY <1>1, ShellForgets
<1>2. ASSUME Thorough' /\ UNCHANGED answer PROVE Thorough' /\ Gone
  BY <1>2 DEF Gone, Ends
<1>3. CASE \E e \in late : Lands(e)
  BY <1>2, <1>3, LandsIsThorough
<1>4. CASE \/ \E s \in Services \cup {Foreign}, x \in Secrets : UserAdds(s, x)
           \/ \E i \in items : UserRemoves(i)
  BY <1>2, <1>4, UserIsThorough
<1> QED BY <1>1, <1>3, <1>4 DEF WalletsNext

LEMMA RestIsThorough == WalletSound /\ Thorough /\ UNCHANGED walletVars => Thorough'
<1> SUFFICES ASSUME WalletSound, Thorough, UNCHANGED walletVars PROVE Thorough'
  OBVIOUS
<1>1. UNCHANGED <<kind, job, own, before, blind, items, crowded>>
  BY DEF walletVars, job, own, history
<1>2. Traced /\ StayEmpty
  BY <1>1 DEF Traced, Was, StayEmpty, Ours, InVault, Named
<1>3. OnlyBinned
  BY <1>1 DEF OnlyBinned, InTheBin, Thorough, OursInPlace
<1> QED BY <1>1, <1>2, <1>3, OutsideStaysThorough

(* ForgottenIsGone: a deletion that answers that the passphrase is          *)
(* forgotten has left no copy of it that was there when it was asked, in    *)
(* the vault, in the bin or anywhere (cli.go:246 and the Delete of each     *)
(* backend), but for the excuses the property names.  The invariant         *)
(* Thorough says where the copies are at each of the commands that may be   *)
(* the last.                                                                *)
THEOREM ForgottenPassphrasesAreGone == WalletsSpec => ForgottenIsGone
<1> DEFINE Told == \A p \in Shells :
                     Ends(p, "delete", "ok") /\ ~blind'[p] /\ ~BinHeldOne(p) /\ Svc(p) \notin crowded
                       => Left(p) = {}
<1>1. WalletSound /\ Careful /\ Thorough /\ [WalletsNext]_walletVars => WalletSound' /\ Careful' /\ Thorough'
  BY NextWallets, StepSpares, RestIsCareful, StepForgets, RestIsThorough
<1>2. WalletSound /\ Careful /\ Thorough /\ [WalletsNext]_walletVars => [Told]_walletVars
  <2>1. WalletSound /\ Careful /\ Thorough /\ WalletsNext => Told
    BY StepForgets DEF Gone
  <2> QED BY <2>1
<1>3. WalletsInit => WalletSound /\ Careful /\ Thorough
  BY InitWallets, InitCareful, InitThorough
<1> QED BY <1>1, <1>2, <1>3, PTL DEF WalletsSpec, ForgottenIsGone

-----------------------------------------------------------------------------
(* The three beside each other, as TLC runs them.                          *)
THEOREM StoresTypes == StoresSpec => []StoresTypeOK
<1> DEFINE Sound == WalletSound /\ ServiceSound /\ PromptsTypeOK /\ PromptsSound
<1>1. StoresInit => Sound
  BY InitWallets, InitService, InitPrompts DEF StoresInit
<1>2. Sound /\ [StoresNext]_storesVars => Sound'
  <2> SUFFICES ASSUME Sound, [StoresNext]_storesVars PROVE Sound'
    OBVIOUS
  <2>1. [WalletsNext]_walletVars /\ [SecretServiceNext]_ssVars /\ [PromptsNext]_prVars
    BY DEF StoresNext, storesVars
  <2> QED BY <2>1, NextWallets, NextService, NextPrompts
<1>3. Sound => StoresTypeOK
  BY WalletsTyped, ServiceTyped DEF WalletSound, StoresTypeOK
<1> QED BY <1>1, <1>2, <1>3, PTL DEF StoresSpec
=============================================================================
