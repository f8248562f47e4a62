----------------------------- MODULE WalletKept -----------------------------
(***************************************************************************)
(* The inductive invariant of WalletFiles.  What a file may hold, what     *)
(* each thread may have left to do, and what comes of a file once a thread *)
(* has done it: the settings, the entries of coins.json, and the choices   *)
(* of the session's wallet.  WalletData_proofs proves it.                  *)
(***************************************************************************)
EXTENDS WalletFiles, Integers

\* A list of steps, whatever they are.
IsList(q) == q \in Seq({q[i] : i \in DOMAIN q})

\* The counts in a coins.json.
Counts == [Custom -> Nat]
HasEntry(raw, c) == raw \in Counts /\ raw[c] > 0

\* What file f may hold, as far as the invariant tells files apart.
Holds(f, v) ==
    /\ f = RawFile => v \in Counts \cup Bad
    /\ f = CfgFile => v \in Settings \cup Bad
    /\ \A w \in Wallet : /\ f = OldFile(w) => v \in OldCoins \cup Bad
                         /\ f = CoinsFile(w) => v \in Coins \cup Bad
                         /\ f = TokensFile(w) => v \in Tokens \cup Bad

Typed ==
    /\ DOMAIN disk = File /\ \A f \in File : Holds(f, disk[f])
    /\ DOMAIN todo = Thread /\ \A t \in Thread : IsList(todo[t])
    /\ at \in Place /\ init \in {"none", "starting", "done"}
    /\ config \in Settings \cup {None}
    /\ at \notin {"down", "starting"} => config \in Settings
    /\ at \in {"login", "in", "modal"} => owner \in Wallet
    /\ DOMAIN registry \subseteq Coin /\ \A c \in DOMAIN registry : registry[c] \in Entry
    /\ token \in TokenData \cup {None} /\ request \in Custom \cup {None}

\* Steps.
Stores(e) == e.do = "save" /\ e.file \in File /\ Holds(e.file, e.as)
Plain(e) == Stores(e) /\ e.file \notin {RawFile, CfgFile}
Migrates(e) == e.do = "migrate" /\ e.value = owner
Adds(e) == e.do = "add" /\ e.coin \in Custom
Thing(e) ==
    \/ Stores(e) /\ e.file # CfgFile
    \/ Adds(e)
    \/ e.do \in {"del", "untoken"} /\ e.coin \in Custom
    \/ e.do = "token" /\ e.coin \in Custom /\ e.value \in BOOLEAN
    \/ e.do = "status" /\ e.coin \in Coin /\ e.value \in BOOLEAN
    \/ e.do = "deactivate"

\* What is removed from coins.json is in it, and will be until then.
Removals(q) ==
    \A i \in 1..Len(q) : q[i].do = "del" =>
        /\ HasEntry(disk[RawFile], q[i].coin)
        /\ \A j \in 1..(i - 1) : /\ q[j].do \notin {"add", "del"}
                                 /\ q[j].do = "save" => q[j].file # RawFile

StoresCoins(e) == e.do = "save" /\ e.file = CoinsFile(owner) /\ e.as \in Coins
StoresTokens(e) == e.do = "save" /\ e.file = TokensFile(owner) /\ e.as \in Tokens
StoresRaw(e) ==
    /\ e.do = "save" /\ e.file = RawFile /\ e.as \in Counts
    /\ \A c \in Custom : HasEntry(disk[RawFile], c) => e.as[c] > 0
StoresCfg(e) == e.do = "save" /\ e.file = CfgFile /\ e.as = config

\* A status whose coin needs no entry in coins.json, or will have it then in raw.
Switches(e, raw) ==
    /\ e.do = "status" /\ e.coin \in DOMAIN registry /\ e.value \in BOOLEAN
    /\ (e.value /\ e.coin \in Custom /\ registry[e.coin].backup) => HasEntry(raw, e.coin)

Chooses(e) ==
    \/ e.do = "fiat" /\ e.value \in Fiat
    \/ e.do = "currency" /\ e.value \in Fiat \cup Crypto

\* update_coin_status, between its writes.
Updates(q) ==
    \/ Len(q) = 1 /\ (StoresCoins(q[1]) \/ StoresTokens(q[1]))
    \/ Len(q) = 2 /\ StoresCoins(q[1]) /\ StoresTokens(q[2])

PoolList(q) ==
    \/ Len(q) = 0
    \/ Len(q) = 1 /\ q[1].do = "segwit" /\ q[1].value \in BOOLEAN
    \/ Updates(q)

InitList(q) == \A i \in 1..Len(q) : Adds(q[i]) \/ (i = 1 /\ StoresRaw(q[1]))

GuiList(q) ==
    \/ Len(q) = 0
    \/ Updates(q)
    \/ Len(q) = 1 /\ \/ Switches(q[1], disk[RawFile])
                     \/ Chooses(q[1])
                     \/ StoresCfg(q[1])
                     \/ q[1].do = "save" /\ q[1].file = ObjectFile(owner)
    \/ Len(q) = 2 /\ \/ /\ Adds(q[1]) /\ q[2].do = "status" /\ q[2].coin = q[1].coin
                        /\ q[2].coin \in DOMAIN registry /\ q[2].value \in BOOLEAN
                     \/ StoresRaw(q[1]) /\ Switches(q[2], q[1].as)
                     \/ (Chooses(q[1]) \/ StoresCfg(q[1])) /\ Chooses(q[2])

Lists ==
    /\ at = "down" => todo["gui"] = <<>>
    /\ at \in {"starting", "menu"} => \A i \in 1..Len(todo["gui"]) : Plain(todo["gui"][i])
    /\ at = "in" => GuiList(todo["gui"]) /\ InitList(todo["init"])
    /\ at = "modal" => \A i \in 1..Len(todo["gui"]) : Thing(todo["gui"][i])
    /\ at = "modal" => Removals(todo["gui"])
    /\ IF at \in {"in", "modal"} THEN PoolList(todo["pool"]) ELSE todo["pool"] = <<>>
    /\ at # "in" => todo["init"] = <<>>
    /\ (at = "in" /\ init = "starting") => Idle
    /\ todo["init"] # <<>> => todo["gui"] = <<>>

\* The settings.
CfgStored ==
    at \notin {"down", "starting"} =>
        \/ disk[CfgFile] = config
        \/ at = "in" /\ todo["gui"] # <<>> /\ StoresCfg(todo["gui"][1])

\* The entries of coins.json.
Provided(c) ==
    \/ HasEntry(disk[RawFile], c)
    \/ \E i \in 1..Len(todo["init"]) :
          \/ todo["init"][i].do = "add" /\ todo["init"][i].coin = c
          \/ todo["init"][i].do = "save" /\ todo["init"][i].as[c] > 0

RawStored ==
    /\ at \in {"menu", "login", "in"} => \A c \in Custom \cap rawReg : HasEntry(disk[RawFile], c)
    /\ (at = "in" /\ init = "done") =>
          \A c \in Custom \cap Active : registry[c].backup => Provided(c)

\* Login.
Cleared == disk[OldFile(owner)] \in Bad \/ "noRemove" \in risks
RemovesOld(e) == e.do = "save" /\ e.file = OldFile(owner) /\ e.as = Absent
LoginList(q) ==
    \/ /\ Len(q) = 0 /\ disk[CoinsFile(owner)] # Absent
       /\ Cleared \/ disk[CoinsFile(owner)] = Torn
    \/ /\ Len(q) = 1 /\ disk[CoinsFile(owner)] # Absent
       /\ Migrates(q[1]) \/ (StoresCoins(q[1]) /\ Cleared)
    \/ /\ Len(q) = 2
       /\ \/ StoresCoins(q[1]) /\ Migrates(q[2])
          \/ RemovesOld(q[1]) /\ StoresCoins(q[2]) /\ disk[CoinsFile(owner)] # Absent
    \/ /\ Len(q) = 3 /\ disk[CoinsFile(owner)] # Absent
       /\ StoresCoins(q[1]) /\ RemovesOld(q[2]) /\ StoresCoins(q[3])

Upgraded == at = "login" => LoginList(todo["gui"])

\* The status of a custom coin that both files have is not in both.
Agrees(reg, coins, tokens) ==
    /\ DOMAIN reg = DOMAIN coins \cup DOMAIN tokens
    /\ \A c \in DOMAIN coins : reg[c].custom = coins[c].custom
    /\ \A c \in DOMAIN coins \ (CustomIn(coins) \cap DOMAIN tokens) :
          reg[c].active = coins[c].active
    /\ \A c \in DOMAIN tokens \ DOMAIN coins :
          reg[c].custom /\ reg[c].active = tokens[c].active
Agree(coins, tokens) == Agrees(registry, coins, tokens)

AgreeAfter(q) ==
    Agree(IF Len(q) > 0 /\ StoresCoins(q[1]) THEN q[1].as ELSE disk[CoinsFile(owner)],
          IF Len(q) = 1 /\ StoresTokens(q[1]) THEN q[1].as
          ELSE IF Len(q) = 2 /\ StoresCoins(q[1]) THEN q[2].as
          ELSE TokensOf(owner))

RegistryStored ==
    (at = "in" /\ risks \cap {"hasty", "noRemove"} = {}) =>
        /\ disk[CoinsFile(owner)] \in Coins /\ disk[TokensFile(owner)] # Torn
        /\ disk[OldFile(owner)] \in Bad
        /\ \/ todo["pool"] = <<>> /\ AgreeAfter(todo["gui"])
           \/ todo["gui"] = <<>> /\ todo["init"] = <<>> /\ AgreeAfter(todo["pool"])

FilesInv == Typed /\ Lists /\ CfgStored /\ RawStored /\ Upgraded /\ RegistryStored

-----------------------------------------------------------------------------
(* What the choices and the language need besides: what each pending write *)
(* leaves to be read.                                                      *)

ChoiceFile == {"old", "coins", "tokens"} \X Wallet
LanguageFile == {IniFile, OldIniFile}

\* A step that leaves the choices alone.
Aside(e) == e.do = "save" => e.file \notin ChoiceFile

\* The precedent file is open in no step.
Opens(e) == e.do = "save" => \A w \in Wallet : e.open # OldFile(w)

On(tokens, c) == c \in DOMAIN tokens /\ tokens[c].active

\* Writes of a choice, the same one for some coins.
SetsCoins(e) ==
    /\ e.do = "save" /\ e.file = CoinsFile(owner) /\ disk[CoinsFile(owner)] \in Coins
    /\ \E S \in SUBSET Coin, on \in BOOLEAN :
          e.as = Switched(disk[CoinsFile(owner)], S, on)
SetsTokens(e) ==
    /\ e.do = "save" /\ e.file = TokensFile(owner) /\ e.as \in Tokens
    /\ \E S \in SUBSET Coin, on \in BOOLEAN :
          \A c \in Coin : On(e.as, c) = IF c \in S THEN on ELSE On(TokensOf(owner), c)
Sets(q) ==
    \A i \in 1..Len(q) :
        \/ Aside(q[i])
        \/ i = 1 /\ (SetsCoins(q[1]) \/ SetsTokens(q[1]))
        \/ i = 2 /\ SetsTokens(q[2]) /\ q[1].do = "save" /\ q[1].file = CoinsFile(owner)

\* A reset, which switches the tokens off before the official coins go to their defaults.
AllOff(tokens) == \A c \in Coin : ~On(tokens, c)
Resets(q) ==
    \/ /\ Len(q) = 3 /\ q[2] = Delete(CoinsFile(owner)) /\ q[3] = Delete(RawFile)
       /\ q[1].do = "deactivate" \/ (SetsTokens(q[1]) /\ AllOff(q[1].as))
    \/ /\ Len(q) = 2 /\ q[1] = Delete(CoinsFile(owner)) /\ q[2] = Delete(RawFile)
       /\ AllOff(TokensOf(owner))

\* The shipped coins file is copied where it would be read anyway.
Copies(e) ==
    /\ e.do = "save" /\ e.as = Asset
    /\ \E w \in Wallet : e.file = CoinsFile(w) /\ disk[CoinsFile(w)] = Absent

\* An upgrade merges the two files, and once the precedent one is gone, writes the same.
Merged ==
    IF disk[OldFile(owner)] \in Bad THEN disk[CoinsFile(owner)]
    ELSE Merge(disk[OldFile(owner)], disk[CoinsFile(owner)])
Upgrades(q, i) ==
    /\ q[i].do = "save" /\ disk[CoinsFile(owner)] \in Coins
    /\ \/ q[i].file = CoinsFile(owner) /\ q[i].as = Merged
       \/ /\ RemovesOld(q[i]) /\ disk[OldFile(owner)] \in OldCoins
          /\ \/ i = 1 /\ disk[CoinsFile(owner)] = Merged
             \/ /\ i = 2 /\ q[1].do = "save" /\ q[1].file = CoinsFile(owner)
                /\ q[1].as = Merged

ChoicesHeld ==
    /\ \A t \in Thread : \A i \in 1..Len(todo[t]) : Opens(todo[t][i])
    /\ at = "starting" => \A i \in 1..Len(todo["gui"]) : Aside(todo["gui"][i])
    /\ at = "menu" => \A i \in 1..Len(todo["gui"]) :
                          Aside(todo["gui"][i]) \/ (i = 1 /\ Copies(todo["gui"][1]))
    /\ at = "login" => \A i \in 1..Len(todo["gui"]) :
                          \/ Aside(todo["gui"][i]) \/ (i = 1 /\ Copies(todo["gui"][1]))
                          \/ Upgrades(todo["gui"], i)
    /\ at \in {"in", "modal"} => /\ Torn \notin {disk[CoinsFile(owner)], disk[TokensFile(owner)]}
                                 /\ Sets(todo["pool"]) /\ Sets(todo["init"])
    /\ at = "in" => disk[CoinsFile(owner)] # Absent /\ Sets(todo["gui"])
    /\ at = "modal" => Sets(todo["gui"]) \/ Resets(todo["gui"])
    /\ todo["pool"] # <<>> => at = "in" /\ todo["gui"] = <<>> /\ todo["init"] = <<>>

UpgradesLanguage(q) ==
    \/ /\ Len(q) = 0
       /\ disk[IniFile] # Absent \/ disk[OldIniFile] = Absent \/ "noCopy" \in risks
    \/ /\ Len(q) = 1 /\ q[1] = Delete(OldIniFile)
       /\ disk[IniFile] # Absent \/ "noCopy" \in risks
    \/ /\ Len(q) = 2 /\ q[1] = Write(IniFile, disk[OldIniFile]) /\ q[2] = Delete(OldIniFile)
       /\ disk[IniFile] = Absent /\ disk[OldIniFile] # Absent

LanguageHeld ==
    /\ "torn" \notin risks => \A f \in LanguageFile : disk[f] \in Language \cup {Absent}
    /\ at = "starting" => UpgradesLanguage(todo["gui"])
    /\ at # "starting" => \A t \in Thread : \A i \in 1..Len(todo[t]) :
                              todo[t][i].do = "save" => todo[t][i].file \notin LanguageFile

ChoiceInv == budget \in Budget /\ LanguageHeld /\ ("hasty" \notin risks => ChoicesHeld)
=============================================================================
