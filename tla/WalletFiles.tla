---------------------------- MODULE WalletFiles ----------------------------
(***************************************************************************)
(* The files that outlive a run of the program: wallets, the coins each    *)
(* of them has chosen, custom tokens, the coins.json that all wallets and  *)
(* mm2 share, and the settings; and what the program keeps of them in      *)
(* memory.                                                                 *)
(*                                                                         *)
(*   - the GUI thread: startup, the user, restarts;                        *)
(*   - "init", mm2_service's init thread, which enables the active coins;  *)
(*   - "pool", a continuation that stores whether a coin uses segwit.      *)
(*                                                                         *)
(* A thread has a list of steps to do, one file at a time; the program may *)
(* crash between any two of them, or in the middle of a write.             *)
(***************************************************************************)
EXTENDS Wallets, Naturals, Sequences, SequencesExt

CONSTANTS
    Absent,              \* a file that is not there
    Official,            \* the coins of the shipped coins file
    OnByDefault,         \* those of them that are active in it
    Custom,              \* tokens the user may add; others know them, or once knew them
    Qrc,                 \* those that process_qrc_20_token_add adds
    Fiat, Crypto,        \* the currencies that amounts may be shown in
    Shipped,             \* the one of the shipped settings
    Language, English,   \* the languages, and the one a new cfg.ini has
    Standings            \* bound: how things stand, and what may happen

Risk == {"torn",      \* a crash may leave half a file
         "noRemove",  \* the precedent version's file cannot be removed
         "noCopy",    \* the precedent version's cfg.ini cannot be copied
         "throws",    \* an exception in the handling of a token's data
         "hasty"}     \* the user goes on while a switch to segwit is stored
Budget == [user : Nat, settings : Nat, session : Nat, crash : Nat]

\* What the files and the registry say of a coin: active, is_custom_coin, and whether
\* there is a custom_backup, the copy of mm2's entry.
Coin == Official \cup Custom
Entry == [active : BOOLEAN, custom : BOOLEAN, backup : BOOLEAN]

\* A tokens file, which is of no version: it may have a token that is shipped by now.
Tokens == UNION {[S -> {e \in Entry : e.custom}] : S \in SUBSET Coin}

\* The coins file of a version: this one has the shipped coins, and custom ones that came
\* from the precedent version's.  That one may lack a coin, have it as a custom one, or
\* have as a shipped one what is none any more.
OldCoins == UNION {[S -> Entry] : S \in SUBSET Coin}
Coins == {f \in OldCoins : /\ Official \subseteq DOMAIN f
                           /\ \A c \in Custom \cap DOMAIN f : f[c].custom}

Standing == [old : [Wallet -> OldCoins \cup {Absent}], tokens : [Wallet -> Tokens \cup {Absent}],
             seeds : SUBSET Wallet, ini : Language \cup {Absent}, faults : SUBSET Risk,
             left : Budget]

Raws == [Custom -> Nat]
\* sign: the fiat currency whose sign is shown.
Settings == [currency : Fiat \cup Crypto, fiat : Fiat, sign : Fiat]
Whole == "whole"  \* of files of which no more is told apart

Bad == {Absent, Torn}

VARIABLES
    risks, budget, \* what may happen, and what of the budget is left
    disk,          \* the files
    at,            \* where the program is
    config,        \* the settings page's m_config
    owner,         \* m_current_wallet_name
    registry,      \* m_coins_informations
    rawReg,        \* m_mm2_raw_coins_cfg: the custom coins in it
    init,          \* the init thread: before it has read the active coins, or after
    todo,          \* what each thread has yet to do
    token,         \* m_custom_token_data
    request, fetching \* the token asked for; m_fetching_erc_data_busy

filesVars == <<risks, budget, disk, at, config, owner, registry, rawReg, init, todo, token,
               request, fetching>>
tokenVars == <<token, request, fetching>>
sessionVars == <<owner, registry, init>>
memory == <<config, rawReg, sessionVars>>

Thread == {"gui", "init", "pool"}
Place == {"down", "starting", "menu", "login", "in", "modal"}

OldFile(w) == <<"old", w>>      \* the precedent version's coins file
CoinsFile(w) == <<"coins", w>>  \* this version's
TokensFile(w) == <<"tokens", w>>
SeedFile(w) == <<"seed", w>>
ObjectFile(w) == <<"object", w>> \* its name, and the emergency password
RawFile == <<"coins.json">>     \* how often each custom coin is in it
CfgFile == <<"cfg.json">>
IniFile == <<"cfg.ini">>        \* the language, of what QSettings keeps
OldIniFile == <<"old cfg.ini">> \* the precedent version's
File == {"old", "coins", "tokens", "seed", "object"} \X Wallet \cup
        {RawFile, CfgFile, IniFile, OldIniFile}
Content(f) ==
    CASE f[1] = "coins.json" -> Raws \cup {Absent, Torn}
      [] f[1] = "cfg.json" -> Settings \cup {Absent, Torn}
      [] f[1] \in {"cfg.ini", "old cfg.ini"} -> Language \cup {Absent, Torn}
      [] f[1] = "tokens" -> Tokens \cup {Absent, Torn}
      [] f[1] \in {"seed", "object"} -> {Whole, Absent, Torn}
      [] f[1] = "old" -> OldCoins \cup {Absent, Torn}
      [] OTHER -> Coins \cup {Absent, Torn}

ASSUME FilesAssumption ==
    /\ OnByDefault \subseteq Official /\ Qrc \subseteq Custom
    /\ Official \cap Custom = {} /\ IsFiniteSet(Custom)
    /\ Fiat \cap Crypto = {} /\ Shipped \in Fiat /\ English \in Language
    /\ None \notin Wallet \cup Coin \cup File
    /\ Absent # Torn
    /\ Bad \cap OldCoins = {} /\ Bad \cap Tokens = {} /\ Bad \cap Raws = {}
    /\ Bad \cap Settings = {} /\ Bad \cap (Language \cup {Whole}) = {}
    /\ Bad \cap [Coin -> BOOLEAN] = {}
    /\ Standings \subseteq Standing

TokenData == [coin : Custom, adex : BOOLEAN, mm2 : BOOLEAN, backup : BOOLEAN]

\* A write, and the file that is open meanwhile; an edit reads what it writes back.
SaveAs(f, content, open) == [do |-> "save", file |-> f, as |-> content, open |-> open]
Write(f, content) == SaveAs(f, content, f)
Delete(f) == SaveAs(f, Absent, None)
Edit(op, coin, value) == [do |-> op, coin |-> coin, value |-> value]

FilesTypeOK ==
    /\ risks \subseteq Risk /\ budget \in Budget
    /\ DOMAIN disk = File /\ \A f \in File : disk[f] \in Content(f)
    /\ at \in Place /\ config \in Settings \cup {None} /\ owner \in Wallet \cup {None}
    /\ DOMAIN registry \subseteq Coin /\ \A c \in DOMAIN registry : registry[c] \in Entry
    /\ rawReg \subseteq Custom /\ init \in {"none", "starting", "done"}
    /\ DOMAIN todo = Thread
    /\ token \in TokenData \cup {None} /\ request \in Custom \cup {None} /\ fetching \in BOOLEAN

NoCoins == [c \in {} |-> None]

FilesInit ==
    /\ \E s \in Standings :
          /\ risks = s.faults /\ budget = s.left
          /\ disk = [f \in File |->
                CASE f[1] = "old" -> s.old[f[2]]
                  [] f[1] = "tokens" -> s.tokens[f[2]]
                  [] f = OldIniFile -> s.ini
                  [] f[1] \in {"seed", "object"} -> IF f[2] \in s.seeds THEN Whole ELSE Absent
                  [] OTHER -> Absent]
    /\ at = "down" /\ config = None /\ owner = None
    /\ registry = NoCoins /\ rawReg = {} /\ init = "none"
    /\ todo = [t \in Thread |-> <<>>]
    /\ token = None /\ request = None /\ fetching = FALSE

Spend(kind) == budget[kind] > 0 /\ budget' = [budget EXCEPT ![kind] = @ - 1]

Idle == \A t \in Thread : todo[t] = <<>>

-----------------------------------------------------------------------------
(* The process.                                                            *)

\* A file that is not there is copied from the assets.
Supplied(f, asset) == IF disk[f] = Absent THEN asset ELSE disk[f]

\* The custom coins that are in a coins.json; from_json keeps one entry of each coin.
RawRegistry(raw) == {c \in Custom : raw[c] > 0}

\* parse_raw_mm2_coins_file, when the service is created: of a file that cannot be
\* parsed nothing is known.
ParseRaw(files) ==
    LET raw == Supplied(RawFile, [c \in Custom |-> 0])
    IN  /\ disk' = [files EXCEPT ![RawFile] = raw]
        /\ rawReg' = IF raw = Torn THEN {} ELSE RawRegistry(raw)

\* load_cfg.
LoadCfg == Supplied(CfgFile, [currency |-> Shipped, fiat |-> Shipped, sign |-> Shipped])

\* check_settings_reconfiguration: the precedent version's folder is removed also
\* when its cfg.ini could not be copied.
CheckSettings(fails) ==
    IF disk[OldIniFile] = Absent \/ disk[IniFile] # Absent THEN <<>>
    ELSE (IF fails THEN <<>> ELSE <<Write(IniFile, disk[OldIniFile])>>) \o <<Delete(OldIniFile)>>

Launch ==
    /\ at = "down" /\ Spend("session")
    /\ at' = "starting"
    /\ \E fails \in BOOLEAN :
          /\ fails => "noCopy" \in risks
          /\ todo' = [todo EXCEPT !["gui"] = CheckSettings(fails)]
    /\ UNCHANGED <<risks, disk, memory, tokenVars>>

\* handle_settings: what is not in cfg.ini is set to its default.
HandleSettings == IF disk[IniFile] \in Bad THEN English ELSE disk[IniFile]

\* The application: the settings are read, and a cfg.json that is not whole ends it.
Start ==
    /\ at = "starting" /\ todo["gui"] = <<>>
    /\ \/ /\ LoadCfg # Torn
          /\ at' = "menu" /\ config' = LoadCfg
          /\ ParseRaw([disk EXCEPT ![CfgFile] = LoadCfg, ![IniFile] = HandleSettings])
       \/ /\ LoadCfg = Torn
          /\ at' = "down"
          /\ disk' = [disk EXCEPT ![RawFile] = Supplied(RawFile, [c \in Custom |-> 0])]
          /\ UNCHANGED <<config, rawReg>>
    /\ UNCHANGED <<risks, budget, sessionVars, todo, tokenVars>>

\* What the process leaves behind: a file that is being written may be half written.
Ends ==
    /\ at' = "down" /\ config' = None /\ owner' = None
    /\ registry' = NoCoins /\ rawReg' = {} /\ init' = "none"
    /\ todo' = [t \in Thread |-> <<>>]
    /\ token' = None /\ request' = None /\ fetching' = FALSE
    /\ \E torn \in SUBSET {todo[t][1].open : t \in {u \in Thread : /\ todo[u] # <<>>
                                                                  /\ todo[u][1].do = "save"}} :
          /\ torn = {} \/ "torn" \in risks
          /\ disk' = [f \in File |-> IF f \in torn THEN Torn ELSE disk[f]]

Killed == at # "down" /\ Spend("crash") /\ Ends /\ UNCHANGED risks

\* RestartModal: the timer has run down; the GUI thread is done, others may not be.
Restart ==
    /\ at = "modal" /\ todo["gui"] = <<>>
    /\ Ends
    /\ UNCHANGED <<risks, budget>>

Readable(w) == disk[SeedFile(w)] = Whole

\* disconnect, also after the deletion of the wallet (DeleteWalletModal): the service
\* is created anew; its destructor waits for the init thread.
Disconnect ==
    /\ at = "in" /\ Idle /\ init = "done" /\ Spend("session")
    /\ \/ ParseRaw(disk)
       \/ Readable(owner) /\ ParseRaw([disk EXCEPT ![SeedFile(owner)] = Absent])
    /\ at' = "menu" /\ owner' = None /\ registry' = NoCoins /\ init' = "none"
    /\ UNCHANGED <<risks, config, todo, tokenVars>>

-----------------------------------------------------------------------------
(* Wallets.                                                                *)

Does(t, items) == todo' = [todo EXCEPT ![t] = @ \o items]

Asset == [c \in Official |-> [active |-> c \in OnByDefault, custom |-> FALSE, backup |-> FALSE]]

\* The shipped coins file is copied where there is none, whoever left one.
CopiedCoins(w) ==
    IF disk[CoinsFile(w)] = Absent THEN <<Write(CoinsFile(w), Asset)>> ELSE <<>>

\* The wallets that are shown, whatever their seed files hold.
Listed(w) == disk[SeedFile(w)] # Absent

\* encrypt, then the wallet object: between the two a wallet is listed that cannot
\* be opened, and whose name is taken.
Create(w) ==
    /\ at = "menu" /\ Idle /\ Spend("user")
    /\ ~Listed(w)
    /\ Does("gui", CopiedCoins(w) \o <<Write(SeedFile(w), Whole), Write(ObjectFile(w), Whole)>>)
    /\ UNCHANGED <<risks, disk, at, memory, tokenVars>>

\* delete_wallet, once the password is confirmed with the seed, which must be whole:
\* the seed goes, all other files stay.
DeleteWallet(w) ==
    /\ at = "menu" /\ Idle /\ Spend("user")
    /\ Readable(w)
    /\ disk' = [disk EXCEPT ![SeedFile(w)] = Absent]
    /\ UNCHANGED <<risks, at, memory, todo, tokenVars>>

\* load_wallet_cfg throws on a file that is not whole, and nothing catches it.
CannotLoad(w) ==
    /\ at = "menu" /\ Idle /\ Listed(w)
    /\ disk[ObjectFile(w)] = Torn
    /\ Ends
    /\ UNCHANGED <<risks, budget>>

\* login with the right password, up to retrieve_coins_informations.  The coins file
\* is copied before the seed is found to be wrong.
Login(w) ==
    /\ at = "menu" /\ Idle /\ Listed(w) /\ disk[ObjectFile(w)] = Whole
    /\ \/ /\ Readable(w)
          /\ at' = "login" /\ owner' = w
          /\ Does("gui", Append(CopiedCoins(w), Edit("migrate", None, w)))
       \/ /\ ~Readable(w) /\ CopiedCoins(w) # <<>>
          /\ Does("gui", CopiedCoins(w))
          /\ UNCHANGED <<at, owner>>
    /\ UNCHANGED <<risks, budget, disk, config, registry, rawReg, init, tokenVars>>

CustomIn(coins) == {c \in DOMAIN coins : coins[c].custom}

\* Mutant of Merge: the custom coins of the precedent file are not copied.
MergeShipped(old, new) ==
    [c \in DOMAIN new |->
        IF c \in DOMAIN old THEN [new[c] EXCEPT !.active = old[c].active] ELSE new[c]]

\* check_for_reconfiguration: the coins that the precedent version knows keep their
\* choice, and its custom coins are copied as they are, over a shipped one too.
Merge(old, new) ==
    [c \in DOMAIN new \cup CustomIn(old) |->
        IF c \in CustomIn(old) THEN old[c]
        ELSE IF c \in DOMAIN old THEN [new[c] EXCEPT !.active = old[c].active] ELSE new[c]]

\* Mutant of Migration: the precedent file is removed before the new one is written.
MigrationRemovesFirst(w) ==
    LET old == disk[OldFile(w)]
        new == disk[CoinsFile(w)]
    IN  IF old \in Bad \/ new \in Bad THEN <<>>
        ELSE <<SaveAs(OldFile(w), Absent, CoinsFile(w)),
               Write(CoinsFile(w), Merge(old, new))>>

\* The precedent file is removed while the new one is still open; a failure to
\* remove it is only logged, and so is a file that cannot be parsed.
Migration(w) ==
    LET old    == disk[OldFile(w)]
        new    == disk[CoinsFile(w)]
        merged == Write(CoinsFile(w), Merge(old, new))
    IN  IF old \in Bad \/ new \in Bad THEN <<>>
        ELSE IF "noRemove" \in risks THEN <<merged>>
        ELSE <<merged, SaveAs(OldFile(w), Absent, CoinsFile(w)), merged>>

TokensOf(w) == IF disk[TokensFile(w)] = Absent THEN NoCoins ELSE disk[TokensFile(w)]

\* retrieve_coins_informations: an entry of the coins file comes before one of the tokens.
RegistryOf(w) ==
    LET official == disk[CoinsFile(w)]
        custom   == TokensOf(w)
    IN  [c \in DOMAIN official \cup DOMAIN custom |->
            IF c \in DOMAIN official THEN official[c] ELSE custom[c]]

\* It throws on a file that is not whole, and the process ends; else mm2 is started.
Retrieve ==
    /\ at = "login" /\ todo["gui"] = <<>>
    /\ IF Torn \in {disk[CoinsFile(owner)], disk[TokensFile(owner)]}
       THEN Ends
       ELSE /\ registry' = RegistryOf(owner)
            /\ at' = "in" /\ init' = "starting"
            /\ UNCHANGED <<disk, config, owner, rawReg, todo, tokenVars>>
    /\ UNCHANGED <<risks, budget>>

-----------------------------------------------------------------------------
(* What a thread does next.                                                *)

\* The custom coins that mm2 cannot know, and of which there is a copy of the entry.
Missing(S) == {c \in S \cap Custom : c \notin rawReg /\ registry[c].backup}

\* add_new_coin with the copy, for each coin in S that misses its entry.
ReAdd(S) == SetToSeq({Edit("add", c, TRUE) : c \in Missing(S)})

Active == {c \in DOMAIN registry : registry[c].active}

\* enable_default_coins: mm2 has answered, and the active coins are enabled.
EnableDefaultCoins ==
    /\ at = "in" /\ init = "starting"
    /\ init' = "done"
    /\ Does("init", ReAdd(Active))
    /\ UNCHANGED <<risks, budget, disk, at, config, owner, registry, rawReg, tokenVars>>

\* What stops an edit: a file that cannot be parsed, or a coin that is not in it.  A
\* custom coin is looked for among the tokens, also one that is in the coins file.
Stops(e) ==
    CASE e.do \in {"add", "del"} -> disk[RawFile] \in Bad
      [] e.do \in {"token", "deactivate"} -> disk[TokensFile(owner)] = Torn
      [] e.do = "untoken" -> disk[TokensFile(owner)] \in Bad
      [] e.do \in {"status", "segwit"} ->
            ~ /\ disk[CoinsFile(owner)] \notin Bad /\ disk[TokensFile(owner)] # Torn
              /\ e.coin \in IF registry[e.coin].custom THEN DOMAIN TokensOf(owner)
                            ELSE DOMAIN disk[CoinsFile(owner)]
      [] e.do \in {"fiat", "currency"} -> disk[CfgFile] \in Bad
      [] OTHER -> FALSE

\* A coins or tokens file in which the coins in S are active, or not.
Switched(file, S, on) ==
    [x \in DOMAIN file |-> IF x \in S THEN [file[x] EXCEPT !.active = on] ELSE file[x]]

\* Mutant of UpdateCoinStatus: the status of a token goes to the coins file only.
UpdateOfficialStatus(c, on) ==
    LET coins == disk[CoinsFile(owner)]
    IN  <<Write(CoinsFile(owner), Switched(coins, {c}, on))>>

\* update_coin_status reads both files before it writes them; the tokens file only
\* if there are tokens.
UpdateCoinStatus(c, on) ==
    LET coins  == disk[CoinsFile(owner)]
        tokens == TokensOf(owner)
        shown  == {x \in {c} \cap DOMAIN registry : ~registry[x].custom}
        custom == {c} \ shown
    IN  <<Write(CoinsFile(owner), Switched(coins, shown, on))>>
        \o (IF tokens = NoCoins THEN <<>>
            ELSE <<Write(TokensFile(owner), Switched(tokens, custom, on))>>)

\* change_fiat and change_currency; the sign of the fiat currency changes only with
\* the second.
Configured(e) ==
    CASE e.do = "fiat" -> [config EXCEPT !.fiat = e.value]
      [] e.do = "currency" /\ e.value \in Fiat ->
            [currency |-> e.value, fiat |-> e.value, sign |-> e.value]
      [] e.do = "currency" /\ e.value \in Crypto -> [config EXCEPT !.currency = e.value]
      [] OTHER -> config

UpgradeCfg(e) == <<Write(CfgFile, Configured(e))>>

\* What an edit writes.
Saves(e) ==
    LET raw    == disk[RawFile]
        tokens == TokensOf(owner)
        rest   == DOMAIN tokens \ {e.coin}
    IN  CASE e.do = "add" -> <<Write(RawFile, [raw EXCEPT ![e.coin] = @ + 1])>>
          [] e.do = "del" -> <<Write(RawFile, [raw EXCEPT ![e.coin] = @ - 1])>>
          [] e.do = "token" ->
                <<Write(TokensFile(owner),
                        [x \in rest \cup {e.coin} |->
                            IF x = e.coin
                            THEN [active |-> TRUE, custom |-> TRUE, backup |-> e.value]
                            ELSE tokens[x]])>>
          [] e.do = "untoken" -> <<Write(TokensFile(owner), [x \in rest |-> tokens[x]])>>
          [] e.do = "status" -> UpdateCoinStatus(e.coin, e.value)
          [] e.do = "segwit" -> UpdateCoinStatus(None, e.value)
          [] e.do = "deactivate" ->
                IF disk[TokensFile(owner)] = Absent THEN <<>>
                ELSE <<Write(TokensFile(owner), Switched(tokens, DOMAIN tokens, FALSE))>>
          [] e.do = "migrate" -> Migration(e.value)
          [] e.do \in {"fiat", "currency"} -> UpgradeCfg(e)
          [] OTHER -> <<>>

\* What it changes in memory.
Registered(e) ==
    CASE e.do = "status" -> [registry EXCEPT ![e.coin].active = e.value]
      [] e.do = "untoken" -> [c \in DOMAIN registry \ {e.coin} |-> registry[c]]
      [] OTHER -> registry

\* The thread reads.  What it cannot read ends the process: only a continuation's
\* exceptions are caught.
Reads(t) ==
    /\ todo[t] # <<>> /\ todo[t][1].do # "save"
    /\ LET e == todo[t][1]
       IN  \/ /\ Stops(e) /\ t # "pool"
              /\ Ends
           \/ /\ Stops(e) /\ t = "pool"
              /\ todo' = [todo EXCEPT ![t] = <<>>]
              /\ UNCHANGED <<disk, at, memory, tokenVars>>
           \/ /\ ~Stops(e)
              /\ todo' = [todo EXCEPT ![t] = Saves(e) \o Tail(@)]
              /\ registry' = Registered(e) /\ config' = Configured(e)
              /\ UNCHANGED <<disk, at, owner, rawReg, init, tokenVars>>
    /\ UNCHANGED <<risks, budget>>

\* The thread writes, or removes, a file.
Saved(t) ==
    /\ todo[t] # <<>> /\ todo[t][1].do = "save"
    /\ disk' = [disk EXCEPT ![todo[t][1].file] = todo[t][1].as]
    /\ todo' = [todo EXCEPT ![t] = Tail(@)]
    /\ UNCHANGED <<risks, budget, at, memory, tokenVars>>

-----------------------------------------------------------------------------
(* The user, once the coins are being enabled.                             *)

Waiting ==
    /\ at = "in" /\ init = "done" /\ todo["init"] = <<>> /\ todo["gui"] = <<>>
    /\ todo["pool"] = <<>> \/ "hasty" \in risks

Ready == Waiting /\ Spend("user")

othersOfUser == <<risks, disk, memory>>

\* Mutant of EnableCoin: the entry of a custom coin is not looked for.
EnableCoinOnly(c) ==
    /\ Ready
    /\ c \in DOMAIN registry
    /\ ~registry[c].active \/ c \in Custom \ rawReg
    /\ Does("gui", <<Edit("status", c, TRUE)>>)
    /\ UNCHANGED <<othersOfUser, at, tokenVars>>

\* enable_multiple_coins.  A coin that mm2 has not enabled may be enabled again.
EnableCoin(c) ==
    /\ Ready
    /\ c \in DOMAIN registry
    /\ ~registry[c].active \/ c \in Custom \ rawReg
    /\ Does("gui", Append(ReAdd({c}), Edit("status", c, TRUE)))
    /\ UNCHANGED <<othersOfUser, at, tokenVars>>

\* disable_multiple_coins, whether mm2 could disable the coin or not.
DisableCoin(c) ==
    /\ Ready
    /\ c \in Active
    /\ Does("gui", <<Edit("status", c, FALSE)>>)
    /\ UNCHANGED <<othersOfUser, at, tokenVars>>

\* change_segwit_status, in the continuation of the switch.  Which addresses a coin
\* uses is left out: both files are written back as they were read.
ChangeSegwitStatus(c) ==
    /\ Ready /\ todo["pool"] = <<>>
    /\ c \in Official \cap Active
    /\ Does("pool", <<Edit("segwit", c, TRUE)>>)
    /\ UNCHANGED <<othersOfUser, at, tokenVars>>

\* process_token_add, process_qrc_20_token_add: what the token is, is asked for.
Preview(c) ==
    /\ Ready /\ ~fetching
    /\ request' = c /\ fetching' = TRUE
    /\ UNCHANGED <<othersOfUser, at, todo, token>>

\* The data for the two files; the copy kept of mm2's entry is that of the data, or
\* for QRC20 tokens that of the file.
DataOf(c) ==
    LET mm2 == c \notin rawReg
    IN  [coin |-> c, adex |-> c \notin DOMAIN registry, mm2 |-> mm2,
         backup |-> mm2 \/ c \in Qrc]

\* The answer; None is one that says what went wrong.
TokenAnswered ==
    /\ request # None
    /\ request' = None
    /\ \/ token' \in {DataOf(request), None} /\ fetching' = FALSE
       \/ "throws" \in risks /\ UNCHANGED <<token, fetching>>
    /\ UNCHANGED <<risks, budget, disk, at, memory, todo>>

\* submit, and the restart that the modal announces.
Submit ==
    /\ Ready /\ token # None
    /\ at' = "modal" /\ token' = None
    /\ Does("gui", (IF token.adex /\ token.coin \notin DOMAIN registry
                    THEN <<Edit("token", token.coin, token.backup)>> ELSE <<>>)
                   \o (IF token.mm2 /\ token.coin \notin rawReg
                       THEN <<Edit("add", token.coin, TRUE)>> ELSE <<>>))
    /\ UNCHANGED <<othersOfUser, request, fetching>>

\* "Disable and Delete" of a coin that mm2 has, from both files; then a restart.
RemoveCustomCoin(c) ==
    /\ Ready
    /\ c \in Custom \cap Active \cap rawReg
    /\ at' = "modal"
    /\ Does("gui", <<Edit("status", c, FALSE), Edit("untoken", c, TRUE), Edit("del", c, TRUE)>>)
    /\ UNCHANGED <<othersOfUser, tokenVars>>

\* reset_coin_cfg, before the restart; coins.json goes for all wallets.
ResetCoinCfg ==
    /\ Ready
    /\ at' = "modal"
    /\ Does("gui", <<Edit("deactivate", None, TRUE),
                     Delete(CoinsFile(owner)), Delete(RawFile)>>)
    /\ UNCHANGED <<othersOfUser, tokenVars>>

\* set_current_currency, by a click on the balance, if there is a rate for it.
SetCurrency(c) ==
    /\ Waiting /\ Spend("settings")
    /\ c # config.currency
    /\ Does("gui", <<Edit("currency", None, c)>>)
    /\ UNCHANGED <<othersOfUser, at, tokenVars>>

\* A currency chosen in the settings: set_current_fiat, then set_current_currency.
SetFiat(f) ==
    /\ Waiting /\ Spend("settings")
    /\ f # config.fiat
    /\ Does("gui", <<Edit("fiat", None, f)>>
                   \o (IF f # config.currency THEN <<Edit("currency", None, f)>> ELSE <<>>))
    /\ UNCHANGED <<othersOfUser, at, tokenVars>>

\* set_current_lang; QSettings writes a file whole.
SetCurrentLang(l) ==
    /\ at \in {"menu", "in"} /\ Idle /\ Spend("settings")
    /\ l # disk[IniFile]
    /\ disk' = [disk EXCEPT ![IniFile] = l]
    /\ UNCHANGED <<risks, at, memory, todo, tokenVars>>

\* set_emergency_password: the wallet object is written anew.
SetEmergencyPassword ==
    /\ Waiting /\ Spend("settings")
    /\ Does("gui", <<Write(ObjectFile(owner), Whole)>>)
    /\ UNCHANGED <<othersOfUser, at, tokenVars>>

-----------------------------------------------------------------------------
Process == Launch \/ Start \/ Killed \/ Restart \/ Disconnect \/ Retrieve \/ EnableDefaultCoins

Threads == \E t \in Thread : Reads(t) \/ Saved(t)

User ==
    \/ \E w \in Wallet : Create(w) \/ DeleteWallet(w) \/ Login(w) \/ CannotLoad(w)
    \/ \E c \in Coin : EnableCoin(c) \/ DisableCoin(c) \/ ChangeSegwitStatus(c)
    \/ \E c \in Custom : Preview(c) \/ RemoveCustomCoin(c)
    \/ \E c \in Fiat \cup Crypto : SetCurrency(c)
    \/ \E f \in Fiat : SetFiat(f)
    \/ \E l \in Language : SetCurrentLang(l)
    \/ Submit \/ ResetCoinCfg \/ SetEmergencyPassword

FilesNext == Process \/ Threads \/ User \/ TokenAnswered

FilesSpec == FilesInit /\ [][FilesNext]_filesVars

-----------------------------------------------------------------------------
(* Properties.                                                             *)

Lost == Torn

\* The coins of a precedent file whose choice an upgrade takes over.
TakenOver(old, coins) == CustomIn(old) \cup (DOMAIN old \cap DOMAIN coins)

\* The choices that the next login of w will read: of the precedent version's file if it
\* is still there, of this version's or the shipped one, and of the tokens.
ChoiceOf(w) ==
    LET old    == IF disk[OldFile(w)] \in Bad THEN NoCoins ELSE disk[OldFile(w)]
        coins  == IF disk[CoinsFile(w)] = Absent THEN Asset ELSE disk[CoinsFile(w)]
        tokens == TokensOf(w)
    IN  IF Torn \in {disk[CoinsFile(w)], disk[TokensFile(w)]} THEN Lost
        ELSE [c \in Coin |-> CASE c \in TakenOver(old, coins) -> old[c].active
                              [] c \in DOMAIN coins \ TakenOver(old, coins) -> coins[c].active
                              [] OTHER -> c \in DOMAIN tokens /\ tokens[c].active]

\* Of a user who goes on while a switch to segwit is stored, which stores all choices
\* as they were, nothing is promised: the choices count as lost.
ChoicesKept == [w \in Wallet |-> IF "hasty" \in risks THEN Lost ELSE ChoiceOf(w)]

SessionOf == IF at \in {"in", "modal"} THEN owner ELSE None

Store == INSTANCE ChoiceStore WITH choice <- ChoicesKept, session <- SessionOf

\* The language of the next start.
LanguageRead ==
    IF disk[IniFile] = Absent /\ disk[OldIniFile] # Absent THEN disk[OldIniFile]
    ELSE HandleSettings

LanguageIsKept ==
    risks \cap {"torn", "noCopy"} = {} =>
        (LanguageRead' = LanguageRead \/ budget'.settings < budget.settings)

\* The files of a wallet keep its choices as one variable would: the upgrade of the
\* precedent version's file, in steps of which a crash may come between any two, two
\* wallets, logins, removals and recreations change none of them; a status, a token or
\* a reset changes what it is for.  Nor does an upgrade change the language, unless
\* the precedent cfg.ini cannot be copied.  (update_coin_status, add_new_coin,
\* check_for_reconfiguration, remove_custom_coin, reset_coin_cfg,
\* check_settings_reconfiguration.)
ChoicesAreKept == Store!Spec /\ [][LanguageIsKept]_filesVars

\* When nothing is being written, what the program holds in memory is what it will
\* read at its next start or login: the settings, and the registry of the session.  No
\* file was read before, and written after, another write of it.  (A switch to
\* segwit, stored by another thread, may do just that; a precedent file that could
\* not be removed hides every later choice; and the choice for a custom coin that the
\* precedent coins file and the tokens have is stored with the tokens, and read from
\* the coins.  change_currency, update_coin_status.)
MemoryIsStored ==
    /\ (at \notin {"down", "starting"} /\ Idle) => disk[CfgFile] = config
    /\ (at = "in" /\ Idle /\ risks \cap {"hasty", "noRemove"} = {}) =>
          /\ DOMAIN registry = DOMAIN disk[CoinsFile(owner)] \cup DOMAIN TokensOf(owner)
          /\ \A c \in DOMAIN registry :
                \/ registry[c].active = ChoiceOf(owner)[c]
                \/ c \in CustomIn(disk[CoinsFile(owner)]) \cap DOMAIN TokensOf(owner)

\* An active custom coin of which there is a copy of mm2's entry has its entry in
\* coins.json once enabled: whatever other wallets removed or reset, and when a crash
\* came between the writes of the two files.  (batch_enable_coins.)
CustomCoinsAreReAdded ==
    (at = "in" /\ init = "done" /\ Idle) =>
        \A c \in Custom \cap Active : registry[c].backup => disk[RawFile][c] > 0

=============================================================================
