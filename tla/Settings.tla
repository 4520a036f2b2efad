------------------------------ MODULE Settings ------------------------------
(* Layered settings (rc-config) and the settings page that edits them (rc-config *)
(* edit.rs, rc-tui menu.rs): defaults, user file, project file, environment and   *)
(* the command line, in that order; the page writes the user file and resolves    *)
(* again. Three kinds of field stand for all: one cycled through fixed options,   *)
(* the DLR switch, and the model with its roster.                                 *)
EXTENDS Naturals, Sequences, FiniteSets, SequencesExt

CONSTANTS Models,      \* model names; Default is the compiled-in one
          Default,
          Modes,       \* the options of a Choice field, a sequence
          Layers,      \* the layers (user, project, environment) a launch may find
          MaxSaves     \* bound: saves tried on the page

Unset == "unset"

\* a layer says Unset or a value for each key, roster <<>> or <<list>>; perms: it has a
\* permissions block, mode: default_mode in it; bad: the key or block whose value has the
\* wrong type, "file" when it is no JSON object at all, "other" a key the page does not edit
Blank == [bad |-> "none", model |-> Unset, roster |-> <<>>, perms |-> FALSE, mode |-> Unset, base |-> Unset,
          transport |-> Unset, dlr_enabled |-> Unset, dlr_url |-> Unset]
BadKeys == {"none", "file", "permissions", "provider", "model", "roster", "mode", "dlr_enabled", "other"}
DefaultMode == "default"

\* what a layer may say, with Unset outside every kind of value
ASSUME SettingsAssumption ==
  /\ Default \in Models /\ Unset \notin Models
  /\ Modes \in Seq(Range(Modes)) /\ DefaultMode \in Range(Modes) /\ Unset \notin Range(Modes)
  /\ Layers \subseteq [bad : BadKeys, model : Models \cup {Unset}, roster : Seq(Seq(Models)),
                       perms : BOOLEAN, mode : Range(Modes) \cup {Unset}, base : {"official", "custom", Unset},
                       transport : {"auto", "dlr", "json", Unset},
                       dlr_enabled : {"true", "false", Unset}, dlr_url : {"set", Unset}]

VARIABLES user, project, env, flag,   \* the layers; flag: the --base-url override
          live,      \* the settings the agent was built with
          page,      \* the settings the page shows
          saveNote,      \* what the page reported of the last save
          removed,   \* models removed from the list and not added since (history)
          saves
setVars == <<user, project, env, flag, live, page, saveNote, removed, saves>>

-----------------------------------------------------------------------------
(* Settings::load                                                               *)
Over(a, b) == IF b = Unset THEN a ELSE b
\* read_settings: a file with one value of a wrong type says nothing at all
WellTyped(l) == l.bad = "none"
Said(l, k) == IF WellTyped(l) THEN l[k] ELSE Unset

transport_for_dlr_enabled(b) == IF b = Unset THEN Unset ELSE IF b = "true" THEN "auto" ELSE "json"

\* within a layer the switch wins over the older transport key
LayerTransport(l) == Over(Said(l, "transport"), transport_for_dlr_enabled(Said(l, "dlr_enabled")))

ExplicitDlr(ls) ==
  \E l \in Range(ls) : \E k \in {"transport", "dlr_enabled", "dlr_url"} : Said(l, k) # Unset

\* the members of ms at the places in S, in order
Keep(ms, S) ==
  LET kept[n \in 0 .. Len(ms)] ==
        IF n = 0 THEN <<>> ELSE IF n \in S THEN Append(kept[n - 1], ms[n]) ELSE kept[n - 1]
  IN kept[Len(ms)]

\* models.retain, dedup of neighbours, and the active model put in front when it is missing
Roster(models, model) ==
  LET kept == Keep(models, {i \in DOMAIN models : i = 1 \/ models[i] # models[i - 1]})
  IN IF model \in Range(kept) THEN kept ELSE <<model>> \o kept

\* a later layer's word replaces an earlier one's
Resolve(dflt, u, p, e) == Over(Over(Over(dflt, u), p), e)

\* the permissions block is replaced whole; a block without default_mode has the default one
HasBlock(l) == WellTyped(l) /\ l.perms
BlockMode(l) == IF HasBlock(l) THEN Over(DefaultMode, l.mode) ELSE Unset

load_layers(u, p, e) ==
  LET pick(k, dflt) == Resolve(dflt, Said(u, k), Said(p, k), Said(e, k))
      base == pick("base", "official")
      explicit == ExplicitDlr(<<u, p, e>>)
      transport == Resolve("auto", LayerTransport(u), LayerTransport(p), LayerTransport(e))
      lists(l) == WellTyped(l) /\ l.roster # <<>>
      models == IF lists(p) THEN p.roster[1] ELSE IF lists(u) THEN u.roster[1] ELSE <<>>
      model == pick("model", Default)
  IN [model |-> model, models |-> Roster(models, model),
      mode |-> Resolve(DefaultMode, BlockMode(u), BlockMode(p), Said(e, "mode")),
      base |-> base, explicit |-> explicit,
      transport |-> IF ~explicit /\ base # "official" THEN "json" ELSE transport]

apply_base_url_override(s, url) ==
  IF url = Unset THEN s
  ELSE [s EXCEPT !.base = url,
                 !.transport = IF s.explicit THEN @ ELSE IF url = "official" THEN "auto" ELSE "json"]

SetInit ==
  /\ user \in Layers /\ project \in Layers /\ env \in {l \in Layers : WellTyped(l)}
  /\ flag \in {Unset, "official", "custom"}
  /\ live = apply_base_url_override(load_layers(user, project, env), flag)
  /\ page = load_layers(user, project, env)
  /\ saveNote = [result |-> "none", key |-> Unset, value |-> Unset]
  /\ removed = {} /\ saves = 0

-----------------------------------------------------------------------------
(* FieldSpec: parse, cycle and the write of ~/.sc/settings.json                 *)
step(options, current, delta) ==
  IF Len(options) < 2 THEN Unset
  ELSE LET i == IF current \in Range(options)
                THEN CHOOSE i \in DOMAIN options :
                       options[i] = current /\ \A j \in 1 .. i - 1 : options[j] # current
                ELSE 1
       IN options[((i - 1 + delta) % Len(options)) + 1]

\* Mutant of Committed: the override warning is left out
CommittedSilently(key, value, u) ==
  /\ user' = u /\ page' = load_layers(u, project, env)
  /\ saveNote' = [result |-> "saved", key |-> key, value |-> value]

\* commit: after a write the page resolves again, and warns when an env var outranks the value
Committed(key, value, u) ==
  /\ user' = u /\ page' = load_layers(u, project, env)
  /\ saveNote' = [result |-> IF env[key] # Unset THEN "overridden" ELSE "saved", key |-> key, value |-> value]

Refused(key, value) ==
  /\ saveNote' = [result |-> "error", key |-> key, value |-> value]
  /\ UNCHANGED <<user, page>>

\* set_raw: read_tree refuses a file that is no JSON, the walk a block that is no object; any
\* other mistyped value survives, unless the write replaces it
ParentOf(key) == CASE key = "mode" -> "permissions" [] key = "dlr_enabled" -> "provider" [] OTHER -> "file"
Writable(key) == user.bad \notin {"file", ParentOf(key)}
Mended(l, ks) == [l EXCEPT !.bad = IF @ \in ks THEN "none" ELSE @]

CycleMode(delta) ==
  /\ saves < MaxSaves /\ saves' = saves + 1
  /\ LET next == step(Modes, page.mode, delta) IN
       /\ next # Unset
       /\ IF Writable("mode")
          THEN Committed("mode", next, [Mended(user, {"mode"}) EXCEPT !.perms = TRUE, !.mode = next])
          ELSE Refused("mode", next)
  /\ UNCHANGED <<project, env, flag, live, removed>>

\* the DLR switch also asks for Outcome::Reload: the client is rebuilt from the files
ToggleDlr ==
  /\ saves < MaxSaves /\ saves' = saves + 1
  /\ LET next == IF page.transport # "json" THEN "false" ELSE "true" IN
       IF Writable("dlr_enabled")
       THEN /\ Committed("dlr_enabled", next, [Mended(user, {"dlr_enabled"}) EXCEPT !.dlr_enabled = next])
            /\ live' = apply_base_url_override(page', flag)
       ELSE Refused("dlr_enabled", next) /\ UNCHANGED live
  /\ UNCHANGED <<project, env, flag, removed>>

\* write_model_keys writes `model`, then `models`: the second write may fail after the first
ModelWritten(m) == [Mended(user, {"model"}) EXCEPT !.model = m]
ModelsWritten(m, roster) == [Mended(user, {"model", "roster"}) EXCEPT !.model = m, !.roster = <<roster>>]
HalfWritten(m, note) ==
  /\ user' = ModelWritten(m) /\ UNCHANGED page
  /\ saveNote' = [result |-> "error", key |-> "model", value |-> note]

AddModel(m, both) ==
  LET roster == IF m \in Range(page.models) THEN page.models ELSE Append(page.models, m)
  IN IF ~Writable("model") THEN Refused("model", m)
     ELSE IF both THEN Committed("model", m, ModelsWritten(m, roster)) ELSE HalfWritten(m, m)

TypeModel(m, both) ==
  /\ saves < MaxSaves /\ saves' = saves + 1
  /\ AddModel(m, both) /\ removed' = removed \ {m}
  /\ UNCHANGED <<project, env, flag, live>>

CycleModel(delta, both) ==
  /\ saves < MaxSaves /\ saves' = saves + 1
  /\ LET next == step(page.models, page.model, delta) IN next # Unset /\ AddModel(next, both)
  /\ UNCHANGED <<project, env, flag, live, removed>>

\* remove_model, the d key: the model under the cursor is the active one; the last stays
RemoveModel(both) ==
  /\ saves < MaxSaves /\ saves' = saves + 1 /\ Len(page.models) >= 2
  /\ LET roster == Keep(page.models, {i \in DOMAIN page.models : page.models[i] # page.model}) IN
       IF ~Writable("model") THEN Refused("model", page.model) /\ UNCHANGED removed
       ELSE IF ~both THEN HalfWritten(page.model, page.model) /\ UNCHANGED removed
       ELSE /\ user' = ModelsWritten(page.model, roster)
            /\ page' = load_layers(user', project, env)
            /\ saveNote' = [result |-> "removed", key |-> "model", value |-> page.model]
            /\ removed' = removed \cup {page.model}
  /\ UNCHANGED <<project, env, flag, live>>

SetNext ==
  \/ \E d \in {1, -1} : CycleMode(d) \/ (\E both \in BOOLEAN : CycleModel(d, both))
  \/ \E m \in Models, both \in BOOLEAN : TypeModel(m, both)
  \/ ToggleDlr \/ \E both \in BOOLEAN : RemoveModel(both)
SetSpec == SetInit /\ [][SetNext]_setVars

-----------------------------------------------------------------------------
(* "Never send a custom provider's request ... to the default Subconscious DLR endpoint": *)
(* whatever the layers, the override and the reloads, a provider that is not the official *)
(* one is spoken to over DLR only if some layer selected DLR or its URL.                  *)
CustomStaysJson ==
  live.base # "official" /\ live.transport # "json" => ExplicitDlr(<<user, project, env>>)

\* the project's file replaces the key, or the whole block the key is in
Replaces(l, key) == IF key = "mode" THEN HasBlock(l) ELSE Said(l, key) # Unset

(* A save the page reports without a warning is the value a load resolves, unless some    *)
(* other value of the user's file is mistyped, or the project's file has the same key or, *)
(* for default_mode, any permissions block: neither does a warning mention (commit,       *)
(* env_override, load_with_report).                                                       *)
SavedTakesEffect ==
  saveNote.result = "saved" /\ WellTyped(user) /\ ~Replaces(project, saveNote.key) =>
    CASE saveNote.key = "mode" -> page.mode = saveNote.value
      [] saveNote.key = "model" -> page.model = saveNote.value /\ saveNote.value \in Range(page.models)
      [] OTHER -> Said(project, "transport") = Unset /\ env["transport"] = Unset
                  => (page.transport # "json") = (saveNote.value = "true")

(* What the layers say is what takes effect: a save the page reports is resolved by the   *)
(* next load, and no default moves a custom endpoint to DLR.                              *)
SettingsSound == SavedTakesEffect /\ CustomStaysJson

(* remove_model "Drop[s] `name` from the saved roster": a model the user removed is not   *)
(* in the user file again until it is typed again.                                        *)
RemovedStaysRemoved == \A ms \in Range(user.roster) : removed \cap Range(ms) = {}
=============================================================================
