------------------------------- MODULE Config -------------------------------
(***************************************************************************)
(* How virt-who turns its configuration files into the sections it runs    *)
(* with, and those into destinations (virtwho/config.py): init_config,     *)
(* ConfigSection with its subclasses, _check_effective_config_validity and *)
(* DestinationToSourceMapper.                                              *)
(*                                                                         *)
(* A file is a function from section names to options, options a function  *)
(* from keys to strings.  Of the keys only those are kept that decide      *)
(* something: the type, what is required, encrypted passwords (they write  *)
(* another key), and what identifies a destination.  "sat_server" stands   *)
(* for server and user name, "esx" for the back ends with the same rules   *)
(* (hyperv, ahv).  An encrypted password is "sealed", or "garbled" when it *)
(* is not a hexadecimal string.  Command line options are global ones only *)
(* (parser.py has no other), so that the "cmdline" section is its default  *)
(* and is deleted again.                                                   *)
(***************************************************************************)
EXTENDS Sequences

CONSTANTS
  Inputs   \* the configurations to start with: records of what init_config reads

Passwords == {"password", "rhsm_password", "sat_password"}

\* Options: plain passwords are not ciphertext.  A file: options of sections.
IsOptions(options) ==
  /\ options = [k \in DOMAIN options |-> options[k]]
  /\ \A p \in Passwords \cap DOMAIN options : options[p] # "sealed"
IsFile(file) ==
  /\ file = [n \in DOMAIN file |-> file[n]]
  /\ \A n \in DOMAIN file : IsOptions(file[n])

Files == UNION { {i.general} \cup i.dropDir \cup { i.chosen[f] : f \in DOMAIN i.chosen } :
                   i \in Inputs }

ASSUME InputsAssumption ==
  /\ \A f \in Files : IsFile(f)
  /\ \A i \in Inputs :
       /\ IsOptions(i.global) /\ IsOptions(i.options) /\ IsOptions(i.defaults)
       /\ i.chosen \in Seq(Files) /\ i.keyFile \in BOOLEAN

VARIABLES
  input,   \* the files and options, and whether the key file can be read
  stage,   \* how far init_config and the mapper are
  unread,  \* the files of -c/configs not yet read, in order
  dropDir, \* the files of the drop directory not yet read
  found,   \* all_sections_to_add
  config,  \* the effective configuration: section name -> section
  served   \* dest_to_sources_map: destination -> names of sources

vars == <<input, stage, unread, dropDir, found, config, served>>

\* dict.update: a value of later replaces one of earlier, a section read later
\* all of a section read earlier.
Update(earlier, later) ==
  [k \in DOMAIN earlier \cup DOMAIN later |->
     IF k \in DOMAIN later THEN later[k] ELSE earlier[k]]

VirtTypes == {"libvirt", "esx", "fake", "kubevirt"}
VirtClasses == VirtTypes \cup {"VirtConfigSection"}
Classes == VirtClasses \cup {"ConfigSection", "GlobalSection"}
SmTypes == {"sam", "satellite"}
Reserved == {"global", "defaults", "system_environment"}

Sources == DOMAIN config \ Reserved

(***************************************************************************)
(* What a class of sections knows (add_key of each class)                  *)
(***************************************************************************)
VirtKeys == {"type", "sm_type", "hypervisor_id", "password", "rhsm_password",
             "sat_password", "encrypted_password", "rhsm_encrypted_password",
             "sat_encrypted_password", "sat_server", "server", "owner",
             "rhsm_hostname", "rhsm_proxy_hostname"}

Known(class) ==
  CASE class = "ConfigSection" -> {"type"}
    [] class = "GlobalSection" -> {"type", "oneshot", "print_", "interval"}
    [] class = "fake" -> VirtKeys \cup {"is_hypervisor", "file"}
    [] OTHER -> VirtKeys

RequiredAtFirst(class) ==
  CASE class \notin VirtClasses -> {}
    [] class = "esx" -> {"owner", "server", "password"}
    [] class = "fake" -> {"owner", "is_hypervisor", "file"}
    [] OTHER -> {"owner"}

VirtDefaults == [type |-> "libvirt", sm_type |-> "sam", hypervisor_id |-> "uuid"]

Defaults(class) ==
  CASE class = "ConfigSection" -> <<>>
    [] class = "GlobalSection" ->
         [oneshot |-> "False", print_ |-> "False", interval |-> "3600"]
    [] class = "fake" -> Update(VirtDefaults, [is_hypervisor |-> "True"])
    [] OTHER -> VirtDefaults

\* The key an option is moved to: passwords that were encrypted, print_.
Destination(class) ==
  CASE class = "ConfigSection" -> <<>>
    [] class = "GlobalSection" -> [print_ |-> "print"]
    [] OTHER -> [encrypted_password |-> "password",
                 rhsm_encrypted_password |-> "rhsm_password",
                 sat_encrypted_password |-> "sat_password"]

HypervisorIds(class) ==
  IF class = "esx" THEN {"uuid", "hostname", "hwuuid"} ELSE {"uuid", "hostname"}

(***************************************************************************)
(* A section and its validation                                            *)
(***************************************************************************)
StateOf(s) ==
  IF s.unvalidated # {} THEN "needs_validation"
  ELSE IF s.invalid # {} \/ DOMAIN s.values = {} \/ s.missing # {} THEN "invalid"
  ELSE "valid"

Given(options, key) == key \in DOMAIN options /\ options[key] # ""

\* class_for_type: virt_type counts before type; an unknown type is the base
\* class, no type the common class of all back ends.
ClassFor(options) ==
  LET type == IF Given(options, "virt_type") THEN options.virt_type
              ELSE IF "type" \in DOMAIN options THEN options.type ELSE "none"
  IN IF type = "none" THEN "VirtConfigSection"
     ELSE IF type \in VirtTypes THEN type ELSE "ConfigSection"

\* from_dict: a new section of that class, every option set and to be validated
FromDict(class, options) ==
  LET initial == IF class \in VirtClasses THEN [sm_type |-> "sam"] ELSE <<>>
      s == [class |-> class, values |-> Update(initial, options),
            unvalidated |-> DOMAIN options, invalid |-> {}, missing |-> {},
            required |-> RequiredAtFirst(class), state |-> "invalid"]
  IN [s EXCEPT !.state = StateOf(s)]

\* Mutant: the options of Satellite 5 are not asked for.
NeededOwnerOnly(required, values) ==
  IF values.sm_type = "satellite" THEN required \ {"owner"} ELSE required

\* What is required of a back end depends on the service it reports to.
Needed(required, values) ==
  LET type == IF "type" \in DOMAIN values THEN values.type ELSE "libvirt"
      local == type = "libvirt" /\ "server" \notin DOMAIN values
  IN CASE values.sm_type = "satellite" ->
            (required \cup {"sat_server", "sat_password"}) \ {"owner"}
       [] values.sm_type = "sam" /\ (local \/ type = "fake") -> required \ {"owner"}
       [] OTHER -> required

Renamed(s) ==
  LET fresh == Update(s.values, [type |-> s.values.virt_type])
  IN IF "virt_type" \notin DOMAIN s.values \/ "type" \in DOMAIN s.values THEN s
     ELSE [s EXCEPT
             !.values = [k \in DOMAIN fresh \ {"virt_type"} |-> fresh[k]],
             !.unvalidated = (@ \cup {"type"}) \ {"virt_type"}]

PreValidated(s) ==
  IF s.class \notin VirtClasses THEN s
  ELSE [Renamed(s) EXCEPT !.required = Needed(@, Renamed(s).values)]

\* The type a section has after its validation method ran
CheckedType(s) ==
  IF "type" \in s.unvalidated /\ s.values.type \notin VirtTypes THEN "libvirt"
  ELSE IF "type" \in DOMAIN s.values THEN s.values.type ELSE "none"

\* The keys whose validation method returns an error
Refused(s, keyFile) ==
  { k \in s.unvalidated \cap Known(s.class) :
      \/ k = "type" /\ s.class \notin VirtClasses
      \/ k = "sm_type" /\ s.values[k] \notin SmTypes
      \/ /\ k = "hypervisor_id" /\ s.class # "VirtConfigSection"
         /\ s.values[k] \notin HypervisorIds(s.class)
      \/ /\ k = "server" /\ s.values[k] = "" /\ s.class # "libvirt"
         /\ CheckedType(s) \notin {"libvirt", "fake"}
      \/ k = "file" /\ s.values[k] = "unreadable"
      \/ /\ k \in DOMAIN Destination(s.class) /\ s.class \in VirtClasses
         /\ s.values[k] = "sealed" /\ ~keyFile }

\* A sealed password is decrypted into the key it stands for, whatever is there.
Decrypted(s, keyFile) ==
  IF s.class \notin VirtClasses \/ ~keyFile THEN {}
  ELSE { Destination(s.class)[e] :
           e \in { k \in s.unvalidated \cap DOMAIN Destination(s.class) :
                     s.values[k] = "sealed" } }

Cleaned(s, k) ==
  CASE k = "type" /\ s.class \in VirtClasses -> CheckedType(s)
    [] k = "interval" /\ s.values[k] = "low" -> "3600"
    [] OTHER -> s.values[k]

\* _validate: unknown keys are removed, the others validated.
Validated(s, keyFile) ==
  LET open == Decrypted(s, keyFile)
      kept == DOMAIN s.values \ (s.unvalidated \ Known(s.class))
  IN [s EXCEPT
        !.values = [k \in kept \cup open |->
                      IF k \in open THEN "secret" ELSE Cleaned(s, k)],
        !.invalid = @ \cup Refused(s, keyFile),
        !.unvalidated = {}]

\* GlobalSection._validate: printing implies oneshot.
Implied(s) ==
  IF /\ s.class = "GlobalSection"
     /\ \E p \in {"print_", "print"} \cap DOMAIN s.values : s.values[p] = "True"
  THEN [s EXCEPT !.values = Update(@, [oneshot |-> "True"])]
  ELSE s

\* check_required_keys: an option that was missing once stays so.
Missing(s) ==
  s.missing \cup (s.required \ (DOMAIN s.values \cup DOMAIN Defaults(s.class)))

\* apply_destinations: moves an option to its destination unless that is set.
Moved(values, s) ==
  LET dest == Destination(s.class)
      from == { k \in DOMAIN dest \cap DOMAIN values :
                  dest[k] \notin DOMAIN values /\ k \notin s.invalid }
      to == { dest[k] : k \in from }
  IN [k \in (DOMAIN values \ from) \cup to |->
        IF k \in to THEN values[CHOOSE f \in from : dest[f] = k] ELSE values[k]]

\* Mutant: options are moved before the defaults are set.
PostValidatedSwapped(s) ==
  LET full == Update(Defaults(s.class), Moved(s.values, s))
      t == [s EXCEPT !.missing = Missing(s), !.values = full]
  IN [t EXCEPT !.state = StateOf(t)]

PostValidated(s) ==
  LET full == Moved(Update(Defaults(s.class), s.values), s)
      t == [s EXCEPT !.missing = Missing(s), !.values = full]
  IN [t EXCEPT !.state = StateOf(t)]

Validate(s, keyFile) == PostValidated(Implied(Validated(PreValidated(s), keyFile)))

(***************************************************************************)
(* init_config                                                             *)
(***************************************************************************)
Init ==
  /\ input \in Inputs
  /\ stage = "start" /\ unread = <<>> /\ dropDir = {}
  /\ found = <<>> /\ config = <<>> /\ served = <<>>

\* The global section comes from the general file, the command line overrides it.
ReadGlobal ==
  /\ stage = "start"
  /\ config' = [global |-> Validate(FromDict("GlobalSection",
                                             Update(input.global, input.options)),
                                    input.keyFile)]
  /\ unread' = input.chosen
  /\ stage' = "chosen"
  /\ UNCHANGED <<input, dropDir, found, served>>

\* The files given with -c, in their order
ReadChosen ==
  /\ stage = "chosen" /\ unread # <<>>
  /\ found' = Update(found, Head(unread))
  /\ unread' = Tail(unread)
  /\ UNCHANGED <<input, stage, dropDir, config, served>>

\* The general file and the drop directory count when those had no section.
OthersCount == DOMAIN found = {}

ReadGeneral ==
  /\ stage = "chosen" /\ unread = <<>>
  /\ IF OthersCount
     THEN found' = input.general /\ dropDir' = input.dropDir
     ELSE UNCHANGED <<found, dropDir>>
  /\ stage' = "dropdir"
  /\ UNCHANGED <<input, unread, config, served>>

\* The drop directory is listed into a set: its files come in any order.
ReadDropFile ==
  /\ stage = "dropdir"
  /\ \E f \in dropDir : found' = Update(found, f) /\ dropDir' = dropDir \ {f}
  /\ UNCHANGED <<input, stage, unread, config, served>>

\* Every section found is laid over the defaults.
WithDefaults(options) == Update(input.defaults, options)

AddSections ==
  /\ stage = "dropdir" /\ dropDir = {}
  /\ config' = Update(config,
                      [n \in DOMAIN found \ {"global", "defaults"} |->
                         FromDict(ClassFor(WithDefaults(found[n])), WithDefaults(found[n]))])
  /\ stage' = "added"
  /\ UNCHANGED <<input, unread, dropDir, found, served>>

ValidateAll ==
  /\ stage = "added"
  /\ config' = [n \in DOMAIN config |-> Validate(config[n], input.keyFile)]
  /\ stage' = "validated"
  /\ UNCHANGED <<input, unread, dropDir, found, served>>

IsValid(s) == s.state = "valid"
\* Mutant: a section without a required option counts as valid.
InvalidKeysOnly == { n \in Sources : config[n].invalid # {} }
Invalid == { n \in Sources : ~IsValid(config[n]) }

\* Files were there but not one section: virt-who does not guess.
FilesNotComplete ==
  DOMAIN config = {"global"} /\ DOMAIN found = {} /\ input.dropDir # {}

Fallback ==
  [cmdline |-> FromDict("libvirt", [sm_type |-> "sam", virt_type |-> "libvirt"])]

\* Invalid sections are dropped; with none at all the local libvirt is used.
DropInvalid ==
  /\ stage = "validated"
  /\ config' = IF Sources = {} /\ ~FilesNotComplete
               THEN Update(config, Fallback)
               ELSE [n \in DOMAIN config \ Invalid |-> config[n]]
  /\ stage' = "dropped"
  /\ UNCHANGED <<input, unread, dropDir, found, served>>

\* The second effective_config.validate()
ValidateAgain ==
  /\ stage = "dropped"
  /\ config' = [n \in DOMAIN config |-> Validate(config[n], input.keyFile)]
  /\ stage' = "ready"
  /\ UNCHANGED <<input, unread, dropDir, found, served>>

(***************************************************************************)
(* DestinationToSourceMapper                                               *)
(***************************************************************************)
Kinds == {"Satellite5", "Satellite6"}

RequiredOf(kind) ==
  IF kind = "Satellite5" THEN {"sat_server", "sat_password"} ELSE {"owner"}

\* Required and optional options
OptionsOf(kind) ==
  IF kind = "Satellite5" THEN RequiredOf(kind)
  ELSE RequiredOf(kind) \cup {"rhsm_hostname", "rhsm_password", "rhsm_proxy_hostname"}

\* Info.__init__: options that are None or empty are not taken.
Info(kind, values) ==
  [kind |-> kind,
   options |-> [k \in { o \in OptionsOf(kind) : Given(values, o) } |-> values[k]]]

Infos(name) ==
  { Info(kind, config[name].values) :
      kind \in { d \in Kinds :
                   \A k \in RequiredOf(d) : Given(config[name].values, k) } }

\* Info.__hash__ hashes the values without their keys, in the order of the
\* class, and Info.__eq__ is true for any two of a class: they are one key of a
\* dictionary when the hashes are.
Taken(info, key) == IF key \in DOMAIN info.options THEN <<info.options[key]>> ELSE <<>>
Values(info) ==
  IF info.kind = "Satellite5" THEN Taken(info, "sat_server") \o Taken(info, "sat_password")
  ELSE Taken(info, "owner") \o Taken(info, "rhsm_hostname")
       \o Taken(info, "rhsm_password") \o Taken(info, "rhsm_proxy_hostname")
SameInfo(a, b) == a.kind = b.kind /\ Values(a) = Values(b)

Default == [kind |-> "default", options |-> <<>>]
Orphans == { n \in Sources : Infos(n) = {} }
Defaulted == { n \in Orphans : config[n].values.sm_type # "satellite" }

\* Of the infos that are the same for the dictionary, the first one is kept.
MapDestinations ==
  /\ stage = "ready"
  /\ LET all == UNION { Infos(n) : n \in Sources }
     IN \E kept \in SUBSET all :
          /\ \A i \in all : \E d \in kept : SameInfo(i, d)
          /\ \A d, e \in kept : SameInfo(d, e) => d = e
          /\ served' = [d \in kept \cup { x \in {Default} : Defaulted # {} } |->
                          IF d = Default THEN Defaulted
                          ELSE { n \in Sources : \E i \in Infos(n) : SameInfo(i, d) }]
  /\ stage' = "mapped"
  /\ UNCHANGED <<input, unread, dropDir, found, config>>

Next == \/ ReadGlobal \/ ReadChosen \/ ReadGeneral \/ ReadDropFile \/ AddSections
        \/ ValidateAll \/ DropInvalid \/ ValidateAgain \/ MapDestinations

Spec == Init /\ [][Next]_vars

(***************************************************************************)
(* Properties                                                              *)
(***************************************************************************)
Finished == stage \in {"ready", "mapped"}

\* What a back end finds in its section: what its class and its service ask
\* for; a password for every option that gives it encrypted; and none that could
\* be decrypted left as it was.  One that could not, because it is no hexadecimal
\* string, is only warned about, and takes the place of the password as it is.
Complete(s) ==
  /\ IsValid(s) /\ s.unvalidated = {}
  /\ Needed(RequiredAtFirst(s.class), s.values) \subseteq DOMAIN s.values
  /\ s.values.type \in VirtTypes /\ s.values.sm_type \in SmTypes
  /\ \A e \in DOMAIN Destination(s.class) \cap DOMAIN s.values :
       Destination(s.class)[e] \in DOMAIN s.values
  /\ \A p \in Passwords \cap DOMAIN s.values : s.values[p] # "sealed"

\* Every section virt-who runs with is usable although options are renamed,
\* decrypted, moved and defaulted while it is validated; a print is a oneshot
\* (ConfigSection.validate, _check_effective_config_validity).
Usable ==
  Finished =>
    /\ \A n \in Sources : Complete(config[n])
    /\ LET g == config["global"].values
       IN g["print"] = "True" => g.oneshot = "True"

\* What virt-who reads of a section: print_ comes back with its default in a
\* second validation, and what is required may become less.
Comparable(s) ==
  [s EXCEPT !.values = [k \in DOMAIN s.values \ {"print_"} |-> s.values[k]],
            !.required = {}]

\* Validating a section again changes nothing: the result of the first round,
\* from which sections are dropped, is what virt-who runs with (the global
\* section is validated three times, the others twice).
WasValidated(n) ==
  n = "global" \/ (stage \in {"validated", "dropped"} /\ config[n].unvalidated = {})
Settled ==
  [][\A n \in DOMAIN config \cap DOMAIN config' :
       WasValidated(n) => Comparable(config'[n]) = Comparable(config[n])]_vars

\* What identifies a destination, and that a section asks for one of a kind.
FirstOf(kind) == IF kind = "Satellite5" THEN "sat_server" ELSE "owner"
Asks(values, kind) == \A k \in RequiredOf(kind) : Given(values, k)

\* The destinations of a source are those that its section asks for.
AsAsked(n) ==
  LET v == config[n].values
      dests == { d \in DOMAIN served : n \in served[d] }
  IN /\ \A kind \in Kinds : Asks(v, kind) => \E d \in dests : d.kind = kind
     /\ \A d \in dests \ {Default} :
          Asks(v, d.kind) /\ d.options[FirstOf(d.kind)] = v[FirstOf(d.kind)]
     /\ Default \in dests <=> /\ \A kind \in Kinds : ~Asks(v, kind)
                              /\ v.sm_type # "satellite"
     /\ dests = {} => /\ v.sm_type = "satellite"
                      /\ \E k \in {"sat_server", "sat_password"} \cap DOMAIN v : v[k] = ""

\* What a source reports goes to a destination of every kind whose options its
\* section gives, whatever its sm_type says, and never to the server or the owner
\* of another source; to the default destination if and only if it gives those of
\* no kind and is not for Satellite 5.  The only source without any destination is
\* one for Satellite 5 whose sat_server or sat_password is given but empty
\* (update_dest_to_source_map).
Served == stage = "mapped" => \A n \in Sources : AsAsked(n)

\* The docstring of Info: the destinations are the unique ones across all
\* configurations, so that a source is sent with the options it was given.
OwnOptions ==
  stage = "mapped" =>
    \A n \in Sources : \A i \in Infos(n) : i \in DOMAIN served /\ n \in served[i]

(***************************************************************************)
(* What makes Usable, Settled and Served provable                          *)
(***************************************************************************)
\* A section that was not validated yet: what from_dict makes.
Fresh(s) ==
  /\ s.unvalidated \subseteq DOMAIN s.values
  /\ DOMAIN s.values \ s.unvalidated = IF s.class \in VirtClasses
                                       THEN {"sm_type"} \ s.unvalidated ELSE {}
  /\ s.class \in VirtClasses /\ "sm_type" \notin s.unvalidated => s.values.sm_type = "sam"
  /\ \A p \in Passwords \cap DOMAIN s.values : s.values[p] # "sealed"
  /\ s.invalid = {} /\ s.missing = {} /\ s.required = RequiredAtFirst(s.class)

\* A section that was: nothing is left to validate, to move, to set to its
\* default or to find missing.
Steady(s) ==
  /\ s.unvalidated = {} /\ s.state = StateOf(s)
  /\ \A k \in DOMAIN Destination(s.class) \cap DOMAIN s.values :
       k \notin s.invalid => Destination(s.class)[k] \in DOMAIN s.values
  /\ DOMAIN Defaults(s.class) \ {"print_"} \subseteq DOMAIN s.values
  /\ "interval" \in DOMAIN s.values => s.values["interval"] # "low"
  /\ s.required \subseteq DOMAIN s.values \cup s.missing

SteadyVirt(s) ==
  /\ "virt_type" \notin DOMAIN s.values /\ s.values.type \in VirtTypes
  /\ s.values.sm_type \in SmTypes \/ "sm_type" \in s.invalid
  /\ \A p \in Passwords \cap DOMAIN s.values : s.values[p] # "sealed"
  /\ Needed(RequiredAtFirst(s.class), s.values) \subseteq s.required
  /\ Needed(s.required, s.values) \subseteq s.required

SteadyGlobal(s) ==
  /\ s.required = {} /\ "print_" \notin s.invalid /\ "print" \in DOMAIN s.values
  /\ \A p \in {"print_", "print"} \cap DOMAIN s.values :
       s.values[p] = "True" => s.values.oneshot = "True"

\* No class at all: the section is invalid and stays so.
SteadyNone(s) == s.required = {} /\ (s.invalid # {} \/ DOMAIN s.values = {})

Done(s) ==
  /\ Steady(s)
  /\ IF s.class \in VirtClasses THEN SteadyVirt(s)
     ELSE IF s.class = "GlobalSection" THEN SteadyGlobal(s) ELSE SteadyNone(s)

Fields == {"class", "values", "unvalidated", "invalid", "missing", "required", "state"}

SectionsOK ==
  \A n \in DOMAIN config :
    /\ DOMAIN config[n] = Fields /\ config[n].class \in Classes
    /\ n = "global" <=> config[n].class = "GlobalSection"

IsFallback(n) == n \in DOMAIN Fallback /\ config[n] = Fallback[n]

\* The global section is validated from the beginning, the others before the
\* invalid ones are dropped; the fallback only after that.
Progress ==
  /\ stage \in {"start", "chosen", "dropdir", "added", "validated", "dropped", "ready",
                "mapped"}
  /\ stage = "start" => DOMAIN config = {}
  /\ stage # "start" => "global" \in DOMAIN config /\ Done(config["global"])
  /\ stage \in {"chosen", "dropdir"} => DOMAIN config = {"global"}
  /\ stage = "added" => \A n \in DOMAIN config \ {"global"} : Fresh(config[n])
  /\ stage \in {"validated", "ready", "mapped"} => \A n \in DOMAIN config : Done(config[n])
  /\ stage = "dropped" => /\ \A n \in DOMAIN config : Done(config[n]) \/ IsFallback(n)
                          /\ \A n \in Sources : IsValid(config[n]) \/ IsFallback(n)
  /\ stage \in {"ready", "mapped"} => \A n \in Sources : IsValid(config[n])

ConfigTypeOK ==
  /\ input \in Inputs /\ unread \in Seq(Files) /\ dropDir \subseteq Files /\ IsFile(found)

ConfigInv == ConfigTypeOK /\ SectionsOK /\ Progress /\ Usable /\ Served
=============================================================================
