---------------------------- MODULE ConfigProofs ----------------------------
(***************************************************************************)
(* Theorems about Config: validating a section twice gives what validating *)
(* it once gave, and therefore every section that virt-who runs with is    *)
(* usable and served by a destination of its own.                          *)
(***************************************************************************)
EXTENDS Config, Naturals, TLAPS

(***************************************************************************)
(* The operators                                                           *)
(***************************************************************************)
Encrypted == {"encrypted_password", "rhsm_encrypted_password", "sat_encrypted_password"}
Requirable == {"owner", "server", "password", "is_hypervisor", "file", "sat_server",
               "sat_password"}

\* What the classes of back ends know, ask for and move, as far as proofs need it.
LEMMA VirtClassFacts ==
  ASSUME NEW class \in VirtClasses
  PROVE  /\ class \in Classes /\ class \notin {"ConfigSection", "GlobalSection"}
         /\ VirtKeys \subseteq Known(class) /\ "virt_type" \notin Known(class)
         /\ "interval" \notin Known(class)
         /\ RequiredAtFirst(class) \subseteq Requirable
         /\ DOMAIN Destination(class) = Encrypted
         /\ \A k \in Encrypted : Destination(class)[k] \in Passwords
         /\ {"type", "sm_type", "hypervisor_id"} \subseteq DOMAIN Defaults(class)
         /\ DOMAIN Defaults(class) \subseteq {"type", "sm_type", "hypervisor_id",
                                             "is_hypervisor"}
         /\ Defaults(class)["type"] = "libvirt"
<1>1. class \in Classes /\ class \notin {"ConfigSection", "GlobalSection"}
  BY DEF VirtClasses, VirtTypes, Classes
<1>2. VirtKeys \subseteq Known(class) /\ "virt_type" \notin Known(class)
      /\ "interval" \notin Known(class)
  BY <1>1 DEF Known, VirtKeys
<1>3. RequiredAtFirst(class) \subseteq Requirable
  BY DEF RequiredAtFirst, Requirable
<1>4. DOMAIN Destination(class) = Encrypted
      /\ \A k \in Encrypted : Destination(class)[k] \in Passwords
  BY <1>1 DEF Destination, Encrypted, Passwords
<1>5. /\ {"type", "sm_type", "hypervisor_id"} \subseteq DOMAIN Defaults(class)
      /\ DOMAIN Defaults(class) \subseteq {"type", "sm_type", "hypervisor_id",
                                           "is_hypervisor"}
      /\ Defaults(class)["type"] = "libvirt"
  BY <1>1 DEF Defaults, VirtDefaults, Update
<1> QED BY <1>1, <1>2, <1>3, <1>4, <1>5

\* What an update has, and from which side.
LEMMA UpdateFacts ==
  ASSUME NEW f, NEW g
  PROVE  /\ DOMAIN Update(f, g) = DOMAIN f \cup DOMAIN g
         /\ \A k \in DOMAIN g : Update(f, g)[k] = g[k]
         /\ \A k \in DOMAIN f \ DOMAIN g : Update(f, g)[k] = f[k]
  BY DEF Update

\* What is required depends on three options only; asking again adds nothing.
LEMMA NeededFacts ==
  ASSUME NEW R, NEW S, R \subseteq S, NEW values
  PROVE  /\ Needed(R, values) \subseteq Needed(S, values)
         /\ Needed(Needed(R, values), values) = Needed(R, values)
         /\ R \subseteq Requirable => Needed(R, values) \subseteq Requirable
  BY DEF Needed, Requirable

\* An option that has been given its destination; the others stay.
LEMMA MovedFacts ==
  ASSUME NEW values, NEW s, s.class \in VirtClasses
  PROVE  LET dest  == Destination(s.class)
             from  == { k \in Encrypted \cap DOMAIN values :
                          dest[k] \notin DOMAIN values /\ k \notin s.invalid }
             moved == Moved(values, s)
         IN /\ DOMAIN moved = (DOMAIN values \ from) \cup { dest[k] : k \in from }
            /\ \A k \in DOMAIN values \ from : moved[k] = values[k]
            /\ \A k \in { dest[f] : f \in from } :
                 k \in Passwords /\ \E f \in from : moved[k] = values[f]
            /\ \A k \in DOMAIN moved \cap Encrypted :
                 k \in s.invalid \/ dest[k] \in DOMAIN moved
<1> DEFINE dest  == Destination(s.class)
           from  == { k \in Encrypted \cap DOMAIN values :
                        dest[k] \notin DOMAIN values /\ k \notin s.invalid }
           to    == { dest[k] : k \in from }
           moved == Moved(values, s)
<1>1. DOMAIN dest = Encrypted /\ \A k \in Encrypted : dest[k] \in Passwords
  BY VirtClassFacts
<1>2. moved = [k \in (DOMAIN values \ from) \cup to |->
                 IF k \in to THEN values[CHOOSE f \in from : dest[f] = k] ELSE values[k]]
  BY <1>1 DEF Moved
<1>3. Encrypted \cap Passwords = {}
  BY DEF Encrypted, Passwords
<1>4. DOMAIN moved = (DOMAIN values \ from) \cup to
  BY <1>2
<1>5. \A k \in DOMAIN values \ from : moved[k] = values[k]
  <2>1. \A k \in to : k \notin DOMAIN values
    OBVIOUS
  <2> QED BY <1>2, <2>1
<1>6. ASSUME NEW k \in to PROVE k \in Passwords /\ \E f \in from : moved[k] = values[f]
  <2>1. \E f \in from : dest[f] = k
    OBVIOUS
  <2>2. (CHOOSE f \in from : dest[f] = k) \in from
    BY <2>1
  <2>3. moved[k] = values[CHOOSE f \in from : dest[f] = k]
    BY <1>2
  <2> QED BY <1>1, <2>1, <2>2, <2>3
<1>7. ASSUME NEW k \in DOMAIN moved \cap Encrypted
      PROVE  k \in s.invalid \/ dest[k] \in DOMAIN moved
  <2>1. k \notin to
    BY <1>1, <1>3
  <2>2. k \in DOMAIN values /\ k \notin from
    BY <1>4, <2>1
  <2>3. dest[k] \in DOMAIN values \/ k \in s.invalid
    BY <2>2
  <2>4. dest[k] \notin from
    BY <1>1, <1>3
  <2> QED BY <1>4, <2>3, <2>4
<1> QED BY <1>4, <1>5, <1>6, <1>7

(***************************************************************************)
(* The first validation of a back end's section                            *)
(***************************************************************************)
\* After virt_type became type, and what is required was asked for.
Opened(s) ==
  /\ DOMAIN s = Fields /\ s.class \in VirtClasses
  /\ s.unvalidated \subseteq DOMAIN s.values /\ "sm_type" \in DOMAIN s.values
  /\ DOMAIN s.values \ s.unvalidated \subseteq {"sm_type"}
  /\ "sm_type" \notin s.unvalidated => s.values.sm_type = "sam"
  /\ \A p \in Passwords \cap DOMAIN s.values : s.values[p] # "sealed"
  /\ s.invalid = {} /\ s.missing = {}
  /\ s.required = Needed(RequiredAtFirst(s.class), s.values)

LEMMA FreshOpens ==
  ASSUME NEW s, DOMAIN s = Fields, s.class \in VirtClasses, Fresh(s)
  PROVE  Opened(PreValidated(s)) /\ PreValidated(s).class = s.class
<1> DEFINE p == PreValidated(s)
           r == Renamed(s)
<1>1. p = [r EXCEPT !.required = Needed(@, r.values)]
  BY DEF PreValidated
<1>2. "sm_type" \in DOMAIN s.values /\ DOMAIN s.values \ s.unvalidated \subseteq {"sm_type"}
  BY DEF Fresh
<1>3. /\ DOMAIN r = Fields /\ r.class = s.class /\ r.invalid = {} /\ r.missing = {}
      /\ r.required = RequiredAtFirst(s.class)
  BY DEF Renamed, Fresh, Fields
<1>4. /\ r.unvalidated \subseteq DOMAIN r.values /\ "sm_type" \in DOMAIN r.values
      /\ DOMAIN r.values \ r.unvalidated \subseteq {"sm_type"}
      /\ "sm_type" \notin r.unvalidated => r.values.sm_type = "sam"
      /\ \A k \in Passwords \cap DOMAIN r.values : r.values[k] # "sealed"
  <2>1. CASE "virt_type" \notin DOMAIN s.values \/ "type" \in DOMAIN s.values
    <3>1. r = s
      BY <2>1 DEF Renamed
    <3> QED BY <1>2, <3>1 DEF Fresh
  <2>2. CASE "virt_type" \in DOMAIN s.values /\ "type" \notin DOMAIN s.values
    <3> DEFINE fresh == Update(s.values, [type |-> s.values.virt_type])
    <3>1. /\ r.values = [k \in DOMAIN fresh \ {"virt_type"} |-> fresh[k]]
          /\ r.unvalidated = (s.unvalidated \cup {"type"}) \ {"virt_type"}
      BY <2>2 DEF Renamed, Fields
    <3>2. /\ DOMAIN fresh = DOMAIN s.values \cup {"type"}
          /\ \A k \in DOMAIN s.values : fresh[k] = s.values[k]
      BY <2>2 DEF Update
    <3>3. /\ DOMAIN r.values = (DOMAIN s.values \cup {"type"}) \ {"virt_type"}
          /\ \A k \in DOMAIN s.values \ {"virt_type"} : r.values[k] = s.values[k]
      BY <2>2, <3>1, <3>2
    <3>4. "sm_type" \notin s.unvalidated => s.values.sm_type = "sam"
      BY DEF Fresh
    <3>5. \A k \in Passwords \cap DOMAIN s.values : s.values[k] # "sealed"
      BY DEF Fresh
    <3>6. s.unvalidated \subseteq DOMAIN s.values
      BY DEF Fresh
    <3>7. \A k \in Passwords \cap DOMAIN r.values : r.values[k] # "sealed"
      BY <3>3, <3>5 DEF Passwords
    <3>8. "sm_type" \notin r.unvalidated => r.values.sm_type = "sam"
      BY <1>2, <3>1, <3>3, <3>4
    <3> QED BY <1>2, <3>1, <3>3, <3>6, <3>7, <3>8
  <2> QED BY <2>1, <2>2
<1>5. /\ DOMAIN p = Fields /\ p.class = r.class /\ p.values = r.values
      /\ p.unvalidated = r.unvalidated /\ p.invalid = r.invalid /\ p.missing = r.missing
      /\ p.required = Needed(r.required, r.values)
  BY <1>1, <1>3 DEF Fields
<1> QED BY <1>3, <1>4, <1>5 DEF Opened

\* Every option left is known, and clean unless it was refused.
Clean(s) ==
  /\ DOMAIN s = Fields /\ s.class \in VirtClasses
  /\ s.unvalidated = {} /\ s.missing = {} /\ "sm_type" \in DOMAIN s.values
  /\ "virt_type" \notin DOMAIN s.values /\ "interval" \notin DOMAIN s.values
  /\ \A k \in Passwords \cap DOMAIN s.values : s.values[k] # "sealed"
  /\ "type" \in DOMAIN s.values => s.values.type \in VirtTypes
  /\ s.values.sm_type \in SmTypes \/ "sm_type" \in s.invalid
  /\ \A k \in Encrypted \cap DOMAIN s.values :
       s.values[k] = "sealed" => \/ k \in s.invalid
                                 \/ Destination(s.class)[k] \in DOMAIN s.values
  /\ s.required \subseteq Requirable

LEMMA OpenedCleans ==
  ASSUME NEW s, Opened(s), NEW keyFile \in BOOLEAN
  PROVE  LET v == Validated(s, keyFile)
         IN /\ Clean(v) /\ v.class = s.class /\ v.required = s.required
            /\ v.invalid = Refused(s, keyFile) /\ v.values.sm_type = s.values.sm_type
            /\ "server" \in DOMAIN v.values <=> "server" \in DOMAIN s.values
            /\ "type" \in DOMAIN v.values <=> "type" \in DOMAIN s.values
            /\ "type" \in DOMAIN s.values => v.values.type = CheckedType(s)
<1> DEFINE v == Validated(s, keyFile)
           open == Decrypted(s, keyFile)
           kept == DOMAIN s.values \ (s.unvalidated \ Known(s.class))
           dest == Destination(s.class)
<1>1. /\ VirtKeys \subseteq Known(s.class) /\ "virt_type" \notin Known(s.class)
      /\ "interval" \notin Known(s.class) /\ DOMAIN dest = Encrypted
      /\ s.class \in Classes /\ \A k \in Encrypted : dest[k] \in Passwords
      /\ RequiredAtFirst(s.class) \subseteq Requirable
  BY VirtClassFacts DEF Opened
<1>2. /\ DOMAIN s = Fields /\ s.class \in VirtClasses
      /\ s.unvalidated \subseteq DOMAIN s.values /\ "sm_type" \in DOMAIN s.values
      /\ DOMAIN s.values \ s.unvalidated \subseteq {"sm_type"}
      /\ "sm_type" \notin s.unvalidated => s.values.sm_type = "sam"
      /\ \A p \in Passwords \cap DOMAIN s.values : s.values[p] # "sealed"
      /\ s.invalid = {} /\ s.missing = {}
      /\ s.required = Needed(RequiredAtFirst(s.class), s.values)
  BY DEF Opened
<1>3. /\ DOMAIN v = Fields /\ v.class = s.class /\ v.required = s.required
      /\ v.unvalidated = {} /\ v.missing = {} /\ v.invalid = Refused(s, keyFile)
      /\ v.values = [k \in kept \cup open |->
                       IF k \in open THEN "secret" ELSE Cleaned(s, k)]
  BY <1>2 DEF Validated, Fields
<1>4. open \subseteq Passwords
  BY <1>1 DEF Decrypted
<1>5. /\ DOMAIN v.values = kept \cup open
      /\ \A k \in open : v.values[k] = "secret"
      /\ \A k \in kept \ open : v.values[k] = Cleaned(s, k)
  BY <1>3
<1>6. "virt_type" \notin kept /\ "interval" \notin kept /\ "sm_type" \in kept
  BY <1>1, <1>2 DEF VirtKeys
<1>7. \A k \in kept \ open : k # "type" => v.values[k] = s.values[k]
  BY <1>5, <1>6 DEF Cleaned
<1>8. \A k \in Passwords \cap DOMAIN v.values : v.values[k] # "sealed"
  BY <1>2, <1>5, <1>7 DEF Passwords
<1>9. v.values.sm_type = s.values.sm_type /\ "sm_type" \in DOMAIN v.values
  BY <1>4, <1>5, <1>6, <1>7 DEF Passwords
<1>10. v.values.sm_type \in SmTypes \/ "sm_type" \in v.invalid
  BY <1>1, <1>2, <1>3, <1>9 DEF Refused, SmTypes, VirtKeys
<1>11. /\ "server" \in DOMAIN v.values <=> "server" \in DOMAIN s.values
       /\ "type" \in DOMAIN v.values <=> "type" \in DOMAIN s.values
  BY <1>1, <1>4, <1>5 DEF Passwords, VirtKeys
<1>12. ASSUME "type" \in DOMAIN s.values
       PROVE  v.values.type = CheckedType(s) /\ v.values.type \in VirtTypes
  <2>1. "type" \in kept \ open /\ "type" \in s.unvalidated
    BY <1>1, <1>2, <1>4, <1>12 DEF Passwords, VirtKeys
  <2>2. v.values.type = CheckedType(s)
    BY <1>2, <1>5, <2>1 DEF Cleaned
  <2> QED BY <1>12, <2>1, <2>2 DEF CheckedType, VirtTypes
<1>13. ASSUME NEW k \in Encrypted \cap DOMAIN v.values, v.values[k] = "sealed"
       PROVE  k \in v.invalid \/ dest[k] \in DOMAIN v.values
  <2>1. k \in kept \ open /\ k # "type" /\ k # "sm_type"
    BY <1>4, <1>5 DEF Encrypted, Passwords
  <2>2. s.values[k] = "sealed" /\ k \in s.unvalidated /\ k \in Known(s.class)
    BY <1>2, <1>7, <1>13, <2>1
  <2>3. CASE keyFile
    <3>1. dest[k] \in open
      BY <1>1, <1>2, <2>2, <2>3 DEF Decrypted
    <3> QED BY <1>5, <3>1
  <2>4. CASE ~keyFile
    BY <1>1, <1>2, <1>3, <2>2, <2>4 DEF Refused
  <2> QED BY <2>3, <2>4
<1>14. v.required \subseteq Requirable
  BY <1>1, <1>2, <1>3, NeededFacts
<1>15. "virt_type" \notin DOMAIN v.values /\ "interval" \notin DOMAIN v.values
  BY <1>4, <1>5, <1>6 DEF Passwords
<1>16. Clean(v)
  BY <1>2, <1>3, <1>8, <1>9, <1>10, <1>11, <1>12, <1>13, <1>14, <1>15 DEF Clean
<1> QED BY <1>3, <1>9, <1>11, <1>12, <1>16

\* The fields of a section after the end of a validation.
LEMMA PostFields ==
  ASSUME NEW s, DOMAIN s = Fields
  PROVE  LET t == PostValidated(s)
         IN /\ DOMAIN t = Fields /\ t.class = s.class /\ t.unvalidated = s.unvalidated
            /\ t.invalid = s.invalid /\ t.required = s.required
            /\ t.missing = Missing(s) /\ t.state = StateOf(t)
            /\ t.values = Moved(Update(Defaults(s.class), s.values), s)
<1> DEFINE full == Moved(Update(Defaults(s.class), s.values), s)
           u == [s EXCEPT !.missing = Missing(s), !.values = full]
           t == PostValidated(s)
<1>1. t = [u EXCEPT !.state = StateOf(u)]
  BY DEF PostValidated
<1>2. /\ DOMAIN u = Fields /\ u.class = s.class /\ u.unvalidated = s.unvalidated
      /\ u.invalid = s.invalid /\ u.required = s.required
      /\ u.missing = Missing(s) /\ u.values = full
  BY DEF Fields
<1>3. /\ DOMAIN t = Fields /\ t.class = u.class /\ t.unvalidated = u.unvalidated
      /\ t.invalid = u.invalid /\ t.required = u.required
      /\ t.missing = u.missing /\ t.values = u.values /\ t.state = StateOf(u)
  BY <1>1, <1>2 DEF Fields
<1>4. StateOf(t) = StateOf(u)
  BY <1>3 DEF StateOf
<1> QED BY <1>2, <1>3, <1>4

\* Defaults and destinations make a clean section a steady one.
LEMMA CleanIsDone ==
  ASSUME NEW s, Clean(s)
  PROVE  LET t == PostValidated(s)
         IN /\ Steady(t) /\ "virt_type" \notin DOMAIN t.values
            /\ t.values.type = IF "type" \in DOMAIN s.values THEN s.values.type ELSE "libvirt"
            /\ t.values.type \in VirtTypes /\ t.values.sm_type = s.values.sm_type
            /\ \A p \in Passwords \cap DOMAIN t.values : t.values[p] # "sealed"
            /\ "type" \in DOMAIN t.values
            /\ "server" \in DOMAIN t.values <=> "server" \in DOMAIN s.values
<1> DEFINE t == PostValidated(s)
           dest == Destination(s.class)
           m == Update(Defaults(s.class), s.values)
           from == { k \in Encrypted \cap DOMAIN m :
                       dest[k] \notin DOMAIN m /\ k \notin s.invalid }
           to == { dest[k] : k \in from }
<1>1. /\ {"type", "sm_type", "hypervisor_id"} \subseteq DOMAIN Defaults(s.class)
      /\ DOMAIN Defaults(s.class) \subseteq {"type", "sm_type", "hypervisor_id",
                                             "is_hypervisor"}
      /\ Defaults(s.class)["type"] = "libvirt" /\ DOMAIN dest = Encrypted
      /\ \A k \in Encrypted : dest[k] \in Passwords
  BY VirtClassFacts DEF Clean
<1>2. /\ DOMAIN m = DOMAIN Defaults(s.class) \cup DOMAIN s.values
      /\ \A k \in DOMAIN s.values : m[k] = s.values[k]
      /\ \A k \in DOMAIN Defaults(s.class) \ DOMAIN s.values : m[k] = Defaults(s.class)[k]
  BY UpdateFacts
<1>3. /\ DOMAIN t = Fields /\ t.class = s.class /\ t.unvalidated = {}
      /\ t.invalid = s.invalid /\ t.required = s.required
      /\ t.missing = Missing(s) /\ t.state = StateOf(t) /\ t.values = Moved(m, s)
  BY PostFields DEF Clean
<1>4. /\ DOMAIN t.values = (DOMAIN m \ from) \cup to
      /\ \A k \in DOMAIN m \ from : t.values[k] = m[k]
      /\ \A k \in to : k \in Passwords /\ \E f \in from : t.values[k] = m[f]
      /\ \A k \in DOMAIN t.values \cap Encrypted :
           k \in s.invalid \/ dest[k] \in DOMAIN t.values
  <2>1. s.class \in VirtClasses
    BY DEF Clean
  <2> HIDE DEF m, t
  <2>2. /\ DOMAIN Moved(m, s) = (DOMAIN m \ from) \cup to
        /\ \A k \in DOMAIN m \ from : Moved(m, s)[k] = m[k]
        /\ \A k \in to : k \in Passwords /\ \E f \in from : Moved(m, s)[k] = m[f]
        /\ \A k \in DOMAIN Moved(m, s) \cap Encrypted :
             k \in s.invalid \/ dest[k] \in DOMAIN Moved(m, s)
    BY <2>1, MovedFacts, Zenon
  <2> QED BY <1>3, <2>2, Zenon
<1>5. \A k \in from : k \in DOMAIN s.values /\ m[k] = s.values[k] /\ s.values[k] # "sealed"
  <2> SUFFICES ASSUME NEW k \in from
               PROVE  k \in DOMAIN s.values /\ m[k] = s.values[k] /\ s.values[k] # "sealed"
    OBVIOUS
  <2>1. k \in DOMAIN s.values
    BY <1>1, <1>2 DEF Encrypted
  <2> QED BY <1>2, <2>1 DEF Clean
<1>6. \A p \in Passwords \cap DOMAIN t.values : t.values[p] # "sealed"
  <2> SUFFICES ASSUME NEW p \in Passwords \cap DOMAIN t.values PROVE t.values[p] # "sealed"
    OBVIOUS
  <2>1. CASE p \in to
    BY <1>4, <1>5, <2>1
  <2>2. CASE p \notin to
    <3>1. p \in DOMAIN s.values /\ t.values[p] = s.values[p]
      BY <1>1, <1>2, <1>4, <2>2 DEF Passwords
    <3> QED BY <3>1 DEF Clean
  <2> QED BY <2>1, <2>2
<1>7. \A k \in DOMAIN m \ Encrypted : k \in DOMAIN t.values /\ t.values[k] = m[k]
  BY <1>4
<1>8. DOMAIN Defaults(s.class) \subseteq DOMAIN t.values
  BY <1>1, <1>2, <1>7 DEF Encrypted
<1>9. s.required \subseteq DOMAIN t.values \cup t.missing
  <2>1. s.required \cap Encrypted = {}
    BY DEF Clean, Requirable, Encrypted
  <2>2. \A k \in s.required : k \in t.missing \/ k \in DOMAIN m
    BY <1>2, <1>3 DEF Missing
  <2> QED BY <1>7, <2>1, <2>2
<1>10. "interval" \notin DOMAIN t.values /\ "virt_type" \notin DOMAIN t.values
  BY <1>1, <1>2, <1>4 DEF Clean, Passwords
<1>11. Steady(t)
  BY <1>1, <1>3, <1>4, <1>8, <1>9, <1>10 DEF Steady
<1>12. /\ t.values.type = IF "type" \in DOMAIN s.values THEN s.values.type ELSE "libvirt"
       /\ t.values.type \in VirtTypes
  BY <1>1, <1>2, <1>7 DEF Clean, Encrypted, VirtTypes
<1>13. t.values.sm_type = s.values.sm_type
  BY <1>2, <1>7 DEF Clean, Encrypted
<1>14. "server" \in DOMAIN t.values <=> "server" \in DOMAIN s.values
  BY <1>1, <1>2, <1>4 DEF Encrypted, Passwords
<1>15. "type" \in DOMAIN t.values
  BY <1>1, <1>8
<1> QED BY <1>6, <1>10, <1>11, <1>12, <1>13, <1>14, <1>15

\* The steps of a validation keep the fields of the section.
LEMMA ValidatedFields ==
  ASSUME NEW s, DOMAIN s = Fields, NEW keyFile
  PROVE  LET v == Validated(s, keyFile)
             open == Decrypted(s, keyFile)
             kept == DOMAIN s.values \ (s.unvalidated \ Known(s.class))
         IN /\ DOMAIN v = Fields /\ v.class = s.class /\ v.required = s.required
            /\ v.unvalidated = {} /\ v.missing = s.missing
            /\ v.invalid = s.invalid \cup Refused(s, keyFile)
            /\ v.values = [k \in kept \cup open |->
                             IF k \in open THEN "secret" ELSE Cleaned(s, k)]
  BY DEF Validated, Fields

LEMMA ImpliedFields ==
  ASSUME NEW s, DOMAIN s = Fields
  PROVE  LET i == Implied(s)
         IN /\ DOMAIN i = Fields /\ i.class = s.class /\ i.required = s.required
            /\ i.unvalidated = s.unvalidated /\ i.missing = s.missing
            /\ i.invalid = s.invalid
            /\ i.values = IF /\ s.class = "GlobalSection"
                             /\ \E p \in {"print_", "print"} \cap DOMAIN s.values :
                                  s.values[p] = "True"
                          THEN Update(s.values, [oneshot |-> "True"]) ELSE s.values
  BY DEF Implied, Fields

\* A section of a back end is steady after its first validation.
LEMMA VirtDone ==
  ASSUME NEW s, DOMAIN s = Fields, s.class \in VirtClasses, Fresh(s), NEW keyFile \in BOOLEAN
  PROVE  LET t == Validate(s, keyFile)
         IN DOMAIN t = Fields /\ t.class = s.class /\ Done(t)
<1> DEFINE p == PreValidated(s)
           v == Validated(p, keyFile)
           t == PostValidated(v)
<1>1. Opened(p) /\ p.class = s.class
  BY FreshOpens
<1>2. /\ Clean(v) /\ v.class = s.class /\ v.required = p.required
      /\ v.values.sm_type = p.values.sm_type
      /\ "server" \in DOMAIN v.values <=> "server" \in DOMAIN p.values
      /\ "type" \in DOMAIN v.values <=> "type" \in DOMAIN p.values
      /\ "type" \in DOMAIN p.values => v.values.type = CheckedType(p)
  BY <1>1, OpenedCleans
<1>3. Implied(v) = v
  BY <1>2, VirtClassFacts DEF Implied
<1>4. Validate(s, keyFile) = t
  BY <1>3 DEF Validate
<1>5. DOMAIN t = Fields /\ t.class = v.class /\ t.required = v.required /\ t.invalid = v.invalid
  BY <1>2, PostFields DEF Clean
<1>6. /\ Steady(t) /\ "virt_type" \notin DOMAIN t.values
      /\ t.values.type = IF "type" \in DOMAIN v.values THEN v.values.type ELSE "libvirt"
      /\ t.values.type \in VirtTypes /\ t.values.sm_type = v.values.sm_type
      /\ \A k \in Passwords \cap DOMAIN t.values : t.values[k] # "sealed"
      /\ "type" \in DOMAIN t.values
      /\ "server" \in DOMAIN t.values <=> "server" \in DOMAIN v.values
  BY <1>2, CleanIsDone
<1>7. "type" \in DOMAIN p.values =>
        t.values.type = IF p.values.type \in VirtTypes THEN p.values.type ELSE "libvirt"
  <2>1. ASSUME "type" \in DOMAIN p.values PROVE "type" \in p.unvalidated
    BY <1>1, <2>1 DEF Opened
  <2> QED BY <1>2, <1>6, <2>1 DEF CheckedType
<1>8. p.required = Needed(RequiredAtFirst(s.class), p.values)
  BY <1>1 DEF Opened
<1>9. Needed(RequiredAtFirst(s.class), t.values) \subseteq t.required
  BY <1>2, <1>5, <1>6, <1>7, <1>8 DEF Needed, VirtTypes
<1>10. Needed(t.required, t.values) \subseteq t.required
  BY <1>2, <1>5, <1>6, <1>8 DEF Needed
<1>11. SteadyVirt(t)
  BY <1>2, <1>5, <1>6, <1>9, <1>10 DEF SteadyVirt, Clean
<1> QED BY <1>2, <1>4, <1>5, <1>6, <1>11 DEF Done

(***************************************************************************)
(* The first validation of the other sections                              *)
(***************************************************************************)
LEMMA OtherFacts ==
  /\ RequiredAtFirst("GlobalSection") = {} /\ RequiredAtFirst("ConfigSection") = {}
  /\ DOMAIN Defaults("GlobalSection") = {"oneshot", "print_", "interval"}
  /\ Defaults("GlobalSection")["print_"] = "False"
  /\ Defaults("GlobalSection")["interval"] = "3600"
  /\ DOMAIN Defaults("ConfigSection") = {}
  /\ DOMAIN Destination("GlobalSection") = {"print_"}
  /\ Destination("GlobalSection")["print_"] = "print"
  /\ DOMAIN Destination("ConfigSection") = {}
  /\ Known("ConfigSection") = {"type"}
  /\ Known("GlobalSection") = {"type", "oneshot", "print_", "interval"}
  /\ "GlobalSection" \notin VirtClasses /\ "ConfigSection" \notin VirtClasses
  BY DEF RequiredAtFirst, Defaults, Destination, Known, VirtClasses, VirtTypes

\* A section of no class is invalid after its first validation.
LEMMA NoneDone ==
  ASSUME NEW s, DOMAIN s = Fields, s.class = "ConfigSection", Fresh(s), NEW keyFile
  PROVE  LET t == Validate(s, keyFile)
         IN DOMAIN t = Fields /\ t.class = s.class /\ Done(t)
<1> DEFINE v == Validated(s, keyFile)
           m == Update(Defaults(v.class), v.values)
           t == PostValidated(v)
<1>1. PreValidated(s) = s
  BY OtherFacts DEF PreValidated
<1>2. /\ DOMAIN v = Fields /\ v.class = s.class /\ v.required = {}
      /\ v.unvalidated = {} /\ v.missing = {} /\ v.invalid = Refused(s, keyFile)
      /\ DOMAIN v.values = DOMAIN s.values \ (s.unvalidated \ Known(s.class))
  <2>1. Decrypted(s, keyFile) = {}
    BY OtherFacts DEF Decrypted
  <2>2. s.required = {} /\ s.missing = {} /\ s.invalid = {}
    BY OtherFacts DEF Fresh
  <2> DEFINE kept == DOMAIN s.values \ (s.unvalidated \ Known(s.class))
             open == Decrypted(s, keyFile)
  <2> HIDE DEF v
  <2>3. /\ DOMAIN v = Fields /\ v.class = s.class /\ v.required = s.required
        /\ v.unvalidated = {} /\ v.missing = s.missing
        /\ v.invalid = s.invalid \cup Refused(s, keyFile)
        /\ v.values = [k \in kept \cup open |->
                         IF k \in open THEN "secret" ELSE Cleaned(s, k)]
    BY ValidatedFields DEF v
  <2> HIDE DEF kept
  <2>4. DOMAIN v.values = kept
    BY <2>1, <2>3
  <2> QED BY <2>2, <2>3, <2>4 DEF kept
<1>3. DOMAIN v.values = {} \/ v.invalid # {}
  <2>1. DOMAIN s.values = s.unvalidated
    BY OtherFacts DEF Fresh
  <2>2. DOMAIN v.values \subseteq s.unvalidated \cap {"type"}
    BY <1>2, <2>1, OtherFacts
  <2>3. "type" \in s.unvalidated => "type" \in Refused(s, keyFile)
    BY OtherFacts DEF Refused
  <2> QED BY <1>2, <2>2, <2>3
<1>4. Implied(v) = v
  BY <1>2 DEF Implied
<1>5. Validate(s, keyFile) = t
  BY <1>1, <1>4 DEF Validate
<1>6. /\ DOMAIN t = Fields /\ t.class = v.class /\ t.unvalidated = {} /\ t.invalid = v.invalid
      /\ t.required = {} /\ t.missing = Missing(v) /\ t.state = StateOf(t)
      /\ t.values = Moved(m, v)
  BY <1>2, PostFields
<1>7. DOMAIN m = DOMAIN v.values
  <2>1. DOMAIN Defaults(v.class) = {}
    BY <1>2, OtherFacts
  <2> HIDE DEF v
  <2> QED BY <2>1 DEF Update
<1>8. DOMAIN t.values = DOMAIN v.values
  BY <1>2, <1>6, <1>7, OtherFacts DEF Moved
<1>9. \A k \in DOMAIN v.values : k = "type"
  <2>1. DOMAIN s.values = s.unvalidated
    BY OtherFacts DEF Fresh
  <2> QED BY <1>2, <2>1, OtherFacts
<1>10. Steady(t) /\ SteadyNone(t)
  BY <1>2, <1>3, <1>6, <1>8, <1>9, OtherFacts DEF Steady, SteadyNone
<1> QED BY <1>2, <1>5, <1>6, <1>10, OtherFacts DEF Done

\* Printing implies oneshot, and print_ becomes print.
LEMMA GlobalDone ==
  ASSUME NEW s, DOMAIN s = Fields, s.class = "GlobalSection", Fresh(s), NEW keyFile
  PROVE  LET t == Validate(s, keyFile)
         IN DOMAIN t = Fields /\ t.class = s.class /\ Done(t)
<1> DEFINE v == Validated(s, keyFile)
           i == Implied(v)
           m == Update(Defaults(i.class), i.values)
           t == PostValidated(i)
<1>1. PreValidated(s) = s
  BY OtherFacts DEF PreValidated
<1>2. Validate(s, keyFile) = t
  BY <1>1 DEF Validate
<1>3. /\ DOMAIN v = Fields /\ v.class = s.class /\ v.required = {}
      /\ v.unvalidated = {} /\ v.missing = {} /\ v.invalid = Refused(s, keyFile)
      /\ "interval" \in DOMAIN v.values => v.values["interval"] # "low"
  <2>1. Decrypted(s, keyFile) = {}
    BY OtherFacts DEF Decrypted
  <2>2. s.required = {} /\ s.missing = {} /\ s.invalid = {}
    BY OtherFacts DEF Fresh
  <2> DEFINE kept == DOMAIN s.values \ (s.unvalidated \ Known(s.class))
             open == Decrypted(s, keyFile)
  <2> HIDE DEF v
  <2>3. /\ DOMAIN v = Fields /\ v.class = s.class /\ v.required = s.required
        /\ v.unvalidated = {} /\ v.missing = s.missing
        /\ v.invalid = s.invalid \cup Refused(s, keyFile)
        /\ v.values = [k \in kept \cup open |->
                         IF k \in open THEN "secret" ELSE Cleaned(s, k)]
    BY ValidatedFields DEF v
  <2> HIDE DEF kept
  <2>4. "interval" \in DOMAIN v.values => v.values["interval"] = Cleaned(s, "interval")
    BY <2>1, <2>3
  <2>5. Cleaned(s, "interval") # "low"
    BY DEF Cleaned
  <2> QED BY <2>2, <2>3, <2>4, <2>5
<1>4. "print_" \notin v.invalid
  BY <1>3, OtherFacts DEF Refused
<1>5. /\ DOMAIN i = Fields /\ i.class = s.class /\ i.required = {}
      /\ i.unvalidated = {} /\ i.missing = {} /\ i.invalid = v.invalid
      /\ \A k \in DOMAIN i.values : k # "oneshot" =>
                                      k \in DOMAIN v.values /\ i.values[k] = v.values[k]
      /\ \A p \in {"print_", "print"} \cap DOMAIN i.values :
           i.values[p] = "True" => "oneshot" \in DOMAIN i.values /\ i.values.oneshot = "True"
  <2>1. CASE \E p \in {"print_", "print"} \cap DOMAIN v.values : v.values[p] = "True"
    <3>1. i.values = Update(v.values, [oneshot |-> "True"])
      BY <1>3, <2>1, ImpliedFields
    <3>2. /\ DOMAIN i.values = DOMAIN v.values \cup {"oneshot"} /\ i.values.oneshot = "True"
          /\ \A k \in DOMAIN v.values \ {"oneshot"} : i.values[k] = v.values[k]
      BY <3>1 DEF Update
    <3> QED BY <1>3, <3>2, ImpliedFields
  <2>2. CASE ~ \E p \in {"print_", "print"} \cap DOMAIN v.values : v.values[p] = "True"
    <3>1. i.values = v.values
      BY <2>2, <1>3, ImpliedFields
    <3> QED BY <1>3, <2>2, <3>1, ImpliedFields
  <2> QED BY <2>1, <2>2
<1>6. /\ DOMAIN m = {"oneshot", "print_", "interval"} \cup DOMAIN i.values
      /\ \A k \in DOMAIN i.values : m[k] = i.values[k]
      /\ \A k \in {"oneshot", "print_", "interval"} \ DOMAIN i.values :
           m[k] = Defaults("GlobalSection")[k]
  <2>1. m = Update(Defaults("GlobalSection"), i.values)
    BY <1>5
  <2> HIDE DEF m, i
  <2> QED BY <2>1, OtherFacts DEF Update
<1>7. /\ DOMAIN t = Fields /\ t.class = i.class /\ t.unvalidated = {} /\ t.invalid = i.invalid
      /\ t.required = {} /\ t.missing = Missing(i) /\ t.state = StateOf(t)
      /\ t.values = Moved(m, i)
  BY <1>5, PostFields
<1>8. /\ "print" \in DOMAIN t.values /\ {"oneshot", "interval"} \subseteq DOMAIN t.values
      /\ \A k \in DOMAIN t.values \ {"print"} : k \in DOMAIN m /\ t.values[k] = m[k]
      /\ t.values["print"] = IF "print" \in DOMAIN m THEN m["print"] ELSE m["print_"]
  <2> DEFINE from == { k \in {"print_"} \cap DOMAIN m : "print" \notin DOMAIN m }
             to == { k \in {"print"} : from # {} }
  <2> HIDE DEF m
  <2>1. Moved(m, i) = [k \in (DOMAIN m \ from) \cup to |->
                         IF k \in to THEN m["print_"] ELSE m[k]]
    <3> DEFINE dest == Destination("GlobalSection")
    <3>1. { k \in DOMAIN dest \cap DOMAIN m : dest[k] \notin DOMAIN m /\ k \notin i.invalid }
          = from
      BY <1>4, <1>5, OtherFacts
    <3>2. { dest[k] : k \in from } = to
      BY OtherFacts
    <3>3. \A k \in to : (CHOOSE f \in from : dest[f] = k) = "print_"
      BY OtherFacts
    <3>4. Moved(m, i) = [k \in (DOMAIN m \ from) \cup { dest[k] : k \in from } |->
                           IF k \in { dest[f] : f \in from }
                           THEN m[CHOOSE f \in from : dest[f] = k] ELSE m[k]]
      BY <1>5, <3>1 DEF Moved
    <3> QED BY <3>2, <3>3, <3>4
  <2> QED BY <1>6, <1>7, <2>1
<1>9. \A p \in {"print_", "print"} \cap DOMAIN t.values :
        t.values[p] = "True" => t.values.oneshot = "True"
  <2> SUFFICES ASSUME NEW p \in {"print_", "print"}, p \in DOMAIN t.values,
                      t.values[p] = "True"
               PROVE  t.values.oneshot = "True"
    OBVIOUS
  <2>1. \E q \in {"print_", "print"} \cap DOMAIN m : m[q] = "True"
    BY <1>6, <1>8
  <2>2. \E q \in {"print_", "print"} \cap DOMAIN i.values : i.values[q] = "True"
    BY <1>6, <2>1, OtherFacts
  <2>3. "oneshot" \in DOMAIN i.values /\ i.values.oneshot = "True"
    BY <1>5, <2>2
  <2> QED BY <1>6, <1>8, <2>3
<1>10. t.values["interval"] # "low"
  BY <1>3, <1>5, <1>6, <1>8, OtherFacts
<1>11. Steady(t) /\ SteadyGlobal(t)
  BY <1>4, <1>5, <1>7, <1>8, <1>9, <1>10, OtherFacts DEF Steady, SteadyGlobal
<1> QED BY <1>2, <1>5, <1>7, <1>11, OtherFacts DEF Done

\* A section is steady after its first validation, whatever its class.
LEMMA FirstValidation ==
  ASSUME NEW s, DOMAIN s = Fields, s.class \in Classes, Fresh(s), NEW keyFile \in BOOLEAN
  PROVE  LET t == Validate(s, keyFile)
         IN DOMAIN t = Fields /\ t.class = s.class /\ Done(t)
<1>1. s.class \in VirtClasses \/ s.class = "GlobalSection" \/ s.class = "ConfigSection"
  BY DEF Classes
<1> QED BY <1>1, VirtDone, GlobalDone, NoneDone

(***************************************************************************)
(* Validating again                                                        *)
(***************************************************************************)
\* All that another validation changes: less may be required, and print_ comes
\* back as a default.
LEMMA SecondValidation ==
  ASSUME NEW s, DOMAIN s = Fields, s.class \in Classes, Done(s), NEW keyFile
  PROVE  LET t == Validate(s, keyFile)
             back == { k \in {"print_"} : s.class = "GlobalSection" } \ DOMAIN s.values
         IN /\ DOMAIN t = Fields /\ t.class = s.class /\ t.unvalidated = {}
            /\ t.invalid = s.invalid /\ t.missing = s.missing /\ t.state = s.state
            /\ t.required = IF s.class \in VirtClasses THEN Needed(s.required, s.values)
                            ELSE s.required
            /\ DOMAIN t.values = DOMAIN s.values \cup back
            /\ \A k \in DOMAIN s.values : t.values[k] = s.values[k]
            /\ \A k \in back : t.values[k] = "False"
<1> DEFINE p == PreValidated(s)
           v == Validated(p, keyFile)
           i == Implied(v)
           m == Update(Defaults(i.class), i.values)
           t == PostValidated(i)
           back == { k \in {"print_"} : s.class = "GlobalSection" } \ DOMAIN s.values
<1>1. /\ DOMAIN p = Fields /\ p.class = s.class /\ p.unvalidated = {}
      /\ p.invalid = s.invalid /\ p.missing = s.missing /\ p.values = s.values
      /\ p.required = IF s.class \in VirtClasses THEN Needed(s.required, s.values)
                      ELSE s.required
  <2>1. CASE s.class \notin VirtClasses
    BY <2>1 DEF PreValidated, Done, Steady
  <2>2. CASE s.class \in VirtClasses
    <3>1. Renamed(s) = s
      BY <2>2 DEF Renamed, Done, SteadyVirt
    <3>2. p = [s EXCEPT !.required = Needed(@, s.values)]
      BY <2>2, <3>1 DEF PreValidated
    <3> QED BY <2>2, <3>2 DEF Fields, Done, Steady
  <2> QED BY <2>1, <2>2
<1>2. p.required \subseteq DOMAIN s.values \cup s.missing
  BY <1>1 DEF Done, Steady, SteadyVirt
<1>3. /\ DOMAIN v = Fields /\ v.class = s.class /\ v.required = p.required
      /\ v.unvalidated = {} /\ v.missing = s.missing /\ v.invalid = s.invalid
      /\ DOMAIN v.values = DOMAIN s.values
      /\ \A k \in DOMAIN s.values : v.values[k] = s.values[k]
  <2>1. Decrypted(p, keyFile) = {} /\ Refused(p, keyFile) = {}
    BY <1>1 DEF Decrypted, Refused
  <2> DEFINE kept == DOMAIN p.values \ (p.unvalidated \ Known(p.class))
             open == Decrypted(p, keyFile)
  <2> HIDE DEF v, p
  <2>2. /\ DOMAIN v = Fields /\ v.class = p.class /\ v.required = p.required
        /\ v.unvalidated = {} /\ v.missing = p.missing
        /\ v.invalid = p.invalid \cup Refused(p, keyFile)
        /\ v.values = [k \in kept \cup open |->
                         IF k \in open THEN "secret" ELSE Cleaned(p, k)]
    BY <1>1, ValidatedFields DEF v
  <2>3. kept = DOMAIN s.values
    BY <1>1
  <2>4. \A k \in DOMAIN s.values : Cleaned(p, k) = s.values[k]
    <3>1. "interval" \in DOMAIN s.values => s.values["interval"] # "low"
      BY DEF Done, Steady
    <3>2. CheckedType(p) = IF "type" \in DOMAIN s.values THEN s.values.type ELSE "none"
      BY <1>1 DEF CheckedType
    <3> QED BY <1>1, <3>1, <3>2 DEF Cleaned
  <2> HIDE DEF kept
  <2>5. v.values = [k \in DOMAIN s.values |-> Cleaned(p, k)]
    BY <2>1, <2>2, <2>3
  <2> QED BY <1>1, <2>1, <2>2, <2>4, <2>5
<1>4. /\ DOMAIN i = Fields /\ i.class = s.class /\ i.required = p.required
      /\ i.unvalidated = {} /\ i.missing = s.missing /\ i.invalid = s.invalid
      /\ DOMAIN i.values = DOMAIN s.values
      /\ \A k \in DOMAIN s.values : i.values[k] = s.values[k]
  <2> HIDE DEF v, p
  <2>1. CASE /\ v.class = "GlobalSection"
             /\ \E q \in {"print_", "print"} \cap DOMAIN v.values : v.values[q] = "True"
    <3>1. i.values = Update(v.values, [oneshot |-> "True"])
      BY <1>3, <2>1, ImpliedFields
    <3>2. /\ DOMAIN i.values = DOMAIN v.values \cup {"oneshot"} /\ i.values.oneshot = "True"
          /\ \A k \in DOMAIN v.values \ {"oneshot"} : i.values[k] = v.values[k]
      BY <3>1 DEF Update
    <3>3. "oneshot" \in DOMAIN s.values /\ s.values.oneshot = "True"
      BY <1>3, <2>1, OtherFacts DEF Done, Steady, SteadyGlobal
    <3> QED BY <1>3, <3>2, <3>3, ImpliedFields
  <2>2. CASE ~(/\ v.class = "GlobalSection"
               /\ \E q \in {"print_", "print"} \cap DOMAIN v.values : v.values[q] = "True")
    <3>1. i.values = v.values
      BY <1>3, <2>2, ImpliedFields
    <3> QED BY <1>3, <3>1, ImpliedFields
  <2> QED BY <2>1, <2>2
<1>5. DOMAIN Defaults(s.class) \cup DOMAIN s.values = DOMAIN s.values \cup back
  <2>1. s.class # "GlobalSection" => "print_" \notin DOMAIN Defaults(s.class)
    BY OtherFacts, VirtClassFacts DEF Classes
  <2>2. DOMAIN Defaults(s.class) \ {"print_"} \subseteq DOMAIN s.values
    BY DEF Done, Steady
  <2>3. s.class = "GlobalSection" => "print_" \in DOMAIN Defaults(s.class)
    BY OtherFacts
  <2> QED BY <2>1, <2>2, <2>3
<1>6. /\ DOMAIN m = DOMAIN s.values \cup back
      /\ \A k \in DOMAIN s.values : m[k] = s.values[k]
      /\ \A k \in back : m[k] = "False"
  <2>1. m = Update(Defaults(s.class), i.values)
    BY <1>4
  <2> HIDE DEF m, i
  <2>2. /\ DOMAIN m = DOMAIN Defaults(s.class) \cup DOMAIN s.values
        /\ \A k \in DOMAIN s.values : m[k] = s.values[k]
        /\ \A k \in DOMAIN Defaults(s.class) \ DOMAIN s.values : m[k] = Defaults(s.class)[k]
    BY <1>4, <2>1 DEF Update
  <2> QED BY <1>5, <2>2, OtherFacts
<1>7. Moved(m, i) = [k \in DOMAIN m |-> m[k]]
  <2> DEFINE dest == Destination(i.class)
             from == { k \in DOMAIN dest \cap DOMAIN m :
                         dest[k] \notin DOMAIN m /\ k \notin i.invalid }
             to == { dest[k] : k \in from }
  <2>1. Moved(m, i) = [k \in (DOMAIN m \ from) \cup to |->
                         IF k \in to THEN m[CHOOSE f \in from : dest[f] = k] ELSE m[k]]
    BY DEF Moved
  <2>2. from = {}
    <3> SUFFICES ASSUME NEW k \in DOMAIN dest, k \in DOMAIN m, k \notin i.invalid
                 PROVE  dest[k] \in DOMAIN m
      OBVIOUS
    <3>1. CASE k \in DOMAIN s.values
      BY <1>4, <1>6, <3>1 DEF Done, Steady
    <3>2. CASE k \notin DOMAIN s.values
      <4>1. s.class = "GlobalSection" /\ k = "print_"
        BY <1>6, <3>2
      <4> QED BY <1>4, <1>6, <4>1, OtherFacts DEF Done, SteadyGlobal
    <3> QED BY <3>1, <3>2
  <2>3. to = {}
    BY <2>2
  <2> HIDE DEF from, to, m, i
  <2> QED BY <2>1, <2>2, <2>3
<1>8. /\ DOMAIN t = Fields /\ t.class = i.class /\ t.unvalidated = i.unvalidated
      /\ t.invalid = i.invalid /\ t.required = i.required
      /\ t.missing = Missing(i) /\ t.state = StateOf(t) /\ t.values = Moved(m, i)
  <2> HIDE DEF i
  <2> QED BY <1>4, PostFields
<1>9. Missing(i) = s.missing
  BY <1>2, <1>4 DEF Missing
<1>10. DOMAIN t.values = {} <=> DOMAIN s.values = {}
  <2>1. back # {} => DOMAIN s.values # {}
    BY OtherFacts DEF Done, SteadyGlobal
  <2> QED BY <1>6, <1>7, <1>8, <2>1
<1>11. StateOf(t) = StateOf(s) /\ s.state = StateOf(s)
  BY <1>4, <1>8, <1>9, <1>10 DEF StateOf, Done, Steady
<1>12. Validate(s, keyFile) = t
  BY DEF Validate
<1> HIDE DEF t, i, m
<1>13. /\ DOMAIN t.values = DOMAIN s.values \cup back
       /\ \A k \in DOMAIN s.values : t.values[k] = s.values[k]
       /\ \A k \in back : t.values[k] = "False"
  BY <1>6, <1>7, <1>8
<1> QED BY <1>1, <1>4, <1>8, <1>9, <1>11, <1>12, <1>13

\* A steady section stays the same, and steady.
LEMMA SettledSection ==
  ASSUME NEW s, DOMAIN s = Fields, s.class \in Classes, Done(s), NEW keyFile
  PROVE  LET t == Validate(s, keyFile)
         IN /\ DOMAIN t = Fields /\ t.class = s.class /\ t.state = s.state
            /\ Comparable(t) = Comparable(s) /\ Done(t)
<1> DEFINE t == Validate(s, keyFile)
           back == { k \in {"print_"} : s.class = "GlobalSection" } \ DOMAIN s.values
<1>1. /\ DOMAIN t = Fields /\ t.class = s.class /\ t.unvalidated = {}
      /\ t.invalid = s.invalid /\ t.missing = s.missing /\ t.state = s.state
      /\ t.required = IF s.class \in VirtClasses THEN Needed(s.required, s.values)
                      ELSE s.required
      /\ DOMAIN t.values = DOMAIN s.values \cup back
      /\ \A k \in DOMAIN s.values : t.values[k] = s.values[k]
      /\ \A k \in back : t.values[k] = "False"
  BY SecondValidation
<1> HIDE DEF t
<1>2. Comparable(t) = Comparable(s)
  <2>1. [k \in DOMAIN t.values \ {"print_"} |-> t.values[k]]
        = [k \in DOMAIN s.values \ {"print_"} |-> s.values[k]]
    BY <1>1
  <2>2. s.unvalidated = {}
    BY DEF Done, Steady
  <2> QED BY <1>1, <2>1, <2>2 DEF Comparable, Fields
<1>3. Done(s) /\ Steady(s)
  BY DEF Done
<1>4. ASSUME s.class \in VirtClasses PROVE Done(t)
  <2>1. back = {} /\ DOMAIN t.values = DOMAIN s.values
    BY <1>1, <1>4, OtherFacts
  <2>2. SteadyVirt(s) /\ {"type", "sm_type"} \subseteq DOMAIN s.values
    BY <1>3, <1>4, VirtClassFacts DEF Done, Steady
  <2>3. \A R : Needed(R, t.values) = Needed(R, s.values)
    BY <1>1, <2>1, <2>2 DEF Needed
  <2>4. Needed(RequiredAtFirst(s.class), s.values) \subseteq t.required
    <3>1. t.required = Needed(s.required, s.values)
      BY <1>1, <1>4
    <3>2. Needed(RequiredAtFirst(s.class), s.values) \subseteq s.required
      BY <2>2 DEF SteadyVirt
    <3> QED BY <3>1, <3>2 DEF Needed
  <2>5. Needed(t.required, s.values) \subseteq t.required /\ t.required \subseteq s.required
    BY <1>1, <1>4, <2>2 DEF SteadyVirt, Needed
  <2>6. SteadyVirt(t)
    BY <1>1, <2>1, <2>2, <2>3, <2>4, <2>5 DEF SteadyVirt
  <2>7. Steady(t)
    BY <1>1, <1>3, <2>1, <2>5 DEF Steady, StateOf
  <2> QED BY <1>1, <1>4, <2>6, <2>7 DEF Done
<1>5. ASSUME s.class = "GlobalSection" PROVE Done(t)
  <2>1. SteadyGlobal(s) /\ s.class \notin VirtClasses
    BY <1>3, <1>5, OtherFacts DEF Done
  <2>2. {"oneshot", "interval"} \subseteq DOMAIN s.values
    BY <1>3, <1>5, OtherFacts DEF Steady
  <2>3. SteadyGlobal(t)
    BY <1>1, <2>1, <2>2 DEF SteadyGlobal
  <2>4. Steady(t)
    BY <1>1, <1>3, <1>5, <2>1, <2>2, OtherFacts DEF Steady, StateOf, SteadyGlobal
  <2> QED BY <1>1, <1>5, <2>1, <2>3, <2>4 DEF Done
<1>6. ASSUME s.class = "ConfigSection" PROVE Done(t)
  <2>1. SteadyNone(s) /\ s.class \notin VirtClasses
    BY <1>3, <1>6, OtherFacts DEF Done
  <2>2. back = {} /\ DOMAIN t.values = DOMAIN s.values
    BY <1>1, <1>6
  <2>3. SteadyNone(t)
    BY <1>1, <2>1, <2>2 DEF SteadyNone
  <2>4. Steady(t)
    BY <1>1, <1>3, <2>1, <2>2 DEF Steady, StateOf
  <2> QED BY <1>1, <1>6, <2>1, <2>3, <2>4 DEF Done
<1>7. Done(t)
  BY <1>4, <1>5, <1>6 DEF Classes
<1> QED BY <1>1, <1>2, <1>7 DEF t

\* A steady and valid section of a back end is what the back end needs.
LEMMA ValidIsComplete ==
  ASSUME NEW s, s.class \in Classes \ {"GlobalSection"}, Done(s), IsValid(s)
  PROVE  s.class \in VirtClasses /\ Complete(s)
<1>1. s.invalid = {} /\ s.missing = {} /\ DOMAIN s.values # {}
  BY DEF IsValid, Done, Steady, StateOf
<1>2. s.class \in VirtClasses /\ SteadyVirt(s) /\ Steady(s)
  BY <1>1 DEF Done, SteadyNone
<1>3. s.required \subseteq DOMAIN s.values
  BY <1>1, <1>2 DEF Steady
<1> QED BY <1>1, <1>2, <1>3 DEF Complete, SteadyVirt, Steady

(***************************************************************************)
(* init_config                                                             *)
(***************************************************************************)
\* from_dict makes a section that is to be validated.
LEMMA FromDictFresh ==
  ASSUME NEW class \in Classes, NEW options, IsOptions(options)
  PROVE  LET s == FromDict(class, options)
         IN /\ DOMAIN s = Fields /\ s.class = class /\ Fresh(s)
            /\ s.unvalidated = DOMAIN options
            /\ \A k \in DOMAIN options : s.values[k] = options[k]
<1> DEFINE initial == IF class \in VirtClasses THEN [sm_type |-> "sam"] ELSE <<>>
           values == Update(initial, options)
           s == FromDict(class, options)
<1>1. DOMAIN initial = IF class \in VirtClasses THEN {"sm_type"} ELSE {}
  OBVIOUS
<1>2. /\ DOMAIN values = DOMAIN initial \cup DOMAIN options
      /\ \A k \in DOMAIN options : values[k] = options[k]
      /\ \A k \in DOMAIN initial \ DOMAIN options : values[k] = initial[k]
  <2> HIDE DEF initial
  <2> QED BY DEF Update
<1>3. /\ DOMAIN s = Fields /\ s.class = class /\ s.values = values
      /\ s.unvalidated = DOMAIN options /\ s.invalid = {} /\ s.missing = {}
      /\ s.required = RequiredAtFirst(class)
  BY DEF FromDict, Fields
<1>4. class \in VirtClasses /\ "sm_type" \notin DOMAIN options => values.sm_type = "sam"
  BY <1>1, <1>2
<1>5. \A p \in Passwords \cap DOMAIN values : values[p] # "sealed"
  BY <1>1, <1>2 DEF Passwords, IsOptions
<1> HIDE DEF initial, values, s
<1>6. Fresh(s)
  BY <1>1, <1>2, <1>3, <1>4, <1>5 DEF Fresh
<1> QED BY <1>2, <1>3, <1>6 DEF s

LEMMA UpdateOptions ==
  ASSUME NEW f, NEW g, IsOptions(f), IsOptions(g)
  PROVE  IsOptions(Update(f, g))
  BY DEF IsOptions, Update

LEMMA ClassForFacts ==
  ASSUME NEW options
  PROVE  ClassFor(options) \in Classes /\ ClassFor(options) # "GlobalSection"
  BY DEF ClassFor, Classes, VirtClasses, VirtTypes

\* The local libvirt needs no options at all.
LEMMA FallbackFacts ==
  LET s == Fallback["cmdline"]
  IN /\ DOMAIN Fallback = {"cmdline"} /\ DOMAIN s = Fields /\ s.class = "libvirt"
     /\ Fresh(s) /\ s.unvalidated # {}
     /\ \A keyFile \in BOOLEAN : IsValid(Validate(s, keyFile))
<1> DEFINE options == [sm_type |-> "sam", virt_type |-> "libvirt"]
           s == Fallback["cmdline"]
<1>1. DOMAIN Fallback = {"cmdline"} /\ s = FromDict("libvirt", options)
  BY DEF Fallback
<1>2. "libvirt" \in VirtClasses /\ "libvirt" \in Classes
  BY DEF VirtClasses, VirtTypes, Classes
<1>3. DOMAIN options = {"sm_type", "virt_type"} /\ IsOptions(options)
  BY DEF IsOptions, Passwords
<1> HIDE DEF s, options
<1>4. /\ DOMAIN s = Fields /\ s.class = "libvirt" /\ Fresh(s)
      /\ s.unvalidated = {"sm_type", "virt_type"}
      /\ \A k \in DOMAIN options : s.values[k] = options[k]
  BY <1>1, <1>2, <1>3, FromDictFresh
<1>5. ASSUME NEW keyFile \in BOOLEAN PROVE IsValid(Validate(s, keyFile))
  <2> DEFINE p == PreValidated(s)
             v == Validated(p, keyFile)
             t == PostValidated(v)
  <2>1. DOMAIN s.values = {"sm_type", "virt_type"} /\ s.values.sm_type = "sam"
        /\ s.values.virt_type = "libvirt"
    BY <1>2, <1>3, <1>4 DEF Fresh, options
  <2>2. Opened(p) /\ p.class = "libvirt"
    BY <1>2, <1>4, FreshOpens
  <2>3. /\ DOMAIN p.values = {"sm_type", "type"} /\ p.unvalidated = {"sm_type", "type"}
        /\ p.values.sm_type = "sam" /\ p.values.type = "libvirt"
    <3> DEFINE fresh == Update(s.values, [type |-> s.values.virt_type])
               r == Renamed(s)
    <3>1. /\ r.values = [k \in DOMAIN fresh \ {"virt_type"} |-> fresh[k]]
          /\ r.unvalidated = (s.unvalidated \cup {"type"}) \ {"virt_type"}
          /\ DOMAIN r = Fields
      BY <1>4, <2>1 DEF Renamed, Fields
    <3>2. /\ DOMAIN fresh = {"sm_type", "virt_type", "type"}
          /\ fresh["sm_type"] = "sam" /\ fresh["type"] = "libvirt"
      BY <2>1 DEF Update
    <3>3. p = [r EXCEPT !.required = Needed(@, r.values)]
      BY <1>2, <1>4 DEF PreValidated
    <3> HIDE DEF fresh, r, p
    <3>4. p.values = r.values /\ p.unvalidated = r.unvalidated
      BY <3>1, <3>3 DEF Fields
    <3> QED BY <1>4, <3>1, <3>2, <3>4
  <2>4. Refused(p, keyFile) = {}
    BY <1>2, <2>2, <2>3, VirtClassFacts DEF Refused, SmTypes, Encrypted
  <2>5. p.required = {}
    BY <2>2, <2>3 DEF Opened, Needed, RequiredAtFirst, VirtClasses, VirtTypes
  <2> HIDE DEF p
  <2>6. Clean(v) /\ v.class = p.class /\ v.required = p.required
        /\ v.invalid = Refused(p, keyFile)
    BY <2>2, OpenedCleans
  <2>7. Implied(v) = v
    BY <2>2, <2>6 DEF Implied
  <2>8. Validate(s, keyFile) = t
    BY <2>7 DEF Validate, p
  <2> HIDE DEF v
  <2>9. /\ t.unvalidated = v.unvalidated /\ t.invalid = v.invalid /\ t.missing = Missing(v)
        /\ t.state = StateOf(t)
    BY <2>6, PostFields DEF Clean
  <2>10. "type" \in DOMAIN t.values
    BY <2>6, CleanIsDone
  <2>11. Missing(v) = {}
    BY <2>5, <2>6 DEF Missing, Clean
  <2> HIDE DEF t
  <2>12. t.state = "valid"
    BY <2>4, <2>6, <2>9, <2>10, <2>11 DEF StateOf, Clean
  <2> QED BY <2>8, <2>12 DEF IsValid
<1> QED BY <1>1, <1>4, <1>5 DEF s

-----------------------------------------------------------------------------
IInv == ConfigTypeOK /\ SectionsOK /\ Progress

LEMMA UsableHolds ==
  ASSUME SectionsOK, Progress
  PROVE  Usable
<1> SUFFICES ASSUME Finished PROVE Usable
  BY DEF Usable
<1>1. \A n \in DOMAIN config : Done(config[n])
  BY DEF Finished, Progress
<1>2. ASSUME NEW n \in Sources PROVE Complete(config[n])
  <2>1. n \in DOMAIN config /\ n # "global" /\ IsValid(config[n])
    BY DEF Finished, Progress, Sources, Reserved
  <2>2. config[n].class \in Classes \ {"GlobalSection"}
    BY <2>1 DEF SectionsOK
  <2> QED BY <1>1, <2>1, <2>2, ValidIsComplete
<1>3. "global" \in DOMAIN config /\ config["global"].class = "GlobalSection"
  BY DEF Finished, Progress, SectionsOK
<1>4. SteadyGlobal(config["global"])
  BY <1>1, <1>3, OtherFacts DEF Done
<1> QED BY <1>2, <1>4 DEF Usable, SteadyGlobal

LEMMA InitInvariant == Init => IInv
<1> SUFFICES ASSUME Init PROVE IInv
  OBVIOUS
<1>1. DOMAIN config = {} /\ DOMAIN found = {}
  BY DEF Init
<1>2. found = [n \in DOMAIN found |-> found[n]]
  BY <1>1 DEF Init
<1>3. unread \in Seq(Files)
  BY DEF Init
<1> QED BY <1>1, <1>2, <1>3 DEF Init, IInv, ConfigTypeOK, IsFile, SectionsOK, Progress

\* The files read so far consist of options.
LEMMA TypeStep ==
  ASSUME ConfigTypeOK, [Next]_vars
  PROVE  ConfigTypeOK'
<1> USE DEF ConfigTypeOK
<1>1. input' = input
  BY DEF Next, ReadGlobal, ReadChosen, ReadGeneral, ReadDropFile, AddSections, ValidateAll,
         DropInvalid, ValidateAgain, MapDestinations, vars
<1>2. /\ \A f \in Files : IsFile(f)
      /\ input.chosen \in Seq(Files) /\ input.general \in Files
      /\ input.dropDir \subseteq Files
  BY InputsAssumption DEF Files
<1>3. ASSUME NEW f, IsFile(f) PROVE IsFile(Update(found, f))
  BY <1>3 DEF IsFile, Update
<1>4. CASE ReadGlobal
  BY <1>1, <1>2, <1>4 DEF ReadGlobal
<1>5. CASE ReadChosen
  <2>1. Head(unread) \in Files /\ Tail(unread) \in Seq(Files)
    BY <1>5 DEF ReadChosen
  <2> QED BY <1>1, <1>2, <1>3, <1>5, <2>1 DEF ReadChosen
<1>6. CASE ReadGeneral
  BY <1>1, <1>2, <1>6 DEF ReadGeneral
<1>7. CASE ReadDropFile
  BY <1>1, <1>2, <1>3, <1>7 DEF ReadDropFile
<1>8. CASE \/ AddSections \/ ValidateAll \/ DropInvalid \/ ValidateAgain \/ MapDestinations
           \/ UNCHANGED vars
  BY <1>1, <1>8 DEF AddSections, ValidateAll, DropInvalid, ValidateAgain, MapDestinations,
                    vars
<1> QED BY <1>4, <1>5, <1>6, <1>7, <1>8 DEF Next

\* The global section is validated when it is read.
LEMMA GlobalStep ==
  ASSUME IInv, ReadGlobal
  PROVE  SectionsOK' /\ Progress'
<1> DEFINE s == FromDict("GlobalSection", Update(input.global, input.options))
           t == Validate(s, input.keyFile)
<1>1. /\ IsOptions(Update(input.global, input.options)) /\ input.keyFile \in BOOLEAN
  BY InputsAssumption, UpdateOptions DEF IInv, ConfigTypeOK
<1>2. "GlobalSection" \in Classes
  BY DEF Classes
<1>3. DOMAIN s = Fields /\ s.class = "GlobalSection" /\ Fresh(s)
  BY <1>1, <1>2, FromDictFresh
<1> HIDE DEF s
<1>4. DOMAIN t = Fields /\ t.class = "GlobalSection" /\ Done(t)
  BY <1>1, <1>2, <1>3, FirstValidation
<1> HIDE DEF t
<1>5. DOMAIN config' = {"global"} /\ config'["global"] = t /\ stage' = "chosen"
  BY DEF ReadGlobal, s, t
<1> QED BY <1>2, <1>4, <1>5 DEF SectionsOK, Progress

\* Every section found gets the defaults, and is to be validated.
LEMMA AddStep ==
  ASSUME IInv, AddSections
  PROVE  /\ SectionsOK' /\ Progress'
         /\ config'["global"] = config["global"] /\ DOMAIN config = {"global"}
<1> DEFINE names == DOMAIN found \ {"global", "defaults"}
           section(n) == FromDict(ClassFor(WithDefaults(found[n])), WithDefaults(found[n]))
           added == [n \in names |-> section(n)]
<1>1. ASSUME NEW n \in names
      PROVE  /\ DOMAIN section(n) = Fields /\ section(n).class \in Classes
             /\ section(n).class # "GlobalSection" /\ Fresh(section(n))
  <2>1. IsOptions(WithDefaults(found[n]))
    BY InputsAssumption, UpdateOptions DEF WithDefaults, IInv, ConfigTypeOK, IsFile
  <2>2. /\ ClassFor(WithDefaults(found[n])) \in Classes
        /\ ClassFor(WithDefaults(found[n])) # "GlobalSection"
    BY ClassForFacts
  <2> QED BY <2>1, <2>2, FromDictFresh
<1>2. config' = Update(config, added) /\ stage' = "added" /\ stage = "dropdir"
  BY DEF AddSections
<1>3. DOMAIN config = {"global"} /\ Done(config["global"])
  BY <1>2 DEF IInv, Progress
<1> HIDE DEF section
<1>4. /\ DOMAIN config' = {"global"} \cup names /\ config'["global"] = config["global"]
      /\ \A n \in names : config'[n] = section(n)
  BY <1>2, <1>3 DEF Update
<1>5. SectionsOK'
  BY <1>1, <1>3, <1>4 DEF IInv, SectionsOK
<1>6. Progress'
  BY <1>1, <1>2, <1>3, <1>4 DEF Progress
<1> QED BY <1>3, <1>4, <1>5, <1>6

\* The first validation of the sections, and the second or third of global.
LEMMA ValidateStep ==
  ASSUME IInv, ValidateAll
  PROVE  /\ SectionsOK' /\ Progress' /\ DOMAIN config' = DOMAIN config
         /\ Comparable(config'["global"]) = Comparable(config["global"])
<1>1. /\ stage = "added" /\ stage' = "validated" /\ DOMAIN config' = DOMAIN config
      /\ \A n \in DOMAIN config : config'[n] = Validate(config[n], input.keyFile)
  BY DEF ValidateAll
<1>2. input.keyFile \in BOOLEAN
  BY InputsAssumption DEF IInv, ConfigTypeOK
<1>3. ASSUME NEW n \in DOMAIN config
      PROVE  /\ DOMAIN config'[n] = Fields /\ config'[n].class = config[n].class
             /\ Done(config'[n])
             /\ n = "global" => Comparable(config'[n]) = Comparable(config[n])
  <2>1. DOMAIN config[n] = Fields /\ config[n].class \in Classes
    BY DEF IInv, SectionsOK
  <2>2. CASE n = "global"
    BY <1>1, <1>2, <2>1, <2>2, SettledSection DEF IInv, Progress
  <2>3. CASE n # "global"
    BY <1>1, <1>2, <2>1, <2>3, FirstValidation DEF IInv, Progress
  <2> QED BY <2>2, <2>3
<1>4. "global" \in DOMAIN config
  BY <1>1 DEF IInv, Progress
<1> QED BY <1>1, <1>3, <1>4 DEF IInv, SectionsOK, Progress

\* Only valid sections are left, or the fallback.
LEMMA DropStep ==
  ASSUME IInv, DropInvalid
  PROVE  /\ SectionsOK' /\ Progress'
         /\ \A n \in DOMAIN config \cap DOMAIN config' : config'[n] = config[n]
<1>1. stage = "validated" /\ stage' = "dropped"
  BY DEF DropInvalid
<1>2. /\ "global" \in DOMAIN config /\ \A n \in DOMAIN config : Done(config[n])
  BY <1>1 DEF IInv, Progress
<1>3. CASE Sources = {} /\ ~FilesNotComplete
  <2>1. config' = Update(config, Fallback)
    BY <1>3 DEF DropInvalid
  <2>2. "cmdline" \notin DOMAIN config
    BY <1>3 DEF Sources, Reserved
  <2>3. /\ DOMAIN config' = DOMAIN config \cup {"cmdline"}
        /\ \A n \in DOMAIN config : config'[n] = config[n]
        /\ config'["cmdline"] = Fallback["cmdline"] /\ DOMAIN Fallback = {"cmdline"}
    BY <2>1, <2>2, FallbackFacts DEF Update
  <2>4. DOMAIN Fallback["cmdline"] = Fields /\ Fallback["cmdline"].class = "libvirt"
    BY FallbackFacts
  <2>5. SectionsOK'
    BY <2>3, <2>4 DEF IInv, SectionsOK, Classes, VirtClasses, VirtTypes
  <2>6. Sources' \subseteq {"cmdline"}
    BY <1>3, <2>3 DEF Sources
  <2>7. IsFallback("cmdline")'
    BY <2>3 DEF IsFallback
  <2>8. Progress'
    BY <1>1, <1>2, <2>3, <2>6, <2>7 DEF Progress
  <2> QED BY <2>3, <2>5, <2>8
<1>4. CASE ~(Sources = {} /\ ~FilesNotComplete)
  <2>1. config' = [n \in DOMAIN config \ Invalid |-> config[n]]
    BY <1>4 DEF DropInvalid
  <2>2. "global" \notin Invalid
    BY DEF Invalid, Sources, Reserved
  <2>3. /\ DOMAIN config' \subseteq DOMAIN config /\ "global" \in DOMAIN config'
        /\ \A n \in DOMAIN config' : config'[n] = config[n]
    BY <1>2, <2>1, <2>2
  <2>4. SectionsOK'
    BY <2>3 DEF IInv, SectionsOK
  <2>5. \A n \in Sources' : IsValid(config'[n])
    BY <2>1 DEF Sources, Invalid
  <2>6. Progress'
    BY <1>1, <1>2, <2>3, <2>5 DEF Progress
  <2> QED BY <2>3, <2>4, <2>6
<1> QED BY <1>3, <1>4

\* The last validation, in which only the fallback is new.
LEMMA AgainStep ==
  ASSUME IInv, ValidateAgain
  PROVE  /\ SectionsOK' /\ Progress' /\ DOMAIN config' = DOMAIN config
         /\ \A n \in DOMAIN config : config[n].unvalidated = {}
                                     => Comparable(config'[n]) = Comparable(config[n])
<1>1. /\ stage = "dropped" /\ stage' = "ready" /\ DOMAIN config' = DOMAIN config
      /\ \A n \in DOMAIN config : config'[n] = Validate(config[n], input.keyFile)
  BY DEF ValidateAgain
<1>2. input.keyFile \in BOOLEAN
  BY InputsAssumption DEF IInv, ConfigTypeOK
<1>3. ASSUME NEW n \in DOMAIN config
      PROVE  /\ DOMAIN config'[n] = Fields /\ config'[n].class = config[n].class
             /\ Done(config'[n])
             /\ n \in Sources => IsValid(config'[n])
             /\ config[n].unvalidated = {} => Comparable(config'[n]) = Comparable(config[n])
  <2>1. DOMAIN config[n] = Fields /\ config[n].class \in Classes
    BY DEF IInv, SectionsOK
  <2>2. CASE IsFallback(n)
    <3>1. n = "cmdline" /\ config[n] = Fallback["cmdline"]
      BY <2>2, FallbackFacts DEF IsFallback
    <3>2. Fresh(config[n]) /\ config[n].unvalidated # {}
          /\ IsValid(Validate(config[n], input.keyFile))
      BY <1>2, <3>1, FallbackFacts
    <3> QED BY <1>1, <1>2, <2>1, <3>2, FirstValidation
  <2>3. CASE ~IsFallback(n)
    <3>1. Done(config[n]) /\ (n \in Sources => IsValid(config[n]))
      BY <1>1, <2>3 DEF IInv, Progress
    <3>2. /\ DOMAIN config'[n] = Fields /\ config'[n].class = config[n].class
          /\ config'[n].state = config[n].state /\ Done(config'[n])
          /\ Comparable(config'[n]) = Comparable(config[n])
      BY <1>1, <2>1, <3>1, SettledSection
    <3> QED BY <3>1, <3>2 DEF IsValid
  <2> QED BY <2>2, <2>3
<1>4. "global" \in DOMAIN config
  BY <1>1 DEF IInv, Progress
<1>5. Sources' = Sources /\ Sources \subseteq DOMAIN config
  BY <1>1 DEF Sources
<1>6. SectionsOK'
  BY <1>1, <1>3 DEF IInv, SectionsOK
<1>7. Progress'
  BY <1>1, <1>3, <1>4, <1>5 DEF Progress
<1> QED BY <1>1, <1>3, <1>6, <1>7

\* The steps that leave the configuration alone.
LEMMA ReadStep ==
  ASSUME IInv, config' = config,
         \/ ReadChosen \/ ReadGeneral \/ ReadDropFile \/ MapDestinations \/ UNCHANGED vars
  PROVE  SectionsOK' /\ Progress'
<1>1. SectionsOK'
  BY DEF IInv, SectionsOK
<1>2. Sources' = Sources
  BY DEF Sources
<1>3. Progress'
  <2>1. CASE ReadChosen \/ UNCHANGED vars
    BY <1>2, <2>1 DEF ReadChosen, vars, IInv, Progress, IsFallback
  <2>2. CASE ReadGeneral \/ ReadDropFile
    BY <1>2, <2>2 DEF ReadGeneral, ReadDropFile, IInv, Progress
  <2>3. CASE MapDestinations
    BY <1>2, <2>3 DEF MapDestinations, IInv, Progress
  <2> QED BY <2>1, <2>2, <2>3
<1> QED BY <1>1, <1>3

LEMMA IInvStep ==
  ASSUME IInv, [Next]_vars
  PROVE  IInv'
<1>1. ConfigTypeOK'
  BY TypeStep DEF IInv
<1>2. CASE ReadGlobal
  BY <1>1, <1>2, GlobalStep DEF IInv
<1>3. CASE \/ ReadChosen \/ ReadGeneral \/ ReadDropFile \/ MapDestinations \/ UNCHANGED vars
  <2>1. config' = config
    BY <1>3 DEF ReadChosen, ReadGeneral, ReadDropFile, MapDestinations, vars
  <2> QED BY <1>1, <1>3, <2>1, ReadStep DEF IInv
<1>4. CASE AddSections
  BY <1>1, <1>4, AddStep DEF IInv
<1>5. CASE ValidateAll
  BY <1>1, <1>5, ValidateStep DEF IInv
<1>6. CASE DropInvalid
  BY <1>1, <1>6, DropStep DEF IInv
<1>7. CASE ValidateAgain
  BY <1>1, <1>7, AgainStep DEF IInv
<1> QED BY <1>2, <1>3, <1>4, <1>5, <1>6, <1>7 DEF Next

(***************************************************************************)
(* DestinationToSourceMapper                                               *)
(***************************************************************************)
\* What is appended leaves the first element alone.
LEMMA FirstStays ==
  ASSUME NEW S, NEW p \in Seq(S), NEW q \in Seq(S), Len(p) # 0
  PROVE  p \o q \in Seq(S) /\ Len(p \o q) # 0 /\ (p \o q)[1] = p[1]
<1>1. Len(p) \in Nat /\ 1 \in 1..Len(p)
  OBVIOUS
<1> QED BY <1>1

\* The first required option comes first in what is hashed.
LEMMA InfoFacts ==
  ASSUME NEW kind \in Kinds, NEW values, \A k \in RequiredOf(kind) : Given(values, k)
  PROVE  LET i == Info(kind, values)
         IN /\ i.kind = kind /\ FirstOf(kind) \in DOMAIN i.options
            /\ i.options[FirstOf(kind)] = values[FirstOf(kind)]
            /\ Values(i)[1] = values[FirstOf(kind)]
<1> DEFINE i == Info(kind, values)
           taken == { o \in OptionsOf(kind) : Given(values, o) }
           V == { i.options[k] : k \in taken }
<1>1. i.kind = kind /\ i.options = [k \in taken |-> values[k]]
  BY DEF Info
<1>2. FirstOf(kind) \in taken
  BY DEF FirstOf, OptionsOf, RequiredOf, Kinds
<1> HIDE DEF i, taken
<1>3. ASSUME NEW k PROVE Taken(i, k) \in Seq(V)
  <2>1. CASE k \in DOMAIN i.options
    <3>1. i.options[k] \in V
      BY <1>1, <2>1
    <3> HIDE DEF V
    <3> QED BY <2>1, <3>1 DEF Taken
  <2>2. CASE k \notin DOMAIN i.options
    <3> HIDE DEF V
    <3> QED BY <2>2 DEF Taken
  <2> QED BY <2>1, <2>2
<1> DEFINE first == Taken(i, FirstOf(kind))
<1>4. first = <<values[FirstOf(kind)]>> /\ Len(first) = 1 /\ first \in Seq(V)
  BY <1>1, <1>2, <1>3 DEF Taken
<1> HIDE DEF V, first
<1>5. Values(i)[1] = first[1]
  <2>1. CASE kind = "Satellite5"
    <3> DEFINE b == Taken(i, "sat_password")
    <3>1. Values(i) = first \o b
      BY <1>1, <2>1 DEF Values, FirstOf, first
    <3>2. b \in Seq(V)
      BY <1>3
    <3> HIDE DEF b
    <3> QED BY <1>4, <3>1, <3>2, FirstStays
  <2>2. CASE kind # "Satellite5"
    <3> DEFINE b == Taken(i, "rhsm_hostname")
               c == Taken(i, "rhsm_password")
               d == Taken(i, "rhsm_proxy_hostname")
    <3>1. Values(i) = first \o b \o c \o d
      BY <1>1, <2>2 DEF Values, FirstOf, first
    <3>2. b \in Seq(V) /\ c \in Seq(V) /\ d \in Seq(V)
      BY <1>3
    <3> DEFINE p == first \o b
               q == p \o c
    <3> HIDE DEF b, c, d
    <3>3. p \in Seq(V) /\ Len(p) # 0 /\ p[1] = first[1]
      BY <1>4, <3>2, FirstStays
    <3> HIDE DEF p
    <3>4. q \in Seq(V) /\ Len(q) # 0 /\ q[1] = first[1]
      BY <3>2, <3>3, FirstStays
    <3> HIDE DEF q
    <3>5. (q \o d)[1] = first[1]
      BY <3>2, <3>4, FirstStays
    <3> QED BY <3>1, <3>5 DEF p, q
  <2> QED BY <2>1, <2>2
<1>6. Values(i)[1] = values[FirstOf(kind)]
  BY <1>4, <1>5
<1> QED BY <1>1, <1>2, <1>6 DEF i

\* A source is served by a destination of the same kind and first option as
\* each of its own.
LEMMA Reaches ==
  ASSUME MapDestinations, NEW n \in Sources, NEW kind \in Kinds,
         \A k \in RequiredOf(kind) : Given(config[n].values, k)
  PROVE  \E d \in DOMAIN served' :
           /\ n \in served'[d] /\ d.kind = kind
           /\ d.options[FirstOf(kind)] = config[n].values[FirstOf(kind)]
<1> DEFINE all == UNION { Infos(m) : m \in Sources }
           i == Info(kind, config[n].values)
<1>1. PICK kept \in SUBSET all :
        /\ \A j \in all : \E d \in kept : SameInfo(j, d)
        /\ served' = [d \in kept \cup { x \in {Default} : Defaulted # {} } |->
                        IF d = Default THEN Defaulted
                        ELSE { m \in Sources : \E j \in Infos(m) : SameInfo(j, d) }]
  BY DEF MapDestinations
<1>2. i \in Infos(n)
  BY DEF Infos
<1>3. PICK d \in kept : SameInfo(i, d)
  BY <1>1, <1>2
<1>4. PICK m \in Sources, other \in Kinds :
        /\ d = Info(other, config[m].values)
        /\ \A k \in RequiredOf(other) : Given(config[m].values, k)
  BY <1>3 DEF Infos
<1> HIDE DEF i
<1>5. /\ i.kind = kind /\ FirstOf(kind) \in DOMAIN i.options
      /\ Values(i)[1] = config[n].values[FirstOf(kind)]
  BY InfoFacts DEF i
<1>6. /\ d.kind = other /\ d.options[FirstOf(other)] = config[m].values[FirstOf(other)]
      /\ Values(d)[1] = config[m].values[FirstOf(other)]
  BY <1>4, InfoFacts
<1>7. d.kind = kind /\ d.options[FirstOf(kind)] = config[n].values[FirstOf(kind)]
  BY <1>3, <1>5, <1>6 DEF SameInfo
<1>8. d # Default
  BY <1>7 DEF Default, Kinds
<1>9. d \in DOMAIN served' /\ n \in served'[d]
  BY <1>1, <1>2, <1>3, <1>8
<1> QED BY <1>7, <1>9

\* ... and by no other: a destination it has, but for the default one, is of a
\* kind that it asks for and has its first option.
LEMMA Belongs ==
  ASSUME MapDestinations, NEW n \in Sources, NEW d \in DOMAIN served', n \in served'[d],
         d # Default
  PROVE  /\ Asks(config[n].values, d.kind)
         /\ d.options[FirstOf(d.kind)] = config[n].values[FirstOf(d.kind)]
<1> DEFINE all == UNION { Infos(m) : m \in Sources }
<1>1. PICK kept \in SUBSET all :
        served' = [x \in kept \cup { y \in {Default} : Defaulted # {} } |->
                     IF x = Default THEN Defaulted
                     ELSE { m \in Sources : \E j \in Infos(m) : SameInfo(j, x) }]
  BY DEF MapDestinations
<1>2. d \in all /\ \E j \in Infos(n) : SameInfo(j, d)
  BY <1>1
<1>3. PICK j \in Infos(n) : SameInfo(j, d)
  BY <1>2
<1>4. PICK kind \in Kinds :
        j = Info(kind, config[n].values) /\ \A k \in RequiredOf(kind) : Given(config[n].values, k)
  BY <1>3 DEF Infos
<1>5. PICK m \in Sources, other \in Kinds :
        /\ d = Info(other, config[m].values)
        /\ \A k \in RequiredOf(other) : Given(config[m].values, k)
  BY <1>2 DEF Infos
<1>6. j.kind = kind /\ Values(j)[1] = config[n].values[FirstOf(kind)]
  BY <1>4, InfoFacts
<1>7. /\ d.kind = other /\ d.options[FirstOf(other)] = config[m].values[FirstOf(other)]
      /\ Values(d)[1] = config[m].values[FirstOf(other)]
  BY <1>5, InfoFacts
<1>8. d.kind = kind /\ d.options[FirstOf(kind)] = config[n].values[FirstOf(kind)]
  BY <1>3, <1>6, <1>7 DEF SameInfo
<1> QED BY <1>4, <1>8 DEF Asks

\* The default destination is for those that ask for none.
LEMMA DefaultServes ==
  ASSUME MapDestinations, NEW n \in Sources
  PROVE  Default \in DOMAIN served' /\ n \in served'[Default] <=> n \in Defaulted
<1> DEFINE all == UNION { Infos(m) : m \in Sources }
<1>1. PICK kept \in SUBSET all :
        served' = [x \in kept \cup { y \in {Default} : Defaulted # {} } |->
                     IF x = Default THEN Defaulted
                     ELSE { m \in Sources : \E j \in Infos(m) : SameInfo(j, x) }]
  BY DEF MapDestinations
<1>2. Default \notin all
  <2>1. ASSUME NEW kind \in Kinds, NEW values PROVE Info(kind, values).kind # "default"
    BY DEF Info, Kinds
  <2>2. Default.kind = "default"
    BY DEF Default
  <2> HIDE DEF Default
  <2> QED BY <2>1, <2>2 DEF Infos
<1> HIDE DEF all
<1>3. Default \in DOMAIN served' <=> Defaulted # {}
  BY <1>1, <1>2
<1>4. Default \in DOMAIN served' => served'[Default] = Defaulted
  BY <1>1
<1> QED BY <1>3, <1>4

\* Every source is served.
LEMMA ServedStep ==
  ASSUME IInv, MapDestinations
  PROVE  Served'
<1>1. config' = config /\ stage = "ready"
  BY DEF MapDestinations
<1>2. Sources' = Sources
  BY <1>1 DEF Sources
<1>3. ASSUME NEW n \in Sources PROVE AsAsked(n)'
  <2> DEFINE v == config[n].values
             dests == { d \in DOMAIN served' : n \in served'[d] }
  <2>1. ASSUME NEW kind \in Kinds, Asks(v, kind) PROVE \E d \in dests : d.kind = kind
    <3>1. \E d \in DOMAIN served' : n \in served'[d] /\ d.kind = kind
      BY <2>1, Reaches DEF Asks
    <3> QED BY <3>1
  <2>2. ASSUME NEW d \in dests \ {Default}
        PROVE  Asks(v, d.kind) /\ d.options[FirstOf(d.kind)] = v[FirstOf(d.kind)]
    BY Belongs
  <2>3. Default \in dests <=> n \in Defaulted
    BY DefaultServes
  <2>4. Infos(n) = {} <=> \A kind \in Kinds : ~Asks(v, kind)
    BY DEF Infos, Asks
  <2>5. n \in Defaulted <=> (\A kind \in Kinds : ~Asks(v, kind)) /\ v.sm_type # "satellite"
    BY <2>4 DEF Defaulted, Orphans
  <2>6. ASSUME dests = {}
        PROVE  /\ v.sm_type = "satellite"
               /\ \E k \in {"sat_server", "sat_password"} \cap DOMAIN v : v[k] = ""
    <3>1. \A kind \in Kinds : ~Asks(v, kind)
      BY <2>1, <2>6
    <3>2. v.sm_type = "satellite"
      BY <2>3, <2>5, <2>6, <3>1
    <3>3. Complete(config[n])
      BY <1>1, UsableHolds DEF IInv, Usable, Finished
    <3>4. {"sat_server", "sat_password"} \subseteq DOMAIN v
      BY <3>2, <3>3 DEF Complete, Needed
    <3>5. ~Asks(v, "Satellite5")
      BY <3>1 DEF Kinds
    <3>6. \E k \in {"sat_server", "sat_password"} : v[k] = ""
      BY <3>4, <3>5 DEF Asks, RequiredOf, Given
    <3> QED BY <3>2, <3>4, <3>6
  <2> QED BY <1>1, <2>1, <2>2, <2>3, <2>5, <2>6 DEF AsAsked
<1> QED BY <1>1, <1>2, <1>3 DEF Served

-----------------------------------------------------------------------------
(* The theorems.                                                           *)

\* The inductive invariant, with what it is for: Usable and Served.
THEOREM ConfigInvariance == Spec => []ConfigInv
<1>1. Init => IInv /\ Served
  BY InitInvariant DEF Init, Served
<1>2. IInv /\ Served /\ [Next]_vars => IInv' /\ Served'
  <2> SUFFICES ASSUME IInv, Served, [Next]_vars PROVE IInv' /\ Served'
    OBVIOUS
  <2>1. IInv'
    BY IInvStep
  <2>2. CASE MapDestinations
    BY <2>1, <2>2, ServedStep
  <2>3. CASE UNCHANGED vars
    <3>1. stage' = stage /\ config' = config /\ served' = served
      BY <2>3 DEF vars
    <3>2. Sources' = Sources
      BY <3>1 DEF Sources
    <3>3. ASSUME NEW n, AsAsked(n) PROVE AsAsked(n)'
      <4>1. { d \in DOMAIN served' : n \in served'[d] } = { d \in DOMAIN served : n \in served[d] }
        BY <3>1
      <4> QED BY <3>1, <3>3, <4>1 DEF AsAsked
    <3> QED BY <2>1, <3>1, <3>2, <3>3 DEF Served
  <2>4. CASE \/ ReadGlobal \/ ReadChosen \/ ReadGeneral \/ ReadDropFile \/ AddSections
             \/ ValidateAll \/ DropInvalid \/ ValidateAgain
    <3>1. stage' # "mapped"
      BY <2>4 DEF ReadGlobal, ReadChosen, ReadGeneral, ReadDropFile, AddSections, ValidateAll,
                  DropInvalid, ValidateAgain
    <3> QED BY <2>1, <3>1 DEF Served
  <2> QED BY <2>2, <2>3, <2>4 DEF Next
<1>3. IInv /\ Served => ConfigInv
  BY UsableHolds DEF IInv, ConfigInv
<1> QED BY <1>1, <1>2, <1>3, PTL DEF Spec

\* Every section virt-who runs with has what its back end and its service need,
\* with every password that could be decrypted decrypted, and a configuration that
\* prints is a oneshot one.
THEOREM UsableAlways == Spec => []Usable
<1>1. ConfigInv => Usable
  BY DEF ConfigInv
<1> QED BY <1>1, ConfigInvariance, PTL

\* A source is sent to a destination of every kind whose options its section
\* gives, with its own server or owner, and to no other; to the default one if it
\* gives those of none and is not for Satellite 5; and to none at all only if it is,
\* with an empty sat_server or sat_password.
THEOREM ServedAlways == Spec => []Served
<1>1. ConfigInv => Served
  BY DEF ConfigInv
<1> QED BY <1>1, ConfigInvariance, PTL

\* No validation but the first one of a section changes what virt-who reads of it.
THEOREM SettledAlways == Spec => Settled
<1> DEFINE Same == \A n \in DOMAIN config \cap DOMAIN config' :
                     WasValidated(n) => Comparable(config'[n]) = Comparable(config[n])
<1>1. ConfigInv /\ [Next]_vars => [Same]_vars
  <2> SUFFICES ASSUME ConfigInv, Next PROVE Same
    OBVIOUS
  <2>1. IInv
    BY DEF ConfigInv, IInv
  <2>2. CASE ReadGlobal
    <3>1. DOMAIN config = {}
      BY <2>1, <2>2 DEF ReadGlobal, IInv, Progress
    <3> QED BY <3>1
  <2>3. CASE ReadChosen \/ ReadGeneral \/ ReadDropFile \/ MapDestinations
    <3>1. config' = config
      BY <2>3 DEF ReadChosen, ReadGeneral, ReadDropFile, MapDestinations
    <3> QED BY <3>1
  <2>4. CASE AddSections
    BY <2>1, <2>4, AddStep
  <2>5. CASE ValidateAll
    <3>1. stage = "added"
      BY <2>5 DEF ValidateAll
    <3>2. \A n : WasValidated(n) => n = "global"
      BY <3>1 DEF WasValidated
    <3> QED BY <2>1, <2>5, <3>2, ValidateStep
  <2>6. CASE DropInvalid
    BY <2>1, <2>6, DropStep
  <2>7. CASE ValidateAgain
    <3>1. stage = "dropped" /\ Done(config["global"])
      BY <2>1, <2>7 DEF ValidateAgain, IInv, Progress
    <3>2. \A n : WasValidated(n) => config[n].unvalidated = {}
      BY <3>1 DEF WasValidated, Done, Steady
    <3> QED BY <2>1, <2>7, <3>2, AgainStep
  <2> QED BY <2>2, <2>3, <2>4, <2>5, <2>6, <2>7 DEF Next
<1> QED BY <1>1, ConfigInvariance, PTL DEF Spec, Settled

=============================================================================
