----------------------------- MODULE MCConfig -----------------------------
(* Configurations for TLC: the general file, files of -c and of the drop   *)
(* directory with the sections a and b, of every kind of source.           *)
EXTENDS Config, TLC

Esx == [type |-> "esx", server |-> "url", password |-> "pw"]
Sat == [sm_type |-> "satellite", sat_server |-> "s", sat_password |-> "pw"]

\* The options of one section
SomeOptions ==
  { Esx, [owner |-> "o"] @@ Esx, [server |-> "", owner |-> "o"] @@ Esx,
    [type |-> "esx", server |-> "url", owner |-> "o", encrypted_password |-> "sealed"],
    [virt_type |-> "esx", server |-> "url", owner |-> "o", encrypted_password |-> "garbled"],
    [virt_type |-> "esx", type |-> "libvirt", server |-> "url", owner |-> "o", password |-> "pw"],
    [sm_type |-> "sam"] @@ Sat @@ Esx, [type |-> "libvirt", sm_type |-> "sam"] @@ Sat,
    Sat @@ Esx, [sat_server |-> ""] @@ Sat @@ Esx, [owner |-> "o"] @@ Sat @@ Esx,
    [sm_type |-> "satellite", type |-> "libvirt", sat_encrypted_password |-> "sealed"],
    [type |-> "libvirt"], [type |-> "libvirt", hypervisor_id |-> "hwuuid"],
    [type |-> "libvirt", server |-> "url"], [virt_type |-> "kubevirt", owner |-> ""],
    [type |-> "fake", file |-> "f", rhsm_encrypted_password |-> "sealed"],
    [type |-> "fake", file |-> "unreadable"], [type |-> "vbox"], [color |-> "red"],
    [type |-> "libvirt", owner |-> "o", rhsm_hostname |-> "h"],
    [type |-> "libvirt", owner |-> "o", rhsm_proxy_hostname |-> "h"],
    [type |-> "libvirt", sm_type |-> "sat"], <<>>, [virt_type |-> "fake", type |-> "vbox"],
    [virt_type |-> "libvirt", type |-> "vbox", owner |-> "o"] }

SomeDefaults ==
  { <<>>, [owner |-> "o", rhsm_encrypted_password |-> "garbled"],
    [sm_type |-> "satellite", sat_server |-> "s", sat_encrypted_password |-> "sealed"] }

Sections == { n :> o : n \in {"a"}, o \in SomeOptions }
Two == { f @@ g : f \in Sections, g \in { "b" :> o : o \in SomeOptions } }
Bare == [global |-> <<>>, options |-> <<>>, defaults |-> <<>>, general |-> <<>>,
         chosen |-> <<>>, dropDir |-> {}, keyFile |-> TRUE]
GlobalFile == "global" :> [interval |-> "low"]

\* Two sources in a file of -c, with every default
Pairs == { [Bare EXCEPT !.chosen = <<f>>, !.defaults = d] : f \in Two, d \in SomeDefaults }
\* Files in every place, some of which have no section or the global one only
Few == { f \in Two : f["b"] = [type |-> "vbox"] \/ f["a"] = f["b"] }
Places ==
  { [Bare EXCEPT !.general = g, !.chosen = c, !.dropDir = d, !.keyFile = k] :
      g \in {<<>>, "a" :> [type |-> "libvirt"]},
      c \in {<<>>, <<(<<>>)>>, <<GlobalFile>>, <<GlobalFile, "a" :> Esx>>},
      d \in { {}, {<<>>} } \cup { {f, "b" :> Sat} : f \in Sections } \cup { {f} : f \in Few },
      k \in BOOLEAN }
\* The global section: from the file and from the command line
Globals ==
  { [Bare EXCEPT !.global = g, !.options = o] :
      g \in { <<>>, [oneshot |-> "True"], [interval |-> "low", print |-> "True"],
              [print_ |-> "True"] },
      o \in { <<>>, [print_ |-> "True", oneshot |-> "False"], [interval |-> "low"] } }

MCInputs == Pairs \cup Places \cup Globals
=============================================================================
