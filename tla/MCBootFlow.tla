------------------------------ MODULE MCBootFlow ------------------------------
(***************************************************************************)
(* Two file systems with every file of interest on them, of which one may  *)
(* be cut off by a reset, on a phone that is otherwise plain; and phones   *)
(* with plain file systems but a display that goes dark, a USB device with *)
(* zero to four units, loaders of every kind, or SMBIOS tables of which some *)
(* are missing or refused.                                                  *)
(***************************************************************************)
EXTENDS BootFlow

Other     == <<"o">>
LongOther == <<"o", "o", "o">>
MCCustom  == <<"c1", "c2">>
MCNoFile  == <<"none">>
MCContents == {MCNoFile, <<>>, MCCustom, Other, LongOther}

Loader(w, r, a) == [winload |-> w, readOnly |-> r, attributes |-> a]
MCLoaders == {l \in LoaderSet : l.readOnly => l.attributes}
PlainLoader == Loader(FALSE, FALSE, FALSE)
MCDpuRegions == <<16, 8, 32>>
Usb(n, s) == [units |-> n, storages |-> s]
MCMsdDevices == {Usb(n, s) : n \in 0..4, s \in {{}, {1}, {1, 2, 3}, {2, 3}}}

SmBios(p, c, l, r) == [protocol |-> p, caches |-> c, lastFreq |-> l, refused |-> r]
NoSmBios == SmBios(FALSE, {}, TRUE, {})
MCSmBiosPhones ==
  {NoSmBios, SmBios(TRUE, {"L1I", "L1D", "L2"}, TRUE, {}), SmBios(TRUE, Caches, FALSE, {})} \union
  {SmBios(TRUE, Caches, TRUE, r) :
     r \in {{}, {"L1D"}, {"Type16"}, {"L2", "L3", "Type17"}, Tables \ {"Type4"}}}

Plain ==
  [enabled |-> FALSE, windows |-> {}, policy |-> [f \in FileSystems |-> MCNoFile],
   mdss |-> "dark", window |-> "mapped", device |-> Usb(0, {}), loaders |-> {},
   readyEvent |-> "closed", smbios |-> NoSmBios]

Policy(e, u) == [f \in FileSystems |-> IF f = "esp" THEN e ELSE u]

MCMachines ==
  {[Plain EXCEPT !.enabled = e, !.windows = {"esp"}, !.policy = Policy(c, Other)] :
     e \in BOOLEAN, c \in MCContents} \union
  {[Plain EXCEPT !.enabled = e, !.windows = FileSystems, !.policy = Policy(c, MCNoFile)] :
     e \in BOOLEAN, c \in {MCNoFile, MCCustom, LongOther}} \union
  {[Plain EXCEPT !.device = d] : d \in MCMsdDevices} \union
  {[Plain EXCEPT !.loaders = MCLoaders, !.readyEvent = e] : e \in {"open", "closed"}} \union
  {[Plain EXCEPT !.mdss = "live", !.window = w] : w \in {"none", "io", "mapped"}} \union
  {[Plain EXCEPT !.smbios = p] : p \in MCSmBiosPhones}
=============================================================================
