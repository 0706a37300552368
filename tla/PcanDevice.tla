------------------------------ MODULE PcanDevice ------------------------------
(***************************************************************************)
(* The life of the devices of the PEAK driver: loading and unloading of    *)
(* the module (pcan_main.c), what each kind of device takes from the       *)
(* kernel and gives back (pcan_isa.c, pcan_pci.c, pcan_dongle.c,           *)
(* pcan_pccard*.c, pcan_usb.c), plugging in and out, and the paths to a    *)
(* device: character device files (pcan_fops.c) and its network interface  *)
(* (pcan_netdev.c).  What goes over a path is the business of PcanChar.    *)
(*                                                                         *)
(* A record k holds what the driver and the kernel know of the devices; an *)
(* operator of the code's name says what a function makes of it.  A        *)
(* process runs until it sleeps: opening and closing a path sleep in the   *)
(* middle, and the actions are cut there.  Loading, plugging and unloading *)
(* are cut where other processes can see a difference.                     *)
(***************************************************************************)
EXTENDS Naturals, SequencesExt, FiniteSetsExt

CONSTANTS Devs,         \* 1 .. n, in the order in which they are found
          Files,        \* processes that open the character device
          Setups        \* see below

ASSUME DeviceAssumption == Devs = 1 .. Cardinality(Devs) /\ Files \cap Devs = {}

VARIABLES
    setup,      \* kind of the devices; board: ISA interrupt level, PCI board or
                \* PC card of each; old: a kernel before 2.6.16; troubles: a bound on
                \* failing calls and cards pulled out together; it does not change
    phase,      \* how far init_module() is: "load", "drivers", "chrdev", "in", "out"
    found,      \* devices that init_module() has looked for
    k,          \* the devices
    pc, at,     \* per path (a file, or the interface of a device): place and device
    excuses,    \* pairs <<what, device>> that have happened
    troubles        \* counter for the bound

vars == <<setup, phase, found, k, pc, at, excuses, troubles>>

NoDev == 0
Kind(d) == setup.kind[d]
Hotplug == {d \in Devs : Kind(d) \in {"usb", "pccard"}}
Mates(d) == {e \in Devs : Kind(e) = Kind(d) /\ setup.board[e] = setup.board[d]}
First(d) == CHOOSE e \in Mates(d) : \A f \in Mates(d) : e <= f
Slave(d) == Kind(d) = "pci" /\ d # First(d)
Paths == Files \cup Devs

Fresh == [alive |-> {},                         \* struct pcandev that are allocated
          held |-> {},                          \* pairs <<device, resource>>
          step |-> [d \in Devs |-> 0],          \* dev->wInitStep
          list |-> <<>>,                        \* pcan_drv.devices
          minor |-> [d \in Devs |-> 0],
          installed |-> {},                     \* dev->ucPhysicallyInstalled
          open |-> [d \in Devs |-> 0],          \* dev->nOpenPaths
          link |-> [d \in Devs |-> 0],          \* link.open of a card, at its first device
          active |-> [d \in Devs |-> 0],        \* same_irq_active of an ISA level
          net |-> {}, stray |-> {},             \* dev->netdev, interfaces nobody points to
          up |-> {},                            \* interfaces that are up
          drivers |-> {},                       \* usbdrv, pccarddrv: filled in
          port |-> [d \in Devs |-> [now |-> FALSE, old |-> FALSE]],  \* EPP mode, saved mode
          wrong |-> {}]                         \* what was given back or used, and was not held

Init ==
    /\ setup \in Setups
    /\ phase = "load" /\ found = 0 /\ k = Fresh
    /\ pc = [p \in Paths |-> "closed"] /\ at = [p \in Paths |-> IF p \in Devs THEN p ELSE NoDev]
    /\ excuses = {} /\ troubles = 0

When(c, e) == IF c THEN {e} ELSE {}
Wrong(s, d, what) == [s EXCEPT !.wrong = @ \cup {<<d, what>>}]
Take(s, d, r) == [s EXCEPT !.held = @ \cup {<<d, r>>}]
Give(s, d, r) ==
    IF <<d, r>> \in s.held THEN [s EXCEPT !.held = @ \ {<<d, r>>}] ELSE Wrong(s, d, r)
Used(s, d) == IF d \in s.alive THEN s ELSE Wrong(s, d, "freed")
Kfree(s, d) == [Used(s, d) EXCEPT !.alive = @ \ {d}, !.step[d] = 0]
Counted(s, kind) == Cardinality({d \in Devs : Kind(d) = kind /\ <<d, "counted">> \in s.held})

-----------------------------------------------------------------------------
(* What the kinds of devices take, in order, with wInitStep after it.       *)

pcan_isa_init == <<<<"region", 2>>, <<"counted", 3>>>>
pcan_pci_init(d) ==
    (IF Slave(d) THEN <<>> ELSE <<<<"config", 1>>, <<"confmap", 2>>>>)
        \o <<<<"region", 3>>, <<"map", 4>>, <<"counted", 5>>>>
pcan_dongle_init == <<<<"region", 1>>, <<"ecr", 2>>, <<"counted", 3>>>>
pccard_create_single_device == <<<<"region", 1>>, <<"listed", 2>>, <<"counted", 3>>, <<"", 4>>>>
pcan_usb_allocate_resources ==
    <<<<"time", 4>>, <<"param", 5>>, <<"wbuf", 6>>, <<"wurb", 7>>, <<"rbuf", 8>>, <<"rurb", 9>>>>
pcan_usb_plugin ==
    <<<<"", 1>>, <<"listed", 2>>, <<"counted", 3>>>> \o pcan_usb_allocate_resources
        \o <<<<"minor", 4>>>>

Stages(d) ==
    CASE Kind(d) = "isa" -> pcan_isa_init
      [] Kind(d) = "pci" -> pcan_pci_init(d)
      [] Kind(d) = "dongle" -> pcan_dongle_init
      [] Kind(d) = "pccard" -> pccard_create_single_device
      [] Kind(d) = "usb" -> pcan_usb_plugin

Stage(s, d, stage) ==
    LET t == [s EXCEPT !.step[d] = stage[2]]
    IN  CASE stage[1] = "" -> t
          [] stage[1] = "listed" -> [t EXCEPT !.list = Append(@, d), !.installed = @ \cup {d}]
          [] OTHER -> Take(t, d, stage[1])

(***************************************************************************)
(* kmalloc(), pcan_soft_init() and the first n stages.  The minor number   *)
(* counts the devices of the kind that are there, but for USB, whose core  *)
(* finds a free one.  usb_register_dev() comes when wInitStep is 4 again.  *)
(***************************************************************************)
pcan_soft_init(s, d) ==
    [s EXCEPT !.alive = @ \cup {d}, !.step[d] = 0, !.open[d] = 0, !.installed = @ \ {d},
              !.active[d] = 0,
              !.minor[d] = IF Kind(d) = "usb" THEN d ELSE Counted(s, Kind(d))]
Begun(s, d, n) ==
    LET t == FoldLeft(LAMBDA u, i : Stage(u, d, Stages(d)[i]), pcan_soft_init(s, d),
                      [i \in 1 .. n |-> i])
    IN  IF Kind(d) = "usb" /\ n = 9 THEN [t EXCEPT !.step[d] = 4] ELSE t

-----------------------------------------------------------------------------
(* Interrupts.                                                              *)

\* ISA devices of one level share a handler, which the first of them requests.
pcan_isa_req_irq(s, d, ok) ==
    LET a == First(d)
        n == s.active[a] + 1
        t == [s EXCEPT !.active[a] = n]
    IN  IF s.step[d] # 3 THEN s
        ELSE IF n > 1 THEN [t EXCEPT !.step[d] = 4]
        ELSE IF ok THEN Take([t EXCEPT !.step[d] = 4], a, "irq") ELSE t

pcan_isa_free_irqEach(s, d) ==                   \* a mutant: the first to close frees it
    IF s.step[d] # 4 THEN s
    ELSE Give([s EXCEPT !.active[First(d)] = 0, !.step[d] = 3], First(d), "irq")
pcan_isa_free_irq(s, d) ==
    LET a == First(d)
        t == [s EXCEPT !.active[a] = @ - 1, !.step[d] = 3]
    IN  IF s.step[d] # 4 THEN s
        ELSE IF t.active[a] = 0 THEN Give(t, a, "irq") ELSE t

\* The others request a line of their own.  A PCI slave uses its master's map.
OwnLine(d) == CASE Kind(d) = "pci" -> 5 [] Kind(d) = "dongle" -> 3 [] OTHER -> 4
Mapped(s, d) ==
    IF Kind(d) = "pci" /\ <<First(d), "confmap">> \notin s.held THEN Wrong(s, d, "unmapped") ELSE s

RequestOwn(s, d, ok) ==
    IF s.step[d] # OwnLine(d) \/ ~ok THEN s
    ELSE Mapped(Take([s EXCEPT !.step[d] = OwnLine(d) + 1], d, "irq"), d)
pcan_pci_free_irq(s, d) ==
    IF s.step[d] # 6 THEN s ELSE Give(Mapped([s EXCEPT !.step[d] = 5], d), d, "irq")
pcan_dongle_free_irq(s, d) ==
    IF s.step[d] # 4 THEN s ELSE Give([s EXCEPT !.step[d] = 3], d, "irq")
pccard_free_irq(s, d) ==
    IF s.step[d] < 5 THEN s ELSE Give([s EXCEPT !.step[d] = 4], d, "irq")

req_irq(s, d, ok) ==
    CASE Kind(d) = "isa" -> pcan_isa_req_irq(s, d, ok)
      [] Kind(d) = "usb" -> s
      [] OTHER -> RequestOwn(s, d, ok)

(***************************************************************************)
(* cleanup(): a switch over wInitStep that falls through, as a table of    *)
(* its cases and what they do.  free_irq() of a USB device is not about an *)
(* interrupt: it cleans up behind the last path when the device is gone.   *)
(***************************************************************************)
pcan_isa_cleanup == <<<<4, "irq">>, <<3, "counted">>, <<1, "region">>>>
pcan_pci_cleanup(d) ==
    <<<<6, "irq">>, <<5, "counted">>, <<4, "map">>, <<3, "region">>>>
        \o (IF Slave(d) THEN <<>> ELSE <<<<2, "confmap">>, <<1, "config">>>>)
pcan_dongle_cleanup == <<<<4, "irq">>, <<3, "counted">>, <<2, "ecr">>, <<1, "region">>>>
PccardCases == <<<<3, "counted">>, <<2, "uninstall">>, <<2, "list">>, <<1, "region">>, <<0, "kfree">>>>
pcan_usb_free_resources ==
    <<<<9, "rurb">>, <<8, "rbuf">>, <<7, "wurb">>, <<6, "wbuf">>, <<5, "param">>, <<4, "time">>>>
UsbCases == <<<<3, "counted">>, <<2, "list">>, <<0, "kfree">>>>

list_del(s, d) ==
    IF Contains(s.list, d) THEN [s EXCEPT !.list = Remove(@, d)] ELSE Wrong(s, d, "list")

Case(s, d, what) ==
    CASE what = "irq" -> (CASE Kind(d) = "isa" -> pcan_isa_free_irq(s, d)
                            [] Kind(d) = "pci" -> pcan_pci_free_irq(s, d)
                            [] Kind(d) = "dongle" -> pcan_dongle_free_irq(s, d))
      [] what = "list" -> list_del(s, d)
      [] what = "uninstall" -> [s EXCEPT !.installed = @ \ {d}]
      [] what = "kfree" -> Kfree(s, d)
      [] OTHER -> Give(s, d, what)

Switch(s, d, step, table) ==
    FoldLeft(LAMBDA t, c : IF c[1] <= step THEN Case(t, d, c[2]) ELSE t,
             [s EXCEPT !.step[d] = step], table)

\* The case for the interface is never reached: free_resources() leaves 3 at most.
pcan_usb_cleanup(s, d) ==
    LET t == Switch(s, d, s.step[d], pcan_usb_free_resources)
    IN  Switch(t, d, IF t.step[d] > 3 THEN 3 ELSE t.step[d], UsbCases)

pcan_usb_free_irq(s, d) == IF d \in s.installed THEN s ELSE pcan_usb_cleanup(s, d)

free_irq(s, d) ==
    CASE Kind(d) = "usb" -> pcan_usb_free_irq(s, d)
      [] Kind(d) = "pccard" -> pccard_free_irq(s, d)
      [] OTHER -> Case(s, d, "irq")

-----------------------------------------------------------------------------
(* dev->open() and dev->release(): the dongle switches the printer port and *)
(* switches it back, a PC card counts its users; the others do nothing.     *)

CardUsed(s, d) ==
    IF <<First(d), "card">> \in s.held THEN s ELSE Wrong(s, d, "card")

pcan_dongle_open(s, d) == [s EXCEPT !.port[d] = [now |-> TRUE, old |-> @.now]]
pcan_dongle_release(s, d) == [s EXCEPT !.port[d].now = s.port[d].old]
pccard_open(s, d) == [CardUsed(s, d) EXCEPT !.link[First(d)] = @ + 1]
pccard_release(s, d) ==
    [CardUsed(s, d) EXCEPT !.link[First(d)] = IF @ > 0 THEN @ - 1 ELSE 0]

dev_open(s, d) ==
    CASE Kind(d) = "dongle" -> pcan_dongle_open(s, d)
      [] Kind(d) = "pccard" -> pccard_open(s, d)
      [] OTHER -> s
dev_release(s, d) ==
    CASE Kind(d) = "dongle" -> pcan_dongle_release(s, d)
      [] Kind(d) = "pccard" -> pccard_release(s, d)
      [] OTHER -> s

\* The end of pcan_release_path(): "after this 'dev' is not valid".
LastRelease(s, d) ==
    free_irq([dev_release(s, d) EXCEPT !.open[d] = 0], d)
pcan_release_path(s, d) ==
    IF s.open[d] > 1 THEN [s EXCEPT !.open[d] = @ - 1] ELSE LastRelease(s, d)

(***************************************************************************)
(* Network interfaces.  register_netdev() may fail, and nobody asks; who   *)
(* registers twice forgets the first interface.  unregister_netdev()       *)
(* closes an interface that is up.                                         *)
(***************************************************************************)
pcan_netdev_register(s, d) ==
    [s EXCEPT !.net = @ \cup {d}, !.stray = IF d \in s.net THEN @ \cup {d} ELSE @]
pcan_netdev_unregister(s, d) ==
    IF d \notin s.net THEN s
    ELSE [(IF d \in s.up THEN pcan_release_path([s EXCEPT !.up = @ \ {d}], d) ELSE s)
              EXCEPT !.net = @ \ {d}]

pccard_cleanup(s, d) ==
    LET irq == IF s.step[d] >= 5 THEN pccard_free_irq(s, d) ELSE s
        net == IF s.step[d] >= 4 THEN pcan_netdev_unregister(CardUsed(irq, d), d) ELSE irq
    IN  Switch(net, d, s.step[d], PccardCases)

cleanup(s, d) ==
    CASE Kind(d) = "isa" -> Switch(s, d, s.step[d], pcan_isa_cleanup)
      [] Kind(d) = "pci" -> Switch(s, d, s.step[d], pcan_pci_cleanup(d))
      [] Kind(d) = "dongle" -> Switch(s, d, s.step[d], pcan_dongle_cleanup)
      [] Kind(d) = "pccard" -> pccard_cleanup(s, d)
      [] Kind(d) = "usb" -> pcan_usb_cleanup(s, d)
-----------------------------------------------------------------------------
(* Plugging out, and the end of the module.                                 *)

pcan_usb_plugoutNow(s, d) ==                     \* a mutant: does not wait for the last path
    pcan_usb_cleanup([Give(pcan_netdev_unregister(s, d), d, "minor")
                          EXCEPT !.installed = @ \ {d}], d)
pcan_usb_plugout(s, d) ==
    LET t == pcan_netdev_unregister(s, d)
        u == [Give(t, d, "minor") EXCEPT !.installed = @ \ {d}]
    IN  IF u.open[d] = 0 THEN pcan_usb_cleanup(u, d) ELSE u

\* card->dev[]: the devices that were created on the card of d and not cleaned up.
OnCard(s, d) == {e \in Mates(d) : <<e, "oncard">> \in s.held}

pccard_release_all_devices(s, d) ==
    Give(FoldLeft(LAMBDA t, e : Give(pccard_cleanup(t, e), e, "oncard"), s,
                  SetToSortSeq(OnCard(s, d), LAMBDA x, y : x < y)),
         First(d), "common")

Postponed(s, d) == setup.old /\ s.link[First(d)] > 0
pccard_plugout(s, d) ==
    IF Postponed(s, d) THEN [s EXCEPT !.installed = @ \ OnCard(s, d)]
    ELSE IF <<First(d), "config">> \in s.held
         THEN Give(pccard_release_all_devices(s, d), First(d), "config") ELSE s

\* Removal of the card or of the driver: the structure of the card is freed, too.
pccard_detach(s, d) == Give(pccard_plugout(s, d), First(d), "card")

Ordered(ds) == SetToSortSeq(ds, LAMBDA x, y : x < y)
AllWith(s, r) == Ordered({d \in Devs : <<d, r>> \in s.held})

(***************************************************************************)
(* usb_deregister() and pcmcia_unregister_driver(), which are called when  *)
(* the structure has been filled in, whether it was registered or not.     *)
(***************************************************************************)
pcan_usb_deinit(s) ==
    IF "usb" \in s.drivers
    THEN FoldLeft(pcan_usb_plugout, Give(s, 0, "usb"), AllWith(s, "minor")) ELSE s
pcan_pccard_deinit(s) ==
    IF "pccard" \in s.drivers
    THEN FoldLeft(pccard_detach, Give(s, 0, "pccard"), AllWith(s, "card")) ELSE s

\* What is on the list in the end is cleaned up in reverse order.
Emptied(s) == FoldRight(LAMBDA d, t : Kfree(list_del(cleanup(t, d), d), d), s.list, s)
cleanup_moduleLate(s, wInitStep) ==              \* a mutant: one step too late
    Emptied(pcan_pccard_deinit(pcan_usb_deinit(
        IF wInitStep < 3 THEN s
        ELSE FoldLeft(pcan_netdev_unregister, s,
                      SelectSeq(s.list, LAMBDA d : Kind(d) # "usb")))))
cleanup_module(s, wInitStep) ==
    LET nets == IF wInitStep < 2 THEN s
                ELSE FoldLeft(pcan_netdev_unregister, s,
                              SelectSeq(s.list, LAMBDA d : Kind(d) # "usb"))
    IN  Emptied(pcan_pccard_deinit(pcan_usb_deinit(nets)))

-----------------------------------------------------------------------------
(* Creating devices.                                                        *)

Fault == troubles < setup.troubles /\ troubles' = troubles + 1
\* After something wrong there is no telling what comes, and the model stops.
Sane == k.wrong = {}
Steady == Sane /\ UNCHANGED <<setup, found, pc, at, excuses>>

\* The states in which a failing creation leaves the device to its cleanup().
Fallible(r) == r \notin {"", "counted", "listed", "param"}
HalfMade(s, d) ==
    {Begun(s, d, n - 1) : n \in {i \in 1 .. Len(Stages(d)) : Fallible(Stages(d)[i][1])}}
    \cup (CASE Kind(d) \in {"isa", "pci"} -> {Begun(s, d, Len(Stages(d)))}     \* no SJA1000
            [] Kind(d) = "pccard" -> {Begun(s, d, 1)}
            [] Kind(d) = "usb" -> {[Begun(s, d, 9) EXCEPT !.step[d] = 9]}      \* no param_urb
            [] OTHER -> {})

(***************************************************************************)
(* pcan_search_and_create_pci_devices() and make_legacy_devices(), device  *)
(* by device.  When there is no memory the result is still 0: loading goes *)
(* on without the device, and without the PCI devices after it.            *)
(***************************************************************************)
Create ==
    LET d == found + 1 IN
    /\ phase = "load" /\ d \in Devs
    /\ found' = d
    /\ Sane /\ UNCHANGED <<setup, pc, at, excuses>>
    /\ IF d \in Hotplug \/ (Kind(d) = "pci" /\ \E e \in 1 .. found : Kind(e) = "pci" /\ e \notin k.alive)
       THEN UNCHANGED <<k, phase, troubles>>
       ELSE \/ /\ k' = [Begun(k, d, Len(Stages(d))) EXCEPT
                            !.list = Append(@, d), !.installed = @ \cup {d}]
               /\ UNCHANGED <<phase, troubles>>
            \/ Fault /\ UNCHANGED <<k, phase>>
            \/ /\ Fault /\ phase' = "out"
               /\ \E h \in HalfMade(k, d) : k' = cleanup_module(Kfree(cleanup(h, d), d), 0)

\* pcan_usb_register_devices(), pcan_pccard_register_devices().
RegisterDrivers ==
    /\ phase = "load" /\ found = Cardinality(Devs) /\ Steady
    /\ LET usb == [k EXCEPT !.drivers = {"usb"}]
           both == [Take(usb, 0, "usb") EXCEPT !.drivers = {"usb", "pccard"}]
       IN  \/ /\ k' = Take(both, 0, "pccard") /\ phase' = "drivers" /\ UNCHANGED troubles
           \/ /\ Fault /\ phase' = "out"
              /\ k' = cleanup_module(usb, 0) \/ k' = cleanup_module(both, 0)

\* While an interface is opened or closed, none is registered or unregistered.
Rtnl == \A d \in Devs : pc[d] = "closed"

\* register_chrdev(), and the interfaces of all devices but those for USB.
RegisterChrdev ==
    /\ phase = "drivers" /\ Steady
    /\ LET mine == SelectSeq(k.list, LAMBDA d : Kind(d) # "usb")
       IN  \/ /\ k' = FoldLeft(pcan_netdev_register, k, mine)
              /\ phase' = "chrdev" /\ UNCHANGED troubles
           \/ /\ Fault /\ phase' = "chrdev"
              /\ \E d \in ToSet(mine) :
                    k' = FoldLeft(pcan_netdev_register, k, SelectSeq(mine, LAMBDA e : e # d))
           \/ Fault /\ k' = cleanup_module(k, 1) /\ phase' = "out"

RegisterProc ==
    /\ phase = "chrdev" /\ Steady
    /\ \/ phase' = "in" /\ UNCHANGED <<k, troubles>>
       \/ Fault /\ k' = cleanup_module(k, 2) /\ phase' = "out"

\* rmmod: not before the last file is closed, but interfaces may be up.
Unload ==
    /\ phase = "in" /\ \A p \in Files : pc[p] = "closed"
    /\ Rtnl /\ Steady
    /\ k' = cleanup_module(k, 3) /\ phase' = "out"
    /\ UNCHANGED troubles

-----------------------------------------------------------------------------
(* Plugging in and out.                                                     *)

Plugged == phase \in {"drivers", "chrdev", "in"} /\ Rtnl
Uses(p, d) == at[p] = d /\ (pc[p] # "closed" \/ p \in k.up)
PlugSteady == Sane /\ UNCHANGED <<setup, phase, found, pc, at>>

UsbPlugin(d) ==
    /\ Plugged /\ PlugSteady /\ UNCHANGED excuses
    /\ Kind(d) = "usb" /\ d \notin k.alive /\ ~\E p \in Paths : Uses(p, d)
    /\ LET made == Begun(k, d, Len(Stages(d)))
       IN  \/ k' = pcan_netdev_register(made, d) /\ UNCHANGED troubles
           \/ k' = made /\ Fault
           \/ Fault /\ \E h \in HalfMade(k, d) : k' = pcan_usb_cleanup(h, d)

UsbPlugout(d) ==
    /\ Plugged /\ Fault /\ PlugSteady
    /\ Kind(d) = "usb" /\ <<d, "minor">> \in k.held
    /\ k' = pcan_usb_plugout(k, d)
    /\ excuses' = excuses \cup
           When(d \notin k'.alive
                    /\ \E p \in Files : at[p] = d /\ pc[p] \in {"allocated", "opening"},
                <<d, "torn">>)

(***************************************************************************)
(* pccard_probe(), pccard_plugin() and pccard_create_all_devices().  One   *)
(* channel may fail; without any channel, or without the common I/O area,  *)
(* the card is plugged out again, and probe() of a new kernel leaves the   *)
(* structure of the card behind.                                           *)
(***************************************************************************)
Channels(s, good, nonet) ==
    FoldLeft(LAMBDA t, d : LET u == Take(Begun(t, d, 4), d, "oncard")
                           IN  IF d = nonet THEN u ELSE pcan_netdev_register(u, d),
             s, Ordered(good))
Unplugged(s, c) ==
    IF setup.old THEN pccard_detach(s, c)
    ELSE Take(Give(pccard_plugout(s, c), c, "card"), c, "lost card")

PccardPlugin(c) ==
    LET card == Take(Take(k, c, "card"), c, "config")
        area == Take(card, c, "common")
    IN  /\ Plugged /\ PlugSteady /\ UNCHANGED excuses
        /\ Kind(c) = "pccard" /\ c = First(c) /\ <<c, "card">> \notin k.held
        /\ \A d \in Mates(c) : d \notin k.alive /\ ~\E p \in Paths : Uses(p, d)
        /\ \/ k' = Channels(area, Mates(c), NoDev) /\ UNCHANGED troubles
           \/ Fault /\ \E d \in Mates(c) : k' = Channels(area, Mates(c), d)
           \/ Fault /\ k' = Unplugged(card, c)
           \/ /\ Fault
              /\ \E d \in Mates(c) :
                    \E h \in HalfMade(Channels(area, {e \in Mates(c) : e < d}, NoDev), d) :
                        LET others == Channels(pccard_cleanup(h, d), {e \in Mates(c) : e > d}, NoDev)
                        IN  k' = IF Mates(c) = {d} THEN Unplugged(others, c) ELSE others

PccardRemove(c) ==
    /\ Plugged /\ Fault /\ PlugSteady
    /\ Kind(c) = "pccard" /\ c = First(c) /\ <<c, "card">> \in k.held
    /\ \E d \in OnCard(k, c) : d \in k.installed
    /\ IF Postponed(k, c)
       THEN k' = pccard_plugout(k, c) /\ UNCHANGED excuses
       ELSE /\ k' = pccard_detach(k, c)
            /\ excuses' = excuses \cup {<<NoDev, "pulled">>} \cup
                  UNION {When(\E p \in Files : Uses(p, d), <<d, "torn">>) : d \in Mates(c)}

-----------------------------------------------------------------------------
(* Paths.                                                                   *)

PathSteady == Sane /\ UNCHANGED <<setup, phase, found>>
Others(p, d, places) == \E q \in Paths \ {p} : at[q] = d /\ pc[q] \in places
Overlapped(p, d, places) == When(Others(p, d, places), <<d, "overlap">>)
Overlap(p, d, places) == excuses' = excuses \cup Overlapped(p, d, places)

\* A bound: where paths have overlapped, or many opens have failed, no more are opened.
Orderly(d) == <<d, "overlap">> \notin excuses /\ k.link[First(d)] < Cardinality(Paths)

\* pcan_open(): the first device of the list that has the minor number.
pcan_search_dev(d) ==
    SelectSeq(k.list, LAMBDA e : Kind(e) = Kind(d) /\ k.minor[e] = k.minor[d])[1]

pcan_open(p) ==
    /\ phase = "in" /\ p \in Files /\ pc[p] = "closed"
    /\ \E d \in ToSet(k.list) :
          /\ Kind(d) = "usb" => <<d, "minor">> \in k.held
          /\ Orderly(pcan_search_dev(d))
          /\ at' = [at EXCEPT ![p] = pcan_search_dev(d)]
    /\ pc' = [pc EXCEPT ![p] = "allocated"]
    /\ PathSteady /\ UNCHANGED <<k, excuses, troubles>>

Goto(p, place) ==
    /\ pc' = [pc EXCEPT ![p] = place]
    /\ at' = IF place = "closed" /\ p \in Files THEN [at EXCEPT ![p] = NoDev] ELSE at

OpenState(p, s, place) ==
    /\ k' = IF place = "open" /\ p \in Devs THEN [s EXCEPT !.up = @ \cup {p}] ELSE s
    /\ Goto(p, IF place = "open" /\ p \in Devs THEN "closed" ELSE place)

(***************************************************************************)
(* pcan_open_path() up to device_open(), which sleeps.  Only the first     *)
(* path opens the device, and what has been done is not undone when a      *)
(* later step fails, but for the dongle that is not there.                 *)
(***************************************************************************)
pcan_open_path(p) ==
    LET d == at[p]
        opened == dev_open(k, d)
    IN  /\ \/ p \in Files /\ pc[p] = "allocated"
           \/ p \in k.net \ k.up /\ phase = "in" /\ Rtnl /\ Orderly(p)
        /\ PathSteady
        /\ IF d \notin k.alive
           THEN OpenState(p, Used(k, d), "closed") /\ UNCHANGED <<excuses, troubles>>
           ELSE IF k.open[d] > 0
           THEN /\ OpenState(p, [k EXCEPT !.open[d] = @ + 1], "open")
                /\ Overlap(p, d, {"closing"}) /\ UNCHANGED troubles
           ELSE \/ /\ OpenState(p, req_irq(opened, d, TRUE), "opening")
                   /\ Overlap(p, d, {"opening", "closing"}) /\ UNCHANGED troubles
                \/ /\ Kind(d) = "dongle" /\ Fault                      \* sja1000_probe()
                   /\ OpenState(p, dev_release(opened, d), "closed")
                   /\ Overlap(p, d, {"opening", "closing"})
                \/ /\ Fault                                            \* request_irq()
                   /\ LET failed == req_irq(opened, d, FALSE)
                      IN  /\ req_irq(opened, d, TRUE).held # failed.held
                          /\ OpenState(p, failed, "closed")
                   /\ excuses' = excuses \cup Overlapped(p, d, {"opening", "closing"})
                                         \cup {<<d, "no irq">>}

\* device_open() returns.
Opened(p) ==
    LET d == at[p] IN
    /\ pc[p] = "opening" /\ PathSteady
    /\ IF d \notin k.alive
       THEN OpenState(p, Used(k, d), "closed") /\ UNCHANGED <<excuses, troubles>>
       ELSE \/ /\ d \in k.installed /\ UNCHANGED <<excuses, troubles>>
               /\ OpenState(p, [k EXCEPT !.open[d] = @ + 1], "open")
            \/ /\ IF d \in k.installed THEN Fault ELSE UNCHANGED troubles
               /\ OpenState(p, k, "closed")
               /\ excuses' = excuses \cup {<<d, "failed">>}

\* pcan_release_path(): the last path waits for the FIFO and stops the device.
Release(p) ==
    LET d == at[p] IN
    /\ IF p \in Devs THEN p \in k.up /\ Rtnl ELSE pc[p] = "open"
    /\ PathSteady /\ UNCHANGED troubles
    /\ LET s == [Used(k, d) EXCEPT !.up = @ \ {p}]
           last == d \in k.alive /\ k.open[d] <= 1
       IN  /\ k' = IF last \/ d \notin k.alive THEN s ELSE pcan_release_path(s, d)
           /\ Goto(p, IF last THEN "closing" ELSE "closed")
    /\ Overlap(p, d, {"opening", "closing"})

Released(p) ==
    LET d == at[p] IN
    /\ pc[p] = "closing" /\ PathSteady /\ UNCHANGED troubles
    /\ k' = IF d \in k.alive THEN LastRelease(k, d) ELSE Used(k, d)
    /\ Goto(p, "closed")
    /\ Overlap(p, d, {"allocated", "opening", "closing"})

Next ==
    \/ Create \/ RegisterDrivers \/ RegisterChrdev \/ RegisterProc \/ Unload
    \/ \E d \in Devs : UsbPlugin(d) \/ UsbPlugout(d) \/ PccardPlugin(d) \/ PccardRemove(d)
    \/ \E p \in Paths : pcan_open(p) \/ pcan_open_path(p) \/ Opened(p) \/ Release(p) \/ Released(p)

Spec == Init /\ [][Next]_vars
-----------------------------------------------------------------------------
(* Properties.  Where the code is known to go wrong, the excuse says what    *)
(* has happened before.                                                     *)

Has(d, what) == \E e \in Mates(d) : <<e, what>> \in excuses

\* Nothing is given back that is not held, and no device is used after kfree():
\* neither by the fall-through of a cleanup() switch after a failed step, nor by
\* an unplugged device with open paths, nor by unloading.  Excused: a driver is
\* deregistered that was not registered, a card that failed before its common
\* area gives that area back, paths that overlapped while one was opening or
\* closing (nOpenPaths is changed after the sleep), a device pulled out under the
\* first open, and a card of an old kernel whose user count a failed open spoiled.
NothingTwice ==
    \A w \in k.wrong :
        \/ w[1] = 0 \/ w[2] = "common"
        \/ Has(w[1], "overlap") \/ Has(w[1], "torn")
        \/ setup.old /\ Kind(w[1]) = "pccard" /\ (Has(w[1], "no irq") \/ Has(w[1], "failed"))

UsbBuffers == {"param", "wbuf", "wurb", "rbuf", "rurb"}

\* When the module is out, after an error in init_module() as well as after
\* unloading, it has given everything back: memory, regions, maps, interrupts,
\* interfaces, the mode of the printer port.  Known leaks: the USB buffers (the
\* plugin sets wInitStep back to 4), the structure of a card that failed to
\* come up, the first interface of a PC card that was registered twice, and the
\* printer port after a failed open.
NothingLeft ==
    phase = "out" /\ k.wrong = {} =>
        /\ k.alive = {} /\ k.net = {}
        /\ \A h \in k.held : h[2] \in UsbBuffers \cup {"lost card"}
        /\ \A d \in k.stray : Kind(d) = "pccard"
        /\ \A d \in Devs : k.port[d].now => \E e \in excuses : e[1] = d

\* nOpenPaths is the number of files and interfaces that are open: across failed
\* opens, unplugging, and the unregistering of interfaces that are up.
PathsCounted ==
    \A d \in k.alive :
        ~Has(d, "overlap") /\ ~Has(d, "torn") =>
            k.open[d] = Cardinality({p \in Paths : at[p] = d /\ (p \in k.up \/ pc[p] \in {"open", "closing"})})

\* A device with an open path has its interrupt, also when it shares the line
\* with another ISA device that comes and goes.  Excused: an ISA level on which
\* request_irq() once failed (same_irq_active stays raised).
IrqWhileOpen ==
    \A d \in k.alive : k.open[d] > 0 /\ Kind(d) # "usb"
            /\ ~Has(d, "overlap") /\ ~(Kind(d) = "isa" /\ Has(d, "no irq")) =>
        <<IF Kind(d) = "isa" THEN First(d) ELSE d, "irq">> \in k.held

\* A minor number leads pcan_search_dev() to one device only, until a card has
\* been pulled out: the number is a count of the devices that are there.
MinorsDistinct ==
    <<NoDev, "pulled">> \notin excuses =>
        \A d, e \in ToSet(k.list) :
            Kind(d) = Kind(e) /\ k.minor[d] = k.minor[e] => d = e

\* open() finds the device of its minor number, counts the path, and the device
\* is ready while it is counted.
OpenPathsServed == PathsCounted /\ IrqWhileOpen /\ MinorsDistinct
===============================================================================
