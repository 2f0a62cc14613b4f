------------------------------- MODULE Namespace -------------------------------
(***************************************************************************)
(* The name space: the table of prefixes that naminit() mounts for this     *)
(* configuration, nammap(), and what open() of the device it finds returns. *)
(*                                                                          *)
(* A name is a sequence of pieces of which none begins another, so one name *)
(* begins another exactly if its sequence does.  Names are those that fit   *)
(* on a line of the terminal, far shorter than NM_MAXLEN.                   *)
(***************************************************************************)
EXTENDS Integers, Sequences, SequencesExt, TLC

OK == 1
SYSERR == -1

\* devtab, in the order of conf.c: the names of the devices, in lower case, and dvopen.
devtab ==
    <<[dvname |-> <<"console">>,     dvopen |-> "ionull"],
      [dvname |-> <<"null", "dev">>, dvopen |-> "ionull"],
      [dvname |-> <<"ether0">>,      dvopen |-> "ioerr"],
      [dvname |-> <<"namespace">>,   dvopen |-> "namopen"],
      [dvname |-> <<"rdisk">>,       dvopen |-> "rdsopen"],
      [dvname |-> <<"ram0">>,        dvopen |-> "ramopen"],
      [dvname |-> <<"lfilesys">>,    dvopen |-> "lfsopen"]>> \o
    [i \in 1..6 |-> [dvname |-> <<"lfile", ToString(i - 1)>>, dvopen |-> "ioerr"]]

NDEVS == Len(devtab)
CONSOLE == 0
NULLDEV == 1
NAMESPACE == 3
LFILESYS == 6
RFILESYS == SYSERR   \* no remote file system is configured

isbaddev(d) == d < 0 \/ d >= NDEVS

entry(nprefix, nreplace, ndevice) == [nprefix |-> nprefix, nreplace |-> nreplace, ndevice |-> ndevice]

\* mount() refuses what is no device; the table has room for all that naminit() mounts.
mount(table, e) == IF isbaddev(e.ndevice) THEN table ELSE Append(table, e)

\* naminit()
nametab ==
    FoldLeft(mount, <<>>,
        [i \in 1..NDEVS |-> entry(<<"/", "dev", "/">> \o devtab[i].dvname, <<>>, i - 1)] \o
        <<entry(<<"/", "dev", "/", "null">>, <<>>, NULLDEV),
          entry(<<"/", "remote", "/">>, <<"remote:">>, RFILESYS),
          entry(<<"/", "local", "/">>, <<>>, LFILESYS),
          entry(<<"/", "dev", "/">>, <<>>, SYSERR),
          entry(<<"~", "/">>, <<>>, LFILESYS),
          entry(<<"/">>, <<"root:">>, RFILESYS),
          entry(<<>>, <<>>, LFILESYS)>>)

\* The first prefix that matches is replaced; the last one matches every name.
namrepl(name) ==
    LET matching == {i \in DOMAIN nametab : IsPrefix(nametab[i].nprefix, name)}
        namptr == nametab[CHOOSE i \in matching : \A j \in matching : i <= j]
    IN [device |-> namptr.ndevice,
        newname |-> namptr.nreplace \o SubSeq(name, Len(namptr.nprefix) + 1, Len(name))]

\* What leads back to the name space is mapped again, but always from the same name.
nammap(name) ==
    IF namrepl(name).device # NAMESPACE THEN namrepl(name)
    ELSE [device |-> SYSERR, newname |-> <<>>]

\* What open() may return if lfsopen() returns a member of files: ionull() returns OK, and
\* the remote disk is open since the page server was started.
open(descrp, files) ==
    IF isbaddev(descrp) THEN {SYSERR}
    ELSE CASE devtab[descrp + 1].dvopen = "ionull"  -> {OK}
           [] devtab[descrp + 1].dvopen = "ramopen" -> {descrp}
           [] devtab[descrp + 1].dvopen = "lfsopen" -> files
           [] OTHER                                 -> {SYSERR}

namopen(name, files) == open(nammap(name).device, files)
================================================================================
