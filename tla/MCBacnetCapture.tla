-------------------------- MODULE MCBacnetCapture ---------------------------
(***************************************************************************)
(* Packets of every kind, from a workstation w and a device d, and         *)
(* announcements of two devices, of which one is announced directly and    *)
(* through a relay.                                                        *)
(***************************************************************************)
EXTENDS BacnetCapture

Unicast(content) == [src |-> "w", dst |-> "d", origin |-> Nothing,
                     function |-> "original-unicast-npdu", content |-> content]
Reply(content) == [Unicast(content) EXCEPT !.src = "d", !.dst = "w"]

Request(service, detail) ==
    Unicast("confirmed") @@ [service |-> service, detail |-> detail, file |-> detail, invoke |-> 1,
                             apdu |-> [start |-> 0, chunks |-> <<<<"x">>>>, eof |-> FALSE]]

Announce(src, origin, instance, numbers) ==
    [src |-> src, dst |-> "all", origin |-> origin, instance |-> instance, numbers |-> numbers,
     function |-> "original-broadcast-npdu", content |-> "unconfirmed", service |-> "i-Am"]

Plain(service) == Unicast("unconfirmed") @@ [service |-> service]

MCTraffic ==
    {Unicast("control"), Unicast("unreadable"),
     Unicast("network") @@ [message |-> "Initialize-Routing-Table", sensitive |-> TRUE],
     Unicast("short") @@ [type |-> "confirmed-request"],
     Unicast("other") @@ [type |-> "simple-ack"],
     Request("readProperty", Nothing),
     Request("atomicReadFile", Nothing), Request("atomicReadFile", "f"),
     Request("atomicWriteFile", "f"),
     Request("writeProperty", <<"analog-output", 1>>), Request("writeProperty", <<"analog-output", 2>>),
     Plain("who-Is"), Plain("writeGroup"),
     Announce("d", Nothing, Nothing, << >>),
     Announce("d", Nothing, "1", <<480, 3, 24>>), Announce("r", "e", "1", <<480>>),
     Announce("e", Nothing, "2", << >>),
     Reply("complex-ack") @@ [service |-> "atomicReadFile", invoke |-> 1,
                              apdu |-> [start |-> 0, chunks |-> <<<<"y">>>>, eof |-> TRUE]],
     Reply("error") @@ [service |-> "writeProperty", class |-> "security", code |-> 0],
     Reply("reject") @@ [reason |-> "unrecognized-service"],
     Reply("abort") @@ [reason |-> "other"]}
=============================================================================
