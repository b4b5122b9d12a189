----------------------------- MODULE MCThreads -----------------------------
(* Threads with a few callers, on the platforms the library supports.      *)
EXTENDS Threads

(* AVR: dynamic tasks, which may run before xTaskCreate has returned.      *)
Dynamic == [Static |-> FALSE, CreatorFirst |-> FALSE, Pins |-> FALSE,
            OneShot |-> TRUE, Shared |-> FALSE, Patient |-> FALSE]

(* RP2040: static tasks, started before the scheduler or by a caller of    *)
(* higher priority.                                                        *)
StaticLater == [Static |-> TRUE, CreatorFirst |-> TRUE, Pins |-> TRUE,
                OneShot |-> TRUE, Shared |-> FALSE, Patient |-> FALSE]

(* The same in a program that waits for the kernel before it starts the    *)
(* thread again.                                                           *)
StaticPatient == [StaticLater EXCEPT !.Patient = TRUE]

(* That program on an RP2040 without static allocation.                    *)
DynamicPinned == [StaticPatient EXCEPT !.Static = FALSE]

(* A ThreadArduino whose task may run at once, notified and destroyed.     *)
Endless == [Static |-> TRUE, CreatorFirst |-> FALSE, Pins |-> TRUE,
            OneShot |-> FALSE, Shared |-> TRUE, Patient |-> FALSE]

(* ESP32, RP2040: a static one-shot task that may run at once.             *)
StaticAtOnce == [Static |-> TRUE, CreatorFirst |-> FALSE, Pins |-> FALSE,
                 OneShot |-> TRUE, Shared |-> FALSE, Patient |-> TRUE]

SupportedBuilds == {Dynamic, DynamicPinned, StaticPatient, Endless}

AtOnceBuilds == {StaticAtOnce}

RestartBuilds == {StaticLater}
=============================================================================
