------------------------------- MODULE Camera -------------------------------
(***************************************************************************)
(* The V4L2 capture device of daemon/camera.cpp, as operators on a camera  *)
(* record.  The class keeps three facts about the device:                  *)
(*   fd       "open" when fd_ >= 0;                                        *)
(*   buffers  how many entries of buffers_ are mapped: none at all (the    *)
(*            vector is empty), some (an open stopped half way through the *)
(*            mapping loop), or all of them;                               *)
(*   stream   "on" when streaming_ is true, which on UVC is also when the  *)
(*            indicator LED is lit.                                        *)
(*                                                                         *)
(* The kernel driver is external.  During a call it is either "ready", and *)
(* every ioctl succeeds, or "failing" (another process holds the device,   *)
(* it was unplugged, the kernel is out of memory), and the first ioctl     *)
(* that matters fails.  Operations that can throw return the SET of their  *)
(* possible outcomes, each the camera left behind and whether the call     *)
(* returned ("ok") or threw.                                               *)
(***************************************************************************)

\* No stream without a device and buffers: capture() would dequeue what is not there.
CameraState ==
    { c \in [fd : {"closed", "open"}, buffers : {"none", "some", "all"}, stream : {"off", "on"}] :
         c.stream = "on" => c.fd = "open" /\ c.buffers # "none" }

DeviceState == {"ready", "failing"}

\* A default-constructed Camera.
Unopened == [fd |-> "closed", buffers |-> "none", stream |-> "off"]

is_open(c) == c.fd = "open"

is_streaming(c) == c.stream = "on"

Returned(c) == [cam |-> c, res |-> "ok"]

Threw(c) == [cam |-> c, res |-> "threw"]

\* Mutant of start_stream: streaming_ is set before STREAMON has succeeded.
start_stream_Early(c, dev) ==
    IF is_streaming(c)
    THEN { Returned(c) }
    ELSE IF is_open(c) /\ c.buffers # "none" /\ dev = "ready"
         THEN { Returned([c EXCEPT !.stream = "on"]) }
         ELSE { Threw([c EXCEPT !.stream = "on"]) }

\* QBUF every buffer, then STREAMON, six attempts when the answer is EBUSY or
\* EINVAL.  STREAMON answers EINVAL when no buffer was ever requested.
start_stream(c, dev) ==
    IF is_streaming(c)
    THEN { Returned(c) }
    ELSE IF is_open(c) /\ c.buffers # "none" /\ dev = "ready"
         THEN { Returned([c EXCEPT !.stream = "on"]) }
         ELSE { Threw(c) }

\* What a failing bring-up leaves behind.  The three sanity checks close the fd
\* again; die() does not, wherever it is called from.
FailedOpen ==
    { Unopened,                                                    \* open(2), a sanity check
      [fd |-> "open", buffers |-> "none", stream |-> "off"],       \* QUERYCAP, S_FMT, REQBUFS
      [fd |-> "open", buffers |-> "some", stream |-> "off"],       \* QUERYBUF, mmap
      [fd |-> "open", buffers |-> "all",  stream |-> "off"] }      \* STREAMON

open(c, dev) ==
    IF is_open(c)
    THEN { Returned(c) }
    ELSE IF dev = "ready"
         THEN start_stream([c EXCEPT !.fd = "open", !.buffers = "all"], dev)
         ELSE { Threw(f) : f \in FailedOpen }

stop_stream(c) == IF is_streaming(c) /\ is_open(c) THEN [c EXCEPT !.stream = "off"] ELSE c

\* One capture(): a frame, an empty Mat (timeout), an exception, or, when the
\* buffer the driver hands out was never mapped, a read through a null pointer.
capture(c, dev) ==
    IF ~is_open(c) \/ ~is_streaming(c)
    THEN { "threw" }
    ELSE { "empty" } \cup (IF dev = "ready" THEN { "frame" } ELSE { "threw" })
                     \cup (IF dev = "ready" /\ c.buffers = "some" THEN { "segv" } ELSE {})
=============================================================================
