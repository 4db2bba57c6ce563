-------------------------------- MODULE Fatbin --------------------------------
(***************************************************************************)
(* What a GPU can run, and what a container can be rebuilt into            *)
(* (src/src/kernels/fatbin.cpp).  An image is a record: whether it is PTX, *)
(* the SM number it is built for, the launch interface of its PTX, whether *)
(* its payload decompresses, and whether its PTX has a .target directive.  *)
(* A container is a set of images.                                         *)
(***************************************************************************)
EXTENDS Integers, FiniteSetsExt

\* SM numbers are major * 10 + minor; 0 is an architecture nobody knows.
CanRun(is_ptx, image, device) ==
    /\ image # 0 /\ device # 0
    /\ image <= device
    /\ is_ptx \/ image \div 10 = device \div 10

AnyRunnable(images, device) == \E i \in images : CanRun(i.ptx, i.arch, device)

Candidates(images) == {i \in images : i.ptx}

\* PtxSource::Closest: the lowest candidate, whether or not it can be read.
Closest(images) ==
    CHOOSE i \in Candidates(images) : \A j \in Candidates(images) : i.arch <= j.arch

\* PtxSource::Newest: the highest one the runtime can launch the same way.
Newest(images) ==
    LET closest == Closest(images)
        same == {closest} \cup
                {i \in Candidates(images) : i.readable /\ i.interface = closest.interface}
    IN  CHOOSE i \in same : \A j \in same : i.arch >= j.arch

Source(images, choice) == IF choice = "Newest" THEN Newest(images) ELSE Closest(images)

\* Retarget rebuilds the container around one image, or leaves it alone.
CanRetarget(images, device, choice) ==
    /\ ~AnyRunnable(images, device)
    /\ Candidates(images) # {}
    /\ Closest(images).readable
    /\ Source(images, choice).directive

\* What it becomes: one PTX image, for the device.
Retarget(device) == {[ptx |-> TRUE, arch |-> device]}
=============================================================================
