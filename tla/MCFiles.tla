------------------------------- MODULE MCFiles -------------------------------
(* A capture of three packets, the array of frames it fills, the export of    *)
(* what is in it, and the reading of the file; or a pcap file of another      *)
(* program, in either byte order and unit of time.                            *)
EXTENDS Capture, FileExport, ArrayVec

vars == <<captureVars, exportVars, arrayVars>>

MCPackets == <<[data |-> <<7, 8, 9>>, actlen |-> 300, sec |-> 5, usec |-> 999999],
               [data |-> <<1>>, actlen |-> 1, sec |-> 70000, usec |-> 0],
               [data |-> <<10, 11>>, actlen |-> 60, sec |-> 70001, usec |-> 1]>>

\* The pcap format, independently of the packages.
PcapFile(flavour) ==
    LET little == flavour \in {"le_usec", "le_nsec"}
        Ordered(bytes) == IF little THEN Reverse(bytes) ELSE bytes
        U16(n) == Ordered(<<n \div 256, n % 256>>)
        U32(n) == Ordered(<<n \div 16777216, (n \div 65536) % 256,
                            (n \div 256) % 256, n % 256>>)
        Record(p) == U32(p.sec) \o U32(p.usec) \o U32(Len(p.data)) \o U32(p.actlen)
                     \o p.data
    IN  Magic[flavour] \o U16(2) \o U16(4) \o U32(0) \o U32(0) \o U32(65535)
        \o U32(Link) \o FlattenSeq([i \in DOMAIN Packets |-> Record(Packets[i])])

MCForeign == {[magic |-> m, network |-> Link, packets |-> Packets, bytes |-> PcapFile(m)] :
                 m \in DOMAIN Magic}

\* process_output iterates over the array.
Stored == [i \in 1..length |-> got[Get(i - 1)[1] + 1]]

Init == CaptureInit /\ ExportInit /\ ArrayInit

\* Bounds: an export starts when the channel and the pipe are empty and all the
\* frames are stored; a file of another program comes to an empty session.
Captured == thread = "dropped" /\ queue = <<>> /\ pipe = <<>> /\ length = Len(got)

Capturing == output = "none" /\ CaptureNext /\ UNCHANGED <<exportVars, arrayVars>>
Storing == /\ output = "none"
           /\ \/ length < Len(got) /\ Push(length)
              \/ \E start \in 0..length : Frames(start, start + 1)
           /\ UNCHANGED <<captureVars, exportVars>>
Exporting == /\ output # "none" \/ Captured
             /\ ExportNext(Stored)
             /\ UNCHANGED <<captureVars, arrayVars>>
Opening == /\ sent = 0 /\ child = "running" /\ holder /\ thread = "check" /\ pipe = <<>>
           /\ ForeignFile
           /\ UNCHANGED <<captureVars, arrayVars>>

Next == Capturing \/ Storing \/ Exporting \/ Opening
Spec == Init /\ [][Next]_vars /\ CaptureFairness
=============================================================================
