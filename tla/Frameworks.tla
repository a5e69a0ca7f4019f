------------------------------- MODULE Frameworks -------------------------------
(***************************************************************************)
(* The controls of the frameworks the platform ships                       *)
(* (frameworks/definitions.py), and the events the simulator draws from    *)
(* for the connectors that have no scanner (connectors/simulator.py).  A   *)
(* mapping is a framework and the id of one of its controls; a control     *)
(* fails by its id, letter for letter.                                     *)
(***************************************************************************)

PCI(ids) == {"pci_dss"} \X ids
HIPAA(ids) == {"hipaa"} \X ids
SOX(ids) == {"sox"} \X ids
ISO(ids) == {"iso27001"} \X ids
NIST(ids) == {"nist_csf"} \X ids
HITRUST(ids) == {"hitrust"} \X ids
SOC2(ids) == {"soc2"} \X ids

\* The controls there are.
FRAMEWORKS ==
  PCI({"1.1", "1.2", "2.2", "3.4", "4.2", "5.2", "6.3", "7.2", "8.2", "8.4", "10.2", "10.3",
         "11.3", "12.3"})
    \cup HIPAA({"164.308(a)(1)", "164.308(a)(3)", "164.308(a)(4)", "164.308(a)(5)",
         "164.310(a)(2)", "164.310(d)", "164.312(a)", "164.312(b)", "164.312(c)", "164.312(e)"})
    \cup SOX({"CC6.1", "CC6.2", "CC6.3", "CC7.1", "CC7.2", "CC8.1", "A1.2"})
    \cup ISO({"A.5.15", "A.5.16", "A.5.17", "A.8.5", "A.8.7", "A.8.8", "A.8.15", "A.8.20",
         "A.8.24", "A.12.6"})
    \cup NIST({"ID.AM", "ID.RA", "PR.AC", "PR.DS", "PR.IP", "PR.MA", "PR.PT", "DE.CM", "DE.DP",
         "RS.RP"})
    \cup HITRUST({"01.a", "01.b", "01.d", "01.q", "09.aa", "09.ab", "09.s", "10.f"})
    \cup SOC2({"CC6.1", "CC6.2", "CC6.3", "CC6.6", "CC6.7", "CC6.8", "CC7.1", "CC7.2", "CC7.3",
         "CC7.4", "CC8.1", "A1.1", "A1.2", "C1.1", "C1.2"})

\* Per category of connectors, the mappings of the events drawn from.
EVENT_TEMPLATES ==
  [ network |-> <<
      PCI({"1.2", "1.1"}) \cup ISO({"A.8.20"}) \cup NIST({"PR.PT"}),
      PCI({"4.2", "1.2"}) \cup HIPAA({"164.312(e)"}) \cup ISO({"A.8.20", "A.8.24"}),
      PCI({"1.2", "8.4"}) \cup ISO({"A.8.20"}) \cup NIST({"PR.PT", "PR.AC"}),
      PCI({"1.1", "2.2"}) \cup ISO({"A.8.20"}) \cup NIST({"PR.PT"}),
      PCI({"6.3", "1.2"}) \cup HIPAA({"164.308(a)(1)"}) \cup NIST({"PR.PT"}) >>,
    server |-> <<
      PCI({"6.3", "11.3"}) \cup HIPAA({"164.308(a)(1)"}) \cup ISO({"A.8.8", "A.12.6"}) \cup
        NIST({"PR.MA"}),
      PCI({"8.2", "7.2"}) \cup SOX({"CC6.1"}) \cup ISO({"A.5.16"}),
      PCI({"10.2", "10.3"}) \cup HIPAA({"164.312(b)"}) \cup SOX({"CC7.1"}) \cup ISO({"A.8.15"}),
      PCI({"8.2", "7.2"}) \cup HIPAA({"164.308(a)(3)"}) \cup ISO({"A.8.5"}),
      PCI({"8.2"}) \cup HIPAA({"164.312(a)"}) \cup SOX({"CC6.1"}) \cup ISO({"A.5.17"}),
      PCI({"5.2"}) \cup HIPAA({"164.308(a)(1)"}) \cup ISO({"A.8.7"}) >>,
    identity |-> <<
      PCI({"8.4"}) \cup HIPAA({"164.312(a)"}) \cup SOX({"CC6.1"}) \cup ISO({"A.8.5"}) \cup
        HITRUST({"01.q"}),
      PCI({"8.2"}) \cup SOX({"CC6.3"}) \cup HIPAA({"164.308(a)(3)"}) \cup ISO({"A.5.16"}),
      PCI({"8.2", "7.2"}) \cup SOX({"CC6.3"}) \cup HIPAA({"164.308(a)(3)"}) \cup ISO({"A.5.15"}),
      PCI({"7.2"}) \cup SOX({"CC6.1"}) \cup NIST({"PR.AC"}) \cup ISO({"A.5.15"}),
      PCI({"8.2"}) \cup HIPAA({"164.312(a)"}) \cup ISO({"A.5.17"}) >>,
    cloud |-> <<
      PCI({"3.4", "1.2"}) \cup HIPAA({"164.312(c)"}) \cup ISO({"A.8.24"}) \cup NIST({"PR.DS"}),
      PCI({"8.2", "7.2"}) \cup ISO({"A.5.16"}) \cup NIST({"PR.AC"}),
      PCI({"10.2"}) \cup HIPAA({"164.312(b)"}) \cup SOX({"CC7.1"}) \cup NIST({"DE.CM"}),
      PCI({"1.2", "8.4"}) \cup ISO({"A.8.20"}) \cup NIST({"PR.PT"}),
      PCI({"8.4"}) \cup SOX({"CC6.1"}) \cup ISO({"A.8.5"}) \cup NIST({"PR.AC"}) >>,
    database |-> <<
      PCI({"10.2"}) \cup HIPAA({"164.312(b)"}) \cup SOX({"CC7.1"}) \cup ISO({"A.8.15"}),
      PCI({"2.2", "8.2"}) \cup ISO({"A.5.16"}) \cup NIST({"PR.AC"}),
      PCI({"3.4", "4.2"}) \cup HIPAA({"164.312(e)"}) \cup HITRUST({"10.f"}) \cup ISO({"A.8.24"}) >>,
    siem |-> <<
      PCI({"10.3"}) \cup HIPAA({"164.312(b)"}) \cup SOX({"CC7.2"}) \cup ISO({"A.8.15"}),
      PCI({"8.2", "10.2"}) \cup HIPAA({"164.308(a)(1)"}) \cup ISO({"A.8.5"}),
      PCI({"7.2", "10.2"}) \cup SOX({"CC6.1"}) \cup ISO({"A.5.15"}) >> ]
===============================================================================
