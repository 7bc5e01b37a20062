\* PET wiring: a PIA output and a VIA share IRQ; the PIA's reset() does not
\* release its line.
SPECIFICATION Spec
CONSTANTS
  pia = pia
  via = via
  IrqSources = {pia, via}
  NmiSources = {}
  EagerChips = {}
  SilentReset = {pia}
INVARIANT PinsAreWiredOr
