CONSTANTS
  car = car
  van = van
  drone = drone
  kite = kite
  lidar = lidar
  radar = radar
  camera = camera
  Vehicle = {car, van}
  UAV = {drone, kite}
  Sensor = {lidar, radar, camera}
  Owner <- MCOwner
  Mission = {m1, m2}
  Suits <- MCSuits
  Profiles <- MCProfiles
  Interval = 2
  SubSteps = 2
  Threshold = 9
  MaxTime = 16
  None = None
SPECIFICATION Spec
INVARIANTS
  TypeOK
  SensorsHeld
PROPERTY WhatSuccessTakes
SYMMETRY MCSymmetry
